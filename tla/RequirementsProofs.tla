------------------------- MODULE RequirementsProofs -------------------------
(* Theorems about the requirement checker, for any list of requirements    *)
(* and any number of changes of the chain between its reads.               *)
EXTENDS Requirements, SequenceTheorems, TLAPS

-----------------------------------------------------------------------------
(* The invariant.                                                          *)

\* A requirement that the check has passed over was met at some moment.
Considered == \A r \in Reqs : r \in Range(queue) \cup unmet \cup everMet

\* A requirement that is named was unmet, or a read of it failed.
Reasoned == unmet \subseteq everUnmet \cup rpcErrors

\* Between its two reads a program stays upgradeable, whatever happens to the
\* code.
Followed ==
    following => queue # <<>> /\ current \in Programs /\ account[current] = "upgradeable"

\* Only an upgradeable program can be closed.
Solid == \A p \in Programs : elf[p] = "gone" => account[p] = "upgradeable"

\* While nothing changes and nothing fails, what has been read is still so.
UpToDate ==
    changes = 0 /\ rpcErrors = {} =>
        \A r \in Reqs : /\ r \in unmet => ~Met(r)
                        /\ r \in Range(queue) \cup unmet \/ Met(r)

IInv == TypeOK /\ Considered /\ Reasoned /\ Followed /\ Solid
        /\ GatesStayMet /\ UpToDate

-----------------------------------------------------------------------------
(* Its steps.                                                              *)

\* Requirements are gates or programs.
LEMMA ReqsFacts == Required \in Seq(Reqs) /\ Reqs \subseteq Gates \cup Programs
<1>1. Required \in Seq(Gates \cup Programs)
  BY RequiredAssumption
<1>2. Len(Required) \in Nat /\ DOMAIN Required = 1..Len(Required)
  BY <1>1
<1>3. \A i \in 1..Len(Required) : Required[i] \in Reqs
  BY <1>2 DEF Reqs, Range
<1>4. Required \in [1..Len(Required) -> Reqs]
  BY <1>1, <1>2, <1>3
<1>5. Required \in Seq(Reqs)
  BY <1>2, <1>4, SeqDef
<1>6. Reqs \subseteq Gates \cup Programs
  BY <1>1, <1>2 DEF Reqs, Range
<1> QED BY <1>5, <1>6

\* The requirements still in the queue when its head is done with.
LEMMA QueueFacts ==
    ASSUME TypeOK, queue # <<>>
    PROVE  /\ current \in Reqs /\ Tail(queue) \in Seq(Reqs)
           /\ Range(queue) = {current} \cup Range(Tail(queue))
<1>1. queue \in Seq(Reqs) /\ Len(queue) \in Nat \ {0}
  BY EmptySeq DEF TypeOK
<1>2. current = queue[1] /\ current \in Reqs /\ Tail(queue) \in Seq(Reqs)
  BY <1>1, HeadTailProperties DEF current
<1>3. /\ Len(Tail(queue)) = Len(queue) - 1
      /\ \A i \in 1..Len(Tail(queue)) : Tail(queue)[i] = queue[i + 1]
  BY <1>1, HeadTailProperties
<1>4. DOMAIN queue = 1..Len(queue) /\ DOMAIN Tail(queue) = 1..Len(Tail(queue))
  BY <1>1, <1>2
<1>5. Range(queue) \subseteq {current} \cup Range(Tail(queue))
  <2> SUFFICES ASSUME NEW i \in 1..Len(queue), i # 1 PROVE queue[i] \in Range(Tail(queue))
    BY <1>2, <1>4 DEF Range
  <2>1. i - 1 \in 1..Len(Tail(queue)) /\ queue[i] = Tail(queue)[i - 1]
    BY <1>1, <1>3
  <2> QED BY <1>4, <2>1 DEF Range
<1>6. {current} \cup Range(Tail(queue)) \subseteq Range(queue)
  <2>1. ASSUME NEW i \in 1..Len(Tail(queue)) PROVE Tail(queue)[i] \in Range(queue)
    BY <1>1, <1>3, <1>4 DEF Range
  <2>2. current \in Range(queue)
    BY <1>1, <1>2, <1>4 DEF Range
  <2> QED BY <1>4, <2>1, <2>2 DEF Range
<1> QED BY <1>2, <1>5, <1>6

\* At the beginning nothing has been read.
LEMMA InitInv == Init => IInv
<1> SUFFICES ASSUME Init PROVE IInv
  OBVIOUS
<1>1. TypeOK
  <2>1. queue \in Seq(Reqs) /\ changes \in 0..MaxChanges
    BY ReqsFacts, MaxChangesAssumption DEF Init
  <2>2. elf \in [Programs -> Hashes \cup {"gone"}]
    BY DEF Init
  <2>3. everMet \subseteq Reqs /\ everUnmet \subseteq Reqs
    BY DEF Init
  <2> QED BY <2>1, <2>2, <2>3 DEF Init, TypeOK
<1>2. Range(queue) = Reqs
  BY DEF Init, Reqs
<1>3. Considered /\ Reasoned /\ Followed /\ Solid /\ GatesStayMet /\ UpToDate
  BY <1>2, HashesAssumption DEF Init, Solid, Considered, Reasoned, Followed, GatesStayMet, UpToDate
<1> QED BY <1>1, <1>3 DEF IInv

\* The head of the queue is done with, for a reason the chain gives or because
\* a read failed.
LEMMA ConcludeInv ==
    ASSUME IInv, queue # <<>>, NEW met \in BOOLEAN, Conclude(met),
           UNCHANGED chain, Remember,
           \/ (met <=> Met(current)) /\ UNCHANGED rpcErrors
           \/ ~met /\ rpcErrors' = rpcErrors \cup {current}
    PROVE  IInv'
<1> USE DEF IInv
<1>1. /\ current \in Reqs /\ Tail(queue) \in Seq(Reqs)
      /\ Range(queue) = {current} \cup Range(Tail(queue))
  BY QueueFacts
<1>2. /\ UNCHANGED <<gate, account, elf, changes>> /\ queue' = Tail(queue) /\ ~following'
      /\ unmet' = IF met THEN unmet ELSE unmet \cup {current}
  BY DEF chain, Conclude
<1>3. \A r \in Reqs : Met(r)' <=> Met(r)
  BY <1>2 DEF Met
<1>4. /\ everMet' = everMet \cup {r \in Reqs : Met(r)}
      /\ everUnmet' = everUnmet \cup {r \in Reqs : ~Met(r)}
  BY <1>3 DEF Remember
<1>5. TypeOK' /\ Followed' /\ Solid'
  BY <1>1, <1>2, <1>4 DEF TypeOK, Followed, Solid, Conclude
<1>6. Considered'
  BY <1>1, <1>2, <1>4 DEF Considered
<1>7. Reasoned'
  BY <1>1, <1>2, <1>4 DEF Reasoned
<1>8. GatesStayMet'
  BY <1>1, <1>2 DEF GatesStayMet, Met
<1>9. UpToDate'
  BY <1>1, <1>2, <1>3 DEF UpToDate
<1> QED BY <1>5, <1>6, <1>7, <1>8, <1>9

\* Each read of the checker preserves the invariant.
LEMMA CheckInv ==
    ASSUME IInv, Check
    PROVE  IInv'
<1> USE DEF IInv
<1>1. queue # <<>> /\ UNCHANGED chain /\ Remember /\ current \in Gates \cup Programs
  BY QueueFacts, ReqsFacts DEF Check, ReadGate, ReadProgram, ReadProgramData
<1>2. ASSUME NEW met \in BOOLEAN, Conclude(met),
             \/ (met <=> Met(current)) /\ UNCHANGED rpcErrors
             \/ ~met /\ rpcErrors' = rpcErrors \cup {current}
      PROVE  IInv'
  BY <1>1, <1>2, ConcludeInv
<1>3. ASSUME HashAccepted(current) <=> Met(current), Conclude(HashAccepted(current)),
             UNCHANGED rpcErrors
      PROVE  IInv'
  <2>1. CASE HashAccepted(current)
    <3>1. Conclude(TRUE)
      BY <1>3, <2>1 DEF Conclude
    <3> QED BY <1>2, <1>3, <2>1, <3>1
  <2>2. CASE ~HashAccepted(current)
    <3>1. Conclude(FALSE)
      BY <1>3, <2>2 DEF Conclude
    <3> QED BY <1>2, <1>3, <2>2, <3>1
  <2> QED BY <2>1, <2>2
<1>4. CASE ReadGate
  BY <1>2, <1>4 DEF ReadGate, LooksActive, Met
<1>5. CASE ReadProgram
  <2>1. current \in Programs /\ current \notin Gates
    BY <1>5, DisjointAssumption DEF ReadProgram
  <2>2. CASE account[current] = "unusable" /\ Conclude(FALSE) /\ UNCHANGED rpcErrors
    BY <1>2, <2>1, <2>2 DEF Met
  <2>3. CASE /\ account[current] = "fixed" /\ Conclude(HashAccepted(current))
             /\ UNCHANGED rpcErrors
    <3>1. elf[current] # "gone"
      BY <2>1, <2>3 DEF Solid
    <3>2. HashAccepted(current) <=> Met(current)
      BY <2>1, <2>3, <3>1 DEF Met, HashAccepted
    <3> QED BY <1>3, <2>3, <3>2
  <2>4. CASE /\ account[current] = "upgradeable" /\ following' = TRUE
             /\ UNCHANGED <<queue, unmet, rpcErrors>>
    <3>1. UNCHANGED <<gate, account, elf, changes, queue, unmet, rpcErrors>>
      BY <1>1, <2>4 DEF chain
    <3>2. \A r \in Reqs : Met(r)' <=> Met(r)
      BY <3>1 DEF Met
    <3>3. everMet \subseteq everMet' /\ everUnmet \subseteq everUnmet'
      BY <1>1 DEF Remember
    <3>4. TypeOK'
      BY <1>1, <2>4, <3>1 DEF TypeOK, Remember
    <3>5. Followed'
      BY <1>1, <2>1, <2>4, <3>1 DEF Followed, current
    <3>6. Considered' /\ Reasoned' /\ Solid' /\ GatesStayMet'
      BY <3>1, <3>3 DEF Considered, Reasoned, Solid, GatesStayMet
    <3>7. UpToDate'
      BY <3>1, <3>2 DEF UpToDate
    <3> QED BY <3>4, <3>5, <3>6, <3>7
  <2>5. CASE Conclude(FALSE) /\ rpcErrors' = rpcErrors \cup {current}
    BY <1>2, <2>5
  <2> QED BY <1>5, <2>2, <2>3, <2>4, <2>5 DEF ReadProgram
<1>6. CASE ReadProgramData
  <2>1. current \in Programs /\ current \notin Gates /\ account[current] = "upgradeable"
    BY <1>6, DisjointAssumption DEF ReadProgramData, Followed
  <2>2. CASE elf[current] = "gone" /\ Conclude(FALSE) /\ UNCHANGED rpcErrors
    BY <1>2, <2>1, <2>2 DEF Met
  <2>3. CASE /\ elf[current] # "gone" /\ Conclude(HashAccepted(current))
             /\ UNCHANGED rpcErrors
    <3>1. HashAccepted(current) <=> Met(current)
      BY <2>1, <2>3 DEF Met, HashAccepted
    <3> QED BY <1>3, <2>3, <3>1
  <2>4. CASE Conclude(FALSE) /\ rpcErrors' = rpcErrors \cup {current}
    BY <1>2, <2>4
  <2> QED BY <1>6, <2>2, <2>3, <2>4 DEF ReadProgramData
<1> QED BY <1>4, <1>5, <1>6 DEF Check

\* The chain moves on: an active gate stays active, and an upgradeable program
\* upgradeable.
LEMMA ChainInv ==
    ASSUME IInv, Chain
    PROVE  IInv'
<1> USE DEF IInv
<1>1. /\ UNCHANGED <<queue, following, unmet, rpcErrors>> /\ Remember
      /\ changes' = changes + 1 /\ changes' \in 1..MaxChanges
  BY MaxChangesAssumption
     DEF Chain, Propose, Activate, Deploy, Upgrade, Close, Change, checker, TypeOK
<1>2. /\ gate' \in [Gates -> {"absent", "pending", "active"}]
      /\ account' \in [Programs -> {"unusable", "fixed", "upgradeable"}]
      /\ elf' \in [Programs -> Hashes \cup {"gone"}]
  BY DEF Chain, Propose, Activate, Deploy, Upgrade, Close, TypeOK
<1>3. /\ \A g \in Gates : gate[g] = "active" => gate'[g] = "active"
      /\ \A p \in Programs : account[p] = "upgradeable" => account'[p] = "upgradeable"
  BY DEF Chain, Propose, Activate, Deploy, Upgrade, Close, TypeOK
<1>4. Solid'
  BY HashesAssumption DEF Chain, Propose, Activate, Deploy, Upgrade, Close, TypeOK, Solid
<1>5. TypeOK'
  BY <1>1, <1>2 DEF TypeOK, Remember
<1>6. Considered' /\ Reasoned'
  BY <1>1 DEF Considered, Reasoned, Remember
<1>7. Followed' /\ GatesStayMet'
  BY <1>1, <1>3 DEF Followed, GatesStayMet, current
<1>8. UpToDate'
  BY <1>1 DEF UpToDate
<1> QED BY <1>4, <1>5, <1>6, <1>7, <1>8

\* The invariant holds in every state of every behaviour.
LEMMA Invariance == Spec => []IInv
<1>1. IInv /\ UNCHANGED vars => IInv'
  <2> SUFFICES ASSUME IInv, UNCHANGED vars PROVE IInv'
    OBVIOUS
  <2>1. \A r : Met(r)' <=> Met(r)
    BY DEF vars, chain, Met
  <2> QED BY <2>1 DEF IInv, TypeOK, Considered, Reasoned, Followed, Solid, GatesStayMet,
                      UpToDate, vars, chain, checker, current
<1>2. IInv /\ [Next]_vars => IInv'
  BY <1>1, CheckInv, ChainInv DEF Next
<1> QED BY InitInv, <1>2, PTL DEF Spec

-----------------------------------------------------------------------------
(* The theorems.                                                           *)

\* The variables of the checker keep their types (RequirementChecker::check).
THEOREM TypeCorrect == Spec => []TypeOK
<1>1. IInv => TypeOK
  BY DEF IInv
<1> QED BY Invariance, <1>1, PTL

\* Nothing is let through that was never met, and nothing is named that was
\* never unmet and answered for, though the chain changes between any two reads.
THEOREM VerdictIsReasoned == Spec => []VerdictHasReason
<1>1. IInv => VerdictHasReason
  BY EmptySeq DEF IInv, Considered, Reasoned, VerdictHasReason, Finished, Range
<1> QED BY Invariance, <1>1, PTL

\* A gate the check let through is still active when the body runs.
THEOREM GatesAreStable == Spec => []GatesStayMet
<1>1. IInv => GatesStayMet
  BY DEF IInv
<1> QED BY Invariance, <1>1, PTL

\* On a chain that stands still and answers, the check names exactly what is
\* unmet.
THEOREM ExactOnQuietChain == Spec => []ExactWhenQuiet
<1>1. IInv => ExactWhenQuiet
  <2> SUFFICES ASSUME IInv, Finished, changes = 0, rpcErrors = {}
               PROVE  unmet = {r \in Reqs : ~Met(r)}
    BY DEF ExactWhenQuiet
  <2>1. Range(queue) = {}
    BY DEF Finished, Range
  <2>2. unmet \subseteq Reqs
    BY DEF IInv, TypeOK
  <2> QED BY <2>1, <2>2 DEF IInv, UpToDate
<1> QED BY Invariance, <1>1, PTL
=============================================================================
