------------------------- MODULE ProgramDeployProofs -------------------------
(* Theorems about the key file and the deployment, for any number of runs   *)
(* and of passes, any images and any chunk size.                            *)
EXTENDS ProgramDeploy, SequenceTheorems, TLAPS

-----------------------------------------------------------------------------
(* The invariant.                                                          *)

\* The pcs of a run that makes a key, and of one that uses one.
Making == {"generate", "write"}
Using == {"deploy", "read", "chunks", "body"}

\* The keys the runs have made and use.
New == used \ {Old, Pinned}

Typed ==
    /\ pc \in [Runs -> Making \cup Using \cup {"start", "done", "panicked", "crashed"}]
    /\ id \in [Runs -> {NoKey, Old, Pinned} \cup (Runs \X Nat)]
    /\ results \in [Runs -> Seq(Outcomes)]
    /\ used \subseteq {Old, Pinned} \cup (Runs \X Nat)
    /\ keyFile \in Keyless \cup {Old} \cup (Runs \X Nat)
    /\ wrote \subseteq Runs

\* A text in the key file at the beginning is never replaced.
TextKept ==
    first \notin Unread =>
        /\ keyFile = first /\ wrote = {}
        /\ \A r \in Runs : pc[r] \notin Making

\* Without it the file holds something readable from the first write on.
Readable == wrote # {} => keyFile \notin Unread

\* A run that is making a key has made none before, and what it finds when it
\* comes to write is its own truncation or the work of another run.
Makers ==
    \A r \in Runs :
        /\ pc[r] \in Making => \A k \in New : k[1] # r
        /\ pc[r] = "write" =>
              r \in wrote /\ (keyFile = Empty \/ \E q \in wrote : q # r)

\* The keys in use are of runs that wrote, one of each; a key in the file is in
\* use or was there from the beginning.
Made ==
    /\ \A k \in New : k[1] \in wrote
    /\ \A j, k \in New : j[1] = k[1] => j = k
    /\ keyFile \in Runs \X Nat => keyFile \in used
    /\ keyFile = Old \/ Old \in used => first = Old

InUse ==
    \A r \in Runs : pc[r] \in Using =>
        /\ id[r] \in used
        /\ id[r] \notin {Old, Pinned} =>
              keyFile = id[r] \/ \E q \in wrote : q # id[r][1]

IInv == Typed /\ TextKept /\ Readable /\ Makers /\ Made /\ InUse

-----------------------------------------------------------------------------
(* The initial states, and what the invariant implies.                     *)

\* There are no keys of the runs at the beginning.
LEMMA InitInv == Init => IInv
<1> SUFFICES ASSUME Init PROVE IInv
  OBVIOUS
<1>1. Typed
  BY DEF Init, Typed, Keyless
<1>2. TextKept /\ Readable /\ Makers /\ InUse
  BY DEF Init, TextKept, Readable, Makers, InUse, New, Making, Using
<1>3. Made
  BY KeyAssumption DEF Init, Made, New, Keyless
<1> QED BY <1>1, <1>2, <1>3 DEF IInv

\* What the theorems need of it.
LEMMA InvImplies == IInv => OneIdentity /\ KeySaved
<1> SUFFICES ASSUME IInv PROVE OneIdentity /\ KeySaved
  OBVIOUS
<1>1. OneIdentity
  BY DEF IInv, Made, TextKept, OneIdentity, New, Unread
<1>2. KeySaved
  <2> SUFFICES ASSUME NEW r \in Runs, pc[r] \in Using, id[r] # Pinned
               PROVE  keyFile = id[r] \/ (id[r] # Old /\ \E q \in wrote : q # id[r][1])
    BY DEF KeySaved, Using
  <2>1. CASE id[r] = Old
    <3>1. first = Old
      BY <2>1 DEF IInv, InUse, Made
    <3>2. Old \notin Unread
      BY KeyAssumption DEF Unread, Keyless
    <3> QED BY <2>1, <3>1, <3>2 DEF IInv, TextKept
  <2>2. CASE id[r] # Old
    BY <2>2 DEF IInv, InUse
  <2> QED BY <2>1, <2>2
<1> QED BY <1>1, <1>2

-----------------------------------------------------------------------------
(* The steps.                                                              *)

\* What the end of a pass does to the control state.
LEMMA FinishFacts ==
    ASSUME Typed, NEW r \in Runs, NEW o \in Outcomes, Finish(r, o)
    PROVE  /\ pc' \in [Runs -> Making \cup Using \cup {"start", "done", "panicked", "crashed"}]
           /\ id' \in [Runs -> {NoKey, Old, Pinned} \cup (Runs \X Nat)]
           /\ results' \in [Runs -> Seq(Outcomes)]
           /\ pc'[r] \in {"start", "done"}
           /\ \A q \in Runs \ {r} : pc'[q] = pc[q] /\ id'[q] = id[q]
<1>1. Append(results[r], o) \in Seq(Outcomes)
  BY AppendProperties DEF Typed
<1> QED BY <1>1 DEF Finish, Goto, Typed

\* A step that leaves the key file alone, uses no new key and sends no run to
\* make one.
LEMMA QuietStep ==
    ASSUME IInv, Typed', NEW r \in Runs,
           UNCHANGED <<first, keyFile, used, wrote>>,
           \A q \in Runs \ {r} : pc'[q] = pc[q] /\ id'[q] = id[q],
           pc'[r] \notin Making,
           pc'[r] \in Using => pc[r] \in Using /\ id'[r] = id[r]
    PROVE  IInv'
<1>1. TextKept' /\ Readable' /\ Made'
  BY DEF IInv, TextKept, Readable, Made, New
<1>2. Makers'
  BY DEF IInv, Makers, New, Making
<1>3. InUse'
  BY DEF IInv, InUse
<1> QED BY <1>1, <1>2, <1>3 DEF IInv

\* The new key of a run is none of the others.
LEMMA KeyFacts ==
    ASSUME Typed, NEW r \in Runs
    PROVE  /\ Key(r) \in Runs \X Nat /\ Key(r)[1] = r
           /\ Key(r) \notin Keyless \cup {Old, Pinned, NoKey}
<1>1. Len(results[r]) + 1 \in Nat
  BY LenProperties DEF Typed
<1> QED BY <1>1, KeyAssumption DEF Key

\* What the choice of a program id does to the control state.
LEMMA IdentifyFacts ==
    ASSUME Typed, NEW r \in Runs,
           NEW key \in {Old, Pinned} \cup (Runs \X Nat), Identify(r, key)
    PROVE  /\ pc' \in [Runs -> Making \cup Using \cup {"start", "done", "panicked", "crashed"}]
           /\ id' \in [Runs -> {NoKey, Old, Pinned} \cup (Runs \X Nat)]
           /\ results' \in [Runs -> Seq(Outcomes)]
           /\ pc'[r] = "deploy" /\ id'[r] = key
           /\ \A q \in Runs \ {r} : pc'[q] = pc[q] /\ id'[q] = id[q]
           /\ used' = used \cup {key} /\ wrote' = wrote
BY DEF Identify, Goto, Typed, Using

\* A run goes on with the address of the manifest or with the key in the file.
LEMMA IdentifyKnown ==
    ASSUME IInv, NEW r \in Runs, UNCHANGED <<first, keyFile>>,
           NEW key \in {Old, Pinned} \cup (Runs \X Nat), Identify(r, key),
           key = Pinned \/ key = keyFile
    PROVE  IInv'
<1> USE DEF IInv
<1>1. /\ pc'[r] = "deploy" /\ id'[r] = key /\ used' = used \cup {key} /\ wrote' = wrote
      /\ \A q \in Runs \ {r} : pc'[q] = pc[q] /\ id'[q] = id[q]
  BY IdentifyFacts
<1>2. Typed'
  BY <1>1, IdentifyFacts DEF Typed
<1>3. New' = New
  BY <1>1 DEF New, Made
<1>4. pc'[r] \notin Making
  BY <1>1 DEF Making
<1>5. TextKept' /\ Readable'
  BY <1>1, <1>4 DEF TextKept, Readable
<1>6. Makers'
  BY <1>1, <1>3, <1>4 DEF Makers, Making
<1>7. Made'
  <2>1. keyFile' = Old \/ Old \in used' => first' = Old
    BY <1>1, KeyAssumption DEF Made
  <2> QED BY <1>1, <1>3, <2>1 DEF Made
<1>8. InUse'
  BY <1>1 DEF InUse
<1> QED BY <1>2, <1>5, <1>6, <1>7, <1>8

\* A run goes to make a key only when nobody has written one.
LEMMA ReadKeyInv ==
    ASSUME IInv, NEW r \in Runs, ReadKey(r)
    PROVE  IInv'
<1> USE DEF IInv
<1>0. UNCHANGED <<first, keyFile>>
  BY DEF ReadKey, file
<1>1. CASE Identify(r, Pinned)
  BY <1>0, <1>1, IdentifyKnown
<1>2. CASE keyFile \in Keys /\ Identify(r, keyFile)
  <2>1. keyFile \in {Old} \cup (Runs \X Nat)
    BY <1>2, PassesAssumption DEF Keys
  <2> QED BY <1>0, <1>2, <2>1, IdentifyKnown
<1>3. CASE keyFile \in Unread /\ Goto(r, "generate")
              /\ UNCHANGED <<id, deployment, results, history>>
  <2>1. UNCHANGED <<id, results, used, wrote>>
    BY <1>3 DEF history
  <2>2. wrote = {} /\ New = {}
    BY <1>3 DEF Readable, Made
  <2>3. Typed'
    BY <1>0, <1>3, <2>1 DEF Typed, Goto, Making
  <2>4. pc'[r] = "generate" /\ \A q \in Runs \ {r} : pc'[q] = pc[q]
    BY <1>3 DEF Goto, Typed
  <2>5. TextKept' /\ Readable'
    BY <1>0, <1>3, <2>1 DEF TextKept, Readable
  <2>6. Makers'
    BY <1>0, <2>1, <2>2, <2>4 DEF Makers, New
  <2>7. Made' /\ InUse'
    BY <1>0, <2>1, <2>4 DEF Made, InUse, New, Using
  <2> QED BY <2>3, <2>5, <2>6, <2>7
<1>4. CASE Finish(r, "badKey") /\ UNCHANGED history
  <2>1. Typed'
    BY <1>0, <1>4, FinishFacts DEF Typed, history, Outcomes
  <2> QED BY <1>0, <1>4, <2>1, FinishFacts, QuietStep DEF history, Outcomes, Making, Using
<1>5. CASE Goto(r, "panicked") /\ UNCHANGED <<id, deployment, results, history>>
  <2>1. Typed'
    BY <1>0, <1>5 DEF Typed, history, Goto
  <2>2. pc'[r] = "panicked" /\ \A q \in Runs \ {r} : pc'[q] = pc[q]
    BY <1>5 DEF Goto, Typed
  <2> QED BY <1>0, <1>5, <2>1, <2>2, QuietStep DEF history, Making, Using
<1> QED BY <1>1, <1>2, <1>3, <1>4, <1>5 DEF ReadKey

\* A run that makes a key has made none, so it is not its own work that it
\* truncates or writes over.
LEMMA TruncateInv ==
    ASSUME IInv, NEW r \in Runs, Truncate(r)
    PROVE  IInv'
<1> USE DEF IInv
<1>0. UNCHANGED <<first, used>> /\ pc[r] = "generate"
  BY DEF Truncate
<1>1. CASE Finish(r, "badKey") /\ UNCHANGED <<keyFile, wrote>>
  <2>1. Typed'
    BY <1>0, <1>1, FinishFacts DEF Typed, Outcomes
  <2> QED BY <1>0, <1>1, <2>1, FinishFacts, QuietStep DEF Outcomes, Making, Using
<1>2. CASE /\ Goto(r, "write") /\ keyFile' = Empty /\ wrote' = wrote \cup {r}
           /\ UNCHANGED <<id, deployment, results>>
  <2>1. Typed'
    BY <1>0, <1>2 DEF Typed, Goto, Making, Keyless
  <2>2. pc'[r] = "write" /\ \A q \in Runs \ {r} : pc'[q] = pc[q]
    BY <1>2 DEF Goto, Typed
  <2>3. TextKept' /\ Readable'
    BY <1>0, <1>2, KeyAssumption DEF TextKept, Readable, Unread, Making
  <2>4. Makers'
    BY <1>0, <1>2, <2>2 DEF Makers, New, Making
  <2>5. Made'
    BY <1>0, <1>2, KeyAssumption DEF Made, New, Keyless
  <2>6. InUse'
    <3> SUFFICES ASSUME NEW q \in Runs, pc'[q] \in Using
                 PROVE  /\ id'[q] \in used'
                        /\ id'[q] \notin {Old, Pinned} =>
                              keyFile' = id'[q] \/ \E p \in wrote' : p # id'[q][1]
      BY DEF InUse
    <3>1. pc[q] \in Using /\ id'[q] = id[q]
      BY <1>2, <2>2 DEF Using
    <3>2. id[q] \notin {Old, Pinned} => id[q][1] # r
      BY <1>0, <3>1 DEF Makers, Making, InUse, New
    <3> QED BY <1>0, <1>2, <3>1, <3>2 DEF InUse
  <2> QED BY <2>1, <2>3, <2>4, <2>5, <2>6
<1> QED BY <1>1, <1>2 DEF Truncate

\* A write that fails, or a crash in the middle of it.
LEMMA FailedWriteInv ==
    ASSUME IInv, NEW r \in Runs, pc[r] = "write", keyFile' \in {keyFile, Garbled},
           Typed', UNCHANGED <<first, used, wrote>>,
           \A q \in Runs \ {r} : pc'[q] = pc[q] /\ id'[q] = id[q],
           pc'[r] \notin Making \cup Using
    PROVE  IInv'
<1> USE DEF IInv
<1>1. TextKept' /\ Readable'
  BY KeyAssumption DEF TextKept, Readable, Unread, Making
<1>2. Makers'
  <2> SUFFICES ASSUME NEW q \in Runs, pc'[q] \in Making
               PROVE  /\ \A k \in New' : k[1] # q
                      /\ pc'[q] = "write" =>
                            q \in wrote' /\ (keyFile' = Empty \/ \E p \in wrote' : p # q)
    BY DEF Makers, Making
  <2>1. q # r /\ pc[q] = pc'[q]
    OBVIOUS
  <2>2. r \in wrote
    BY DEF Makers
  <2> QED BY <2>1, <2>2 DEF Makers, New
<1>3. Made'
  BY KeyAssumption DEF Made, New, Keyless
<1>4. InUse'
  <2> SUFFICES ASSUME NEW q \in Runs, pc'[q] \in Using
               PROVE  /\ id'[q] \in used'
                      /\ id'[q] \notin {Old, Pinned} =>
                            keyFile' = id'[q] \/ \E p \in wrote' : p # id'[q][1]
    BY DEF InUse
  <2>1. pc[q] \in Using /\ id'[q] = id[q]
    OBVIOUS
  <2>2. id[q] \notin {Old, Pinned} => id[q][1] # r
    BY <2>1 DEF Makers, Making, InUse, New
  <2>3. r \in wrote
    BY DEF Makers
  <2> QED BY <2>1, <2>2, <2>3 DEF InUse
<1> QED BY <1>1, <1>2, <1>3, <1>4

\* A run that writes its key has written none before, and what it writes over
\* is its own truncation, or another run has begun to write, too.
LEMMA WriteKeyInv ==
    ASSUME IInv, NEW r \in Runs, WriteKey(r)
    PROVE  IInv'
<1> USE DEF IInv
<1>0. first' = first /\ pc[r] = "write"
  BY DEF WriteKey
<1>1. CASE /\ keyFile' \in {Key(r)} \cup (IF keyFile = Empty THEN {} ELSE {Garbled})
           /\ Identify(r, Key(r))
  <2>1. /\ pc'[r] = "deploy" /\ id'[r] = Key(r) /\ used' = used \cup {Key(r)}
        /\ wrote' = wrote
        /\ \A q \in Runs \ {r} : pc'[q] = pc[q] /\ id'[q] = id[q]
    BY <1>1, KeyFacts, IdentifyFacts
  <2>2. Typed'
    BY <1>1, <2>1, KeyFacts, IdentifyFacts DEF Typed, Keyless
  <2>3. New' = New \cup {Key(r)} /\ Key(r)[1] = r
    BY <2>1, KeyFacts DEF New
  <2>4. r \in wrote /\ (keyFile = Empty \/ \E q \in wrote : q # r)
    BY <1>0 DEF Makers
  <2>5. \A k \in New : k[1] # r
    BY <1>0 DEF Makers, Making
  <2>6. TextKept' /\ Readable'
    BY <1>0, <1>1, <2>1, KeyFacts, KeyAssumption DEF TextKept, Readable, Unread, Making, Keyless
  <2>7. Makers'
    <3> SUFFICES ASSUME NEW q \in Runs, pc'[q] \in Making
                 PROVE  /\ \A k \in New' : k[1] # q
                        /\ pc'[q] = "write" =>
                              q \in wrote' /\ (keyFile' = Empty \/ \E p \in wrote' : p # q)
      BY DEF Makers, Making
    <3>1. q # r /\ pc[q] = pc'[q]
      BY <2>1 DEF Making
    <3> QED BY <2>1, <2>3, <2>4, <3>1 DEF Makers
  <2>8. Made'
    <3>1. \A k \in New' : k[1] \in wrote'
      BY <2>1, <2>3, <2>4 DEF Made
    <3>2. \A j, k \in New' : j[1] = k[1] => j = k
      BY <2>3, <2>5 DEF Made
    <3>3. keyFile' \in Runs \X Nat => keyFile' \in used'
      BY <1>1, <2>1, KeyAssumption DEF Keyless
    <3>4. keyFile' = Old \/ Old \in used' => first' = Old
      BY <1>0, <1>1, <2>1, KeyFacts, KeyAssumption DEF Made, Keyless
    <3> QED BY <3>1, <3>2, <3>3, <3>4 DEF Made
  <2>9. InUse'
    <3> SUFFICES ASSUME NEW q \in Runs, pc'[q] \in Using
                 PROVE  /\ id'[q] \in used'
                        /\ id'[q] \notin {Old, Pinned} =>
                              keyFile' = id'[q] \/ \E p \in wrote' : p # id'[q][1]
      BY DEF InUse
    <3>1. CASE q = r
      BY <1>1, <2>1, <2>3, <2>4, <3>1
    <3>2. CASE q # r
      <4>1. pc[q] \in Using /\ id'[q] = id[q] /\ id[q] \in used
        BY <2>1, <3>2 DEF InUse
      <4>2. id[q] \notin {Old, Pinned} => id[q][1] # r
        BY <2>5, <4>1 DEF New
      <4> QED BY <2>1, <2>4, <4>1, <4>2
    <3> QED BY <3>1, <3>2
  <2> QED BY <2>2, <2>6, <2>7, <2>8, <2>9
<1>2. CASE keyFile' \in {keyFile, Garbled} /\ Finish(r, "badKey") /\ UNCHANGED history
  <2>1. Typed'
    BY <1>2, FinishFacts DEF Typed, history, Outcomes, Keyless
  <2> QED BY <1>0, <1>2, <2>1, FinishFacts, FailedWriteInv DEF history, Outcomes, Making, Using
<1> QED BY <1>1, <1>2 DEF WriteKey

\* A crash in the middle of a write may leave a part of the key.
LEMMA CrashInv ==
    ASSUME IInv, NEW r \in Runs, Crash(r)
    PROVE  IInv'
<1> USE DEF IInv
<1>0. UNCHANGED <<first, id, results, used, wrote>>
  BY DEF Crash, history
<1>1. pc'[r] = "crashed" /\ \A q \in Runs \ {r} : pc'[q] = pc[q] /\ id'[q] = id[q]
  BY <1>0 DEF Crash, Goto, Typed
<1>2. Typed'
  BY <1>0 DEF Typed, Crash, Goto, Keyless
<1>3. CASE pc[r] = "write"
  <2>1. keyFile' \in {keyFile, Garbled}
    BY <1>3 DEF Crash
  <2> QED BY <1>0, <1>1, <1>2, <1>3, <2>1, FailedWriteInv DEF Making, Using
<1>4. CASE pc[r] # "write"
  <2>1. keyFile' = keyFile
    BY <1>4 DEF Crash
  <2> QED BY <1>0, <1>1, <1>2, <2>1, QuietStep DEF Making, Using
<1> QED BY <1>3, <1>4

\* The deployment and the body only use the program id.
LEMMA DeploymentInv ==
    ASSUME IInv, NEW r \in Runs, Deploy(r) \/ ReadSo(r) \/ WriteChunk(r) \/ Body(r)
    PROVE  IInv'
<1> USE DEF IInv
<1>0. pc[r] \in Using /\ UNCHANGED <<first, keyFile, used, wrote>>
  BY DEF Deploy, ReadSo, WriteChunk, Body, Using, file, history
<1>1. CASE \E o \in Outcomes : Finish(r, o)
  <2>1. Typed'
    BY <1>0, <1>1, FinishFacts DEF Typed
  <2> QED BY <1>0, <1>1, <2>1, FinishFacts, QuietStep DEF Making, Using
<1>2. CASE /\ \/ UNCHANGED pc \/ Goto(r, "read") \/ Goto(r, "chunks") \/ Goto(r, "body")
           /\ UNCHANGED <<id, results>>
  <2>1. pc'[r] \in Using /\ \A q \in Runs \ {r} : pc'[q] = pc[q] /\ id'[q] = id[q]
    BY <1>0, <1>2 DEF Goto, Typed, Using
  <2>2. Typed'
    BY <1>0, <1>2 DEF Typed, Goto, Using
  <2> QED BY <1>0, <1>2, <2>1, <2>2, QuietStep DEF Making, Using
<1>3. CASE Deploy(r)
  BY <1>1, <1>2, <1>3 DEF Deploy, Outcomes
<1>4. CASE WriteChunk(r)
  BY <1>1, <1>2, <1>4 DEF WriteChunk, ChunkFails, Outcomes
<1>5. CASE Body(r)
  BY <1>1, <1>5 DEF Body, Outcomes
<1>6. CASE ReadSo(r)
  BY <1>1, <1>2, <1>6 DEF ReadSo, Outcomes
<1> QED BY <1>3, <1>4, <1>5, <1>6

\* Every step preserves the invariant.
LEMMA StepInv == IInv /\ [Next]_vars => IInv'
<1> SUFFICES ASSUME IInv, [Next]_vars PROVE IInv'
  OBVIOUS
<1>1. ASSUME NEW r \in Runs, Run(r) PROVE IInv'
  BY <1>1, ReadKeyInv, TruncateInv, WriteKeyInv, CrashInv, DeploymentInv DEF Run
<1>2. CASE Build \/ UNCHANGED vars
  <2>1. UNCHANGED <<first, keyFile, pc, id, results, used, wrote>>
    BY <1>2 DEF Build, vars, file, history
  <2>2. Typed' /\ TextKept' /\ Readable'
    BY <2>1 DEF IInv, Typed, TextKept, Readable
  <2>3. Makers' /\ Made' /\ InUse'
    BY <2>1 DEF IInv, Makers, Made, InUse, New
  <2> QED BY <2>2, <2>3 DEF IInv
<1> QED BY <1>1, <1>2 DEF Next

-----------------------------------------------------------------------------
(* The theorems.                                                           *)

\* The inductive invariant holds in every state of every behaviour.
LEMMA Inductive == Spec => []IInv
BY InitInv, StepInv, PTL DEF Spec

\* A program keeps its identity: the passes of a run that make a key make one,
\* a key from before the runs stays in use, and a readable key file is never
\* replaced (load_or_generate_program_keypair).
THEOREM IdentityKept == Spec => []OneIdentity
<1>1. IInv => OneIdentity
  BY InvImplies
<1> QED BY Inductive, <1>1, PTL

\* The key of the program that is tested is in the file, unless a run other
\* than the one that made it has begun to write a key, too
\* (load_or_generate_program_keypair, two processes at a time).
THEOREM KeyInUseSaved == Spec => []KeySaved
<1>1. IInv => KeySaved
  BY InvImplies
<1> QED BY Inductive, <1>1, PTL

-----------------------------------------------------------------------------
(* The program in the surfnet.                                             *)

\* The first m bytes of a .so.
Beginning(bytes, m) == [k \in 1..m |-> bytes[k]]

\* How far the chunks that a run has written go.
Reach(r) == Min({next[r] * ChunkSize, Len(image[r])})

\* What the .so file held is remembered.
Files ==
    /\ so \in Seq(Bytes) \cup {NoFile} /\ build \in Seq(Bytes)
    /\ so # NoFile => so \in images
    /\ build # <<>> => so \in Seq(Bytes)

\* A run begins a pass with nothing deployed, writes the beginning of what it has
\* read, and has all of it deployed when the body runs.
Progress ==
    /\ image \in [Runs -> Seq(Bytes)] /\ next \in [Runs -> Nat] /\ DOMAIN program = Runs
    /\ \A r \in Runs :
          /\ next[r] * ChunkSize < Len(image[r]) + ChunkSize
          /\ pc[r] \in Making \cup {"start", "deploy"} => image[r] = <<>>
          /\ pc[r] \in Making \cup {"start", "deploy", "read"} =>
                next[r] = 0 /\ program[r] = <<>>
          /\ pc[r] = "chunks" => program[r] = Beginning(image[r], Reach(r))
          /\ pc[r] = "body" /\ network = "localnet" => program[r] = image[r]

\* Each byte was in the .so, in its place.
Placed(bytes) ==
    \A k \in DOMAIN bytes : \E i \in images : k \in DOMAIN i /\ i[k] = bytes[k]

\* What a run has read are bytes of the .so; they are the beginning of what the
\* .so still is, if nobody wrote it meanwhile, and all of it in the end.
ReadOf(r) ==
    /\ pc[r] = "read" =>
          /\ so \in Seq(Bytes) /\ so \in images
          /\ r \notin torn =>
                /\ Len(image[r]) <= Len(so)
                /\ \A k \in 1..Len(image[r]) : image[r][k] = so[k]
    /\ pc[r] = "chunks" \/ (pc[r] = "body" /\ network = "localnet") =>
          (r \notin torn => image[r] \in images)
    /\ pc[r] \in {"read", "chunks", "body"} => Placed(image[r])

Reading == \A r \in Runs : ReadOf(r)

\* Only a run that has passes left makes a key.
Counted ==
    /\ used \subseteq Keys \cup {Pinned} /\ keyFile \in Keyless \cup Keys
    /\ \A r \in Runs :
          /\ Len(results[r]) <= Passes
          /\ pc[r] \in Making \cup Using \cup {"start"} => Len(results[r]) < Passes

DInv == Typed /\ Files /\ Progress /\ Reading /\ Counted

-----------------------------------------------------------------------------
(* Chunks.                                                                 *)

\* The end of a chunk is the smaller of two numbers.
LEMMA MinOfTwo ==
    ASSUME NEW a \in Nat, NEW b \in Nat
    PROVE  Min({a, b}) = IF a <= b THEN a ELSE b
<1>1. \E x \in {a, b} : \A y \in {a, b} : x =< y
  OBVIOUS
<1>2. Min({a, b}) \in {a, b} /\ \A y \in {a, b} : Min({a, b}) =< y
  BY <1>1, Zenon DEF Min
<1> QED BY <1>2

\* A chunk written behind the beginning of its image makes a longer beginning.
LEMMA ChunkExtends ==
    ASSUME NEW s \in Seq(Bytes), NEW i \in Nat, i * ChunkSize < Len(s)
    PROVE  /\ Min({i * ChunkSize, Len(s)}) = i * ChunkSize
           /\ Written(Beginning(s, i * ChunkSize), Offset(i), Chunk(s, i)) =
                 Beginning(s, Min({(i + 1) * ChunkSize, Len(s)}))
           /\ (i + 1) * ChunkSize < Len(s) + ChunkSize
<1> DEFINE a == i * ChunkSize
           b == Min({(i + 1) * ChunkSize, Len(s)})
<1>1. /\ ChunkSize \in Nat \ {0} /\ Len(s) \in Nat /\ a \in Nat
      /\ (i + 1) * ChunkSize \in Nat /\ (i + 1) * ChunkSize = a + ChunkSize
  BY ChunkSizeAssumption
<1>2. Min({a, Len(s)}) = a
  BY <1>1, MinOfTwo
<1>3. b \in Nat /\ a < b /\ b <= Len(s)
  BY <1>1, MinOfTwo
<1>4. /\ Chunk(s, i) = [k \in 1..(b - a) |-> s[a + k]]
      /\ Len(Chunk(s, i)) = b - a
  <2>1. Chunk(s, i) = SubSeq(s, a + 1, b)
    BY DEF Chunk
  <2> HIDE DEF a, b
  <2> QED BY <1>1, <1>3, <2>1
<1>5. Written(Beginning(s, a), a, Chunk(s, i)) = Beginning(s, b)
  <2> HIDE DEF a, b
  <2>1. DOMAIN Beginning(s, a) = 1..a
    BY DEF Beginning
  <2>2. (1..a) \cup ((a + 1)..(a + (b - a))) = 1..b
    BY <1>1, <1>3
  <2>3. ASSUME NEW k \in 1..b, k \in (a + 1)..(a + (b - a))
        PROVE  Chunk(s, i)[k - a] = s[k]
    BY <1>1, <1>3, <1>4, <2>3
  <2>4. ASSUME NEW k \in 1..b, k \notin (a + 1)..(a + (b - a))
        PROVE  Beginning(s, a)[k] = s[k]
    BY <1>1, <1>3, <2>4 DEF Beginning
  <2>5. Written(Beginning(s, a), a, Chunk(s, i)) =
           [k \in 1..b |-> IF k \in (a + 1)..(a + (b - a))
                           THEN Chunk(s, i)[k - a] ELSE Beginning(s, a)[k]]
    BY <1>4, <2>1, <2>2 DEF Written
  <2> QED BY <2>3, <2>4, <2>5 DEF Beginning
<1>6. Offset(i) = a
  BY DEF Offset
<1>7. a + ChunkSize < Len(s) + ChunkSize
  <2> HIDE DEF b
  <2> QED BY <1>1
<1>8. Min({(i + 1) * ChunkSize, Len(s)}) = b
  OBVIOUS
<1> HIDE DEF b
<1> QED BY <1>1, <1>2, <1>5, <1>6, <1>7, <1>8

\* The beginning of an image that reaches its end is the image.
LEMMA WholeImage ==
    ASSUME NEW s \in Seq(Bytes), NEW i \in Nat, i * ChunkSize >= Len(s)
    PROVE  Beginning(s, Min({i * ChunkSize, Len(s)})) = s
<1>1. i * ChunkSize \in Nat /\ Len(s) \in Nat
  BY ChunkSizeAssumption
<1>2. Min({i * ChunkSize, Len(s)}) = Len(s)
  BY <1>1, MinOfTwo
<1> QED BY <1>2 DEF Beginning

\* Before the first chunk the surfnet holds nothing.
LEMMA NothingYet ==
    ASSUME NEW s \in Seq(Bytes)
    PROVE  /\ 0 * ChunkSize = 0 /\ 0 < Len(s) + ChunkSize
           /\ Beginning(s, Min({0 * ChunkSize, Len(s)})) = <<>>
<1>1. 0 * ChunkSize = 0 /\ Len(s) \in Nat /\ ChunkSize \in Nat \ {0}
  BY ChunkSizeAssumption
<1>2. Min({0, Len(s)}) = 0
  BY <1>1, MinOfTwo
<1>3. Beginning(s, 0) = <<>>
  BY DEF Beginning
<1>4. Beginning(s, Min({0 * ChunkSize, Len(s)})) = <<>>
  BY Zenon, <1>1, <1>2, <1>3
<1>5. 0 < Len(s) + ChunkSize
  BY <1>1
<1> QED BY <1>1, <1>4, <1>5
-----------------------------------------------------------------------------
(* The steps.                                                              *)

\* Nothing is deployed, and no pass is over.
LEMMA DInitInv == Init => DInv
<1> SUFFICES ASSUME Init PROVE DInv
  OBVIOUS
<1>1. Typed
  BY InitInv DEF IInv
<1>2. Files
  BY ImagesAssumption DEF Init, Files
<1>3. Progress
  <2>1. image \in [Runs -> Seq(Bytes)] /\ next \in [Runs -> Nat] /\ DOMAIN program = Runs
    BY DEF Init
  <2>2. ASSUME NEW r \in Runs
        PROVE  /\ pc[r] = "start" /\ image[r] = <<>> /\ next[r] = 0 /\ program[r] = <<>>
               /\ next[r] * ChunkSize < Len(image[r]) + ChunkSize
    BY NothingYet, EmptySeq DEF Init
  <2> QED BY <2>1, <2>2 DEF Progress
<1>4. Counted
  <2>1. used \subseteq Keys \cup {Pinned} /\ keyFile \in Keyless \cup Keys
    BY DEF Init, Keys
  <2>2. ASSUME NEW r \in Runs
        PROVE  Len(results[r]) = 0
    BY DEF Init
  <2> QED BY <2>1, <2>2, PassesAssumption DEF Counted
<1>5. Reading
  BY DEF Init, Reading, ReadOf
<1> QED BY <1>1, <1>2, <1>3, <1>4, <1>5 DEF DInv

\* A step of a run leaves alone what the others have read.
LEMMA ReadingKept ==
    ASSUME DInv, NEW r \in Runs, UNCHANGED <<network, so, images>>, ReadOf(r)',
           \A q \in Runs \ {r} : /\ pc'[q] = pc[q] /\ image'[q] = image[q]
                                 /\ q \in torn => q \in torn'
    PROVE  Reading'
<1>1. ASSUME NEW q \in Runs, q # r
      PROVE  ReadOf(q)'
  <2>1. ReadOf(q) /\ pc'[q] = pc[q] /\ image'[q] = image[q] /\ (q \in torn => q \in torn')
    BY <1>1 DEF DInv, Reading
  <2> QED BY <2>1 DEF ReadOf, Placed
<1> QED BY <1>1 DEF Reading

\* A step of a run before its chunks, or its end, leaves what is deployed alone.
LEMMA KeepsProgress ==
    ASSUME DInv, NEW r \in Runs, UNCHANGED <<network, so, deployment, images>>,
           \A q \in Runs \ {r} : pc'[q] = pc[q],
           \/ pc'[r] \in {"done", "panicked", "crashed"}
           \/ pc[r] \in Making \cup {"start"} /\ pc'[r] \in Making \cup {"deploy"}
           \/ pc[r] = "deploy" /\ pc'[r] = "body" /\ network # "localnet"
    PROVE  Progress' /\ Reading'
<1> USE DEF DInv, Progress, deployment
<1>1. ASSUME NEW q \in Runs, q # r
      PROVE  /\ next'[q] * ChunkSize < Len(image'[q]) + ChunkSize
             /\ pc'[q] \in Making \cup {"start", "deploy"} => image'[q] = <<>>
             /\ pc'[q] \in Making \cup {"start", "deploy", "read"} =>
                   next'[q] = 0 /\ program'[q] = <<>>
             /\ pc'[q] = "chunks" => program'[q] = Beginning(image'[q], Reach(q)')
             /\ pc'[q] = "body" /\ network' = "localnet" => program'[q] = image'[q]
  BY <1>1 DEF Reach
<1>2. /\ pc'[r] \notin {"read", "chunks"} /\ ~(pc'[r] = "body" /\ network' = "localnet")
      /\ pc'[r] \in Making \cup {"start", "deploy"} =>
            image'[r] = <<>> /\ next'[r] = 0 /\ program'[r] = <<>>
  BY DEF Making
<1>3. Progress'
  BY <1>1, <1>2
<1>4. pc'[r] = "body" => image'[r] = <<>>
  BY <1>2
<1>5. ReadOf(r)'
  BY <1>2, <1>4 DEF ReadOf, Placed
<1>6. Reading'
  BY <1>5, ReadingKept
<1> QED BY <1>3, <1>6

\* The next pass begins with nothing deployed, and there is one pass less.
LEMMA FinishProgress ==
    ASSUME DInv, NEW r \in Runs, NEW o \in Outcomes, Finish(r, o),
           pc[r] \in Making \cup Using \cup {"start"},
           UNCHANGED <<network, so, images>>
    PROVE  /\ Progress' /\ Reading'
           /\ \A q \in Runs : /\ Len(results'[q]) <= Passes
                              /\ pc'[q] \in Making \cup Using \cup {"start"} =>
                                    Len(results'[q]) < Passes
<1> USE DEF DInv
<1>0. \A q \in Runs \ {r} : pc'[q] = pc[q]
  BY FinishFacts
<1>1. Progress'
  <2>1. /\ image' = [image EXCEPT ![r] = <<>>] /\ next' = [next EXCEPT ![r] = 0]
        /\ program' = [program EXCEPT ![r] = <<>>]
    BY DEF Finish
  <2>2. pc'[r] \in {"start", "done"}
    BY FinishFacts
  <2>3. image' \in [Runs -> Seq(Bytes)] /\ next' \in [Runs -> Nat] /\ DOMAIN program' = Runs
    BY <2>1, EmptySeq DEF Progress
  <2>4. /\ image'[r] = <<>> /\ next'[r] = 0 /\ program'[r] = <<>>
        /\ next'[r] * ChunkSize < Len(image'[r]) + ChunkSize
    BY <2>1, NothingYet, EmptySeq DEF Progress
  <2>5. ASSUME NEW q \in Runs, q # r
        PROVE  pc'[q] = pc[q] /\ image'[q] = image[q] /\ next'[q] = next[q]
               /\ program'[q] = program[q]
    BY <1>0, <2>1, <2>5 DEF Progress
  <2>6. ASSUME NEW q \in Runs, q # r
        PROVE  Reach(q)' = Reach(q)
    BY <2>5, <2>6 DEF Reach
  <2> QED BY <2>2, <2>3, <2>4, <2>5, <2>6 DEF Progress, Making
<1>2. ASSUME NEW q \in Runs
      PROVE  /\ Len(results'[q]) <= Passes
             /\ pc'[q] \in Making \cup Using \cup {"start"} => Len(results'[q]) < Passes
  <2>1. CASE q # r
    BY <1>0, <2>1 DEF Finish, Typed, Counted
  <2>2. CASE q = r
    <3>1. Len(results[r]) \in Nat /\ Len(results[r]) < Passes
      BY DEF Typed, Counted
    <3>2. results'[r] = Append(results[r], o) /\ Len(results'[r]) = Len(results[r]) + 1
      BY AppendProperties DEF Finish, Typed
    <3>3. pc'[r] = IF Len(results[r]) + 1 = Passes THEN "done" ELSE "start"
      BY DEF Finish, Goto, Typed
    <3> QED BY <2>2, <3>1, <3>2, <3>3, PassesAssumption DEF Making, Using
  <2> QED BY <2>1, <2>2
<1>3. Reading'
  <2>1. pc'[r] \in {"start", "done"} /\ torn' = torn \ {r}
        /\ image' = [image EXCEPT ![r] = <<>>]
    BY FinishFacts DEF Finish
  <2>2. ReadOf(r)'
    BY <2>1 DEF ReadOf
  <2>3. \A q \in Runs \ {r} : /\ pc'[q] = pc[q] /\ image'[q] = image[q]
                              /\ q \in torn => q \in torn'
    BY <1>0, <2>1 DEF Progress
  <2> QED BY <2>2, <2>3, ReadingKept
<1> QED BY <1>1, <1>2, <1>3

\* A step that goes on within its pass leaves it the passes it has.
LEMMA KeepsCount ==
    ASSUME DInv, NEW r \in Runs, results' = results,
           \A q \in Runs \ {r} : pc'[q] = pc[q],
           \/ pc[r] \in Making \cup Using \cup {"start"}
           \/ pc'[r] \notin Making \cup Using \cup {"start"}
    PROVE  \A q \in Runs : /\ Len(results'[q]) <= Passes
                           /\ pc'[q] \in Making \cup Using \cup {"start"} =>
                                 Len(results'[q]) < Passes
BY DEF DInv, Counted

\* Reading and writing the key.
LEMMA KeyFileProgress ==
    ASSUME DInv, Typed', NEW r \in Runs,
           ReadKey(r) \/ Truncate(r) \/ WriteKey(r) \/ Crash(r)
    PROVE  DInv'
<1> USE DEF DInv
<1>0. /\ UNCHANGED <<network, so, build, images>>
      /\ pc[r] \in Making \cup Using \cup {"start"}
  BY DEF ReadKey, Truncate, WriteKey, Crash, setting, builder, Making, Typed
<1>1. Files'
  BY <1>0 DEF Files
<1>2. used' \subseteq Keys \cup {Pinned} /\ keyFile' \in Keyless \cup Keys
  <2>1. pc[r] = "write" => Key(r) \in Keys
    <3> SUFFICES ASSUME pc[r] = "write" PROVE Key(r) \in Keys
      OBVIOUS
    <3>1. Len(results[r]) \in Nat /\ Len(results[r]) < Passes
      BY DEF Typed, Counted, Making
    <3>2. Len(results[r]) + 1 \in 1..Passes
      BY <3>1, PassesAssumption
    <3> QED BY <3>2 DEF Key, Keys
  <2>2. CASE ReadKey(r)
    BY <2>2 DEF ReadKey, Identify, Counted, file, history
  <2>3. CASE Truncate(r)
    BY <2>3 DEF Truncate, Counted, Keyless
  <2>4. CASE WriteKey(r)
    BY <2>1, <2>4 DEF WriteKey, Identify, Counted, Keyless, history
  <2>5. CASE Crash(r)
    BY <2>5 DEF Crash, Counted, Keyless, history
  <2> QED BY <2>2, <2>3, <2>4, <2>5
<1>3. CASE \E o \in Outcomes : Finish(r, o)
  <2>1. PICK o \in Outcomes : Finish(r, o)
    BY <1>3
  <2>2. /\ Progress' /\ Reading'
        /\ \A q \in Runs : /\ Len(results'[q]) <= Passes
                           /\ pc'[q] \in Making \cup Using \cup {"start"} =>
                                 Len(results'[q]) < Passes
    BY <1>0, <2>1, FinishProgress
  <2>3. Counted'
    BY <1>2, <2>2 DEF Counted
  <2> QED BY <1>1, <2>2, <2>3
<1>4. CASE /\ UNCHANGED <<deployment, results>>
           /\ \/ pc[r] \in Making \cup {"start"} /\ Goto(r, "deploy")
              \/ pc[r] \in Making \cup {"start"} /\ \E l \in Making : Goto(r, l)
              \/ Goto(r, "panicked") \/ Goto(r, "crashed")
  <2>1. \A q \in Runs \ {r} : pc'[q] = pc[q]
    BY <1>4 DEF Goto, Typed
  <2>2. \/ pc'[r] \in {"done", "panicked", "crashed"}
        \/ pc[r] \in Making \cup {"start"} /\ pc'[r] \in Making \cup {"deploy"}
    BY <1>4 DEF Goto, Typed
  <2>3. Progress' /\ Reading'
    BY <1>0, <1>4, <2>1, <2>2, KeepsProgress
  <2>4. Counted'
    BY <1>0, <1>2, <1>4, <2>1, KeepsCount DEF Counted
  <2> QED BY <1>1, <2>3, <2>4
<1>5. CASE ReadKey(r)
  BY <1>3, <1>4, <1>5 DEF ReadKey, Identify, Outcomes, Making
<1>6. CASE Truncate(r)
  BY <1>3, <1>4, <1>6 DEF Truncate, Outcomes, Making
<1>7. CASE WriteKey(r)
  BY <1>3, <1>4, <1>7 DEF WriteKey, Identify, Outcomes, Making
<1>8. CASE Crash(r)
  BY <1>4, <1>8 DEF Crash
<1> QED BY <1>5, <1>6, <1>7, <1>8

\* Reading the .so from its first byte to its end.
LEMMA ReadSoProgress ==
    ASSUME DInv, NEW r \in Runs, ReadSo(r), ~Finish(r, "notDeployed")
    PROVE  Progress' /\ Reading'
<1> USE DEF DInv
<1>0. /\ pc[r] = "read" /\ UNCHANGED <<network, so, images, next, program, torn>>
      /\ image[r] \in Seq(Bytes) /\ so \in Seq(Bytes) /\ so \in images
      /\ Len(image[r]) \in Nat /\ Len(so) \in Nat
      /\ next[r] = 0 /\ program[r] = <<>> /\ Placed(image[r])
      /\ r \notin torn => /\ Len(image[r]) <= Len(so)
                          /\ \A k \in 1..Len(image[r]) : image[r][k] = so[k]
  BY DEF ReadSo, Progress, Reading, ReadOf, setting, builder, deployment
<1>1. CASE /\ Len(image[r]) < Len(so) /\ UNCHANGED pc
           /\ image' = [image EXCEPT ![r] = Append(image[r], so[Len(image[r]) + 1])]
  <2> DEFINE n == Len(image[r]) + 1
             longer == Append(image[r], so[n])
  <2>1. n \in 1..Len(so) /\ so[n] \in Bytes
    BY <1>0, <1>1
  <2>2. /\ longer \in Seq(Bytes) /\ Len(longer) = n
        /\ \A k \in 1..Len(image[r]) : longer[k] = image[r][k]
        /\ longer[n] = so[n]
    BY <1>0, <2>1
  <2>3. image'[r] = longer
    BY <1>1 DEF Progress
  <2> HIDE DEF longer
  <2>4. Placed(longer)
    <3> SUFFICES ASSUME NEW k \in DOMAIN longer
                 PROVE  \E i \in images : k \in DOMAIN i /\ i[k] = longer[k]
      BY DEF Placed
    <3>1. k \in 1..Len(image[r]) \/ k = n
      BY <1>0, <2>2
    <3>2. CASE k \in 1..Len(image[r])
      BY <1>0, <2>2, <3>2 DEF Placed
    <3>3. CASE k = n
      <4>1. n \in DOMAIN so
        BY <1>0, <2>1
      <4> QED BY <1>0, <2>2, <3>3, <4>1
    <3> QED BY <3>1, <3>2, <3>3
  <2>5. r \notin torn => Len(longer) <= Len(so) /\ \A k \in 1..Len(longer) : longer[k] = so[k]
    <3> SUFFICES ASSUME r \notin torn
                 PROVE  Len(longer) <= Len(so) /\ \A k \in 1..Len(longer) : longer[k] = so[k]
      OBVIOUS
    <3>1. \A k \in 1..Len(longer) : k \in 1..Len(image[r]) \/ k = n
      BY <1>0, <2>2
    <3>2. \A k \in 1..Len(image[r]) : longer[k] = so[k]
      BY <1>0, <2>2
    <3>3. Len(longer) <= Len(so)
      BY <2>1, <2>2
    <3> QED BY <2>2, <3>1, <3>2, <3>3
  <2>6. ReadOf(r)'
    <3>1. Placed(image[r])'
      BY <1>0, <2>3, <2>4 DEF Placed
    <3>2. (r \notin torn)' => Len(image'[r]) <= Len(so') /\ \A k \in 1..Len(image'[r]) : image'[r][k] = so'[k]
      BY <1>0, <2>3, <2>5
    <3> QED BY <1>0, <1>1, <3>1, <3>2 DEF ReadOf
  <2>7. \A q \in Runs \ {r} : pc'[q] = pc[q] /\ image'[q] = image[q]
    BY <1>1 DEF Progress
  <2>8. Reading'
    BY <1>0, <2>6, <2>7, ReadingKept
  <2>9. Progress'
    <3>1. image' \in [Runs -> Seq(Bytes)] /\ next' \in [Runs -> Nat] /\ DOMAIN program' = Runs
      BY <1>0, <1>1, <2>2 DEF Progress, longer
    <3>2. \A q \in Runs \ {r} : Reach(q)' = Reach(q)
      BY <1>0, <2>7 DEF Reach
    <3>3. next'[r] * ChunkSize < Len(image'[r]) + ChunkSize
      BY <1>0, <2>2, <2>3, NothingYet
    <3>4. pc'[r] = "read" /\ next'[r] = 0 /\ program'[r] = <<>>
      BY <1>0, <1>1
    <3>5. ASSUME NEW q \in Runs \ {r}
          PROVE  /\ next'[q] * ChunkSize < Len(image'[q]) + ChunkSize
                 /\ pc'[q] \in Making \cup {"start", "deploy"} => image'[q] = <<>>
                 /\ pc'[q] \in Making \cup {"start", "deploy", "read"} =>
                       next'[q] = 0 /\ program'[q] = <<>>
                 /\ pc'[q] = "chunks" => program'[q] = Beginning(image'[q], Reach(q)')
                 /\ pc'[q] = "body" /\ network' = "localnet" => program'[q] = image'[q]
      BY <1>0, <2>7, <3>2 DEF Progress
    <3> QED BY <3>1, <3>3, <3>4, <3>5 DEF Progress, Making
  <2> QED BY <2>8, <2>9
<1>2. CASE /\ Len(image[r]) >= Len(so) /\ Goto(r, "chunks")
           /\ UNCHANGED <<id, deployment, results>>
  <2>1. UNCHANGED image /\ pc' = [pc EXCEPT ![r] = "chunks"]
    BY <1>2 DEF Goto, deployment
  <2>2. pc'[r] = "chunks" /\ \A q \in Runs \ {r} : pc'[q] = pc[q]
    BY <2>1 DEF Typed
  <2>3. r \notin torn => image[r] \in images
    <3> SUFFICES ASSUME r \notin torn PROVE image[r] = so
      BY <1>0
    <3>1. Len(image[r]) = Len(so)
      BY <1>0, <1>2
    <3> QED BY <1>0, <3>1, SeqEqual
  <2>4. ReadOf(r)'
    BY <1>0, <2>1, <2>2, <2>3 DEF ReadOf, Placed
  <2>5. Reading'
    BY <1>0, <2>1, <2>2, <2>4, ReadingKept
  <2>6. program'[r] = Beginning(image'[r], Reach(r)')
    BY <1>0, <2>1, NothingYet DEF Reach
  <2>7. ASSUME NEW q \in Runs PROVE Reach(q)' = Reach(q)
    BY <1>0, <2>1 DEF Reach
  <2>8. Progress'
    BY <1>0, <2>1, <2>2, <2>6, <2>7 DEF Progress, Making
  <2> QED BY <2>5, <2>8
<1> QED BY <1>1, <1>2 DEF ReadSo

\* Reading the .so, writing it chunk by chunk, and running the body on it.
LEMMA DeploymentProgress ==
    ASSUME DInv, Typed', NEW r \in Runs,
           Deploy(r) \/ ReadSo(r) \/ WriteChunk(r) \/ Body(r)
    PROVE  DInv'
<1> USE DEF DInv
<1>0. /\ UNCHANGED <<network, so, build, images, keyFile, used>>
      /\ pc[r] \in Using
  BY DEF Deploy, ReadSo, WriteChunk, Body, setting, builder, file, history, Using
<1>1. Files' /\ used' \subseteq Keys \cup {Pinned} /\ keyFile' \in Keyless \cup Keys
  BY <1>0 DEF Files, Counted, Keys, Keyless
<1>2. CASE \E o \in Outcomes : Finish(r, o)
  <2>1. PICK o \in Outcomes : Finish(r, o)
    BY <1>2
  <2>2. pc[r] \in Making \cup Using \cup {"start"} /\ UNCHANGED <<network, so, images>>
    BY <1>0
  <2>3. /\ Progress' /\ Reading'
        /\ \A q \in Runs : /\ Len(results'[q]) <= Passes
                           /\ pc'[q] \in Making \cup Using \cup {"start"} =>
                                 Len(results'[q]) < Passes
    BY <2>1, <2>2, FinishProgress
  <2>4. Counted'
    BY <1>1, <2>3 DEF Counted
  <2> QED BY <1>1, <2>3, <2>4
<1>3. ASSUME Progress', Reading', results' = results, \A q \in Runs \ {r} : pc'[q] = pc[q]
      PROVE  DInv'
  <2>1. Counted'
    BY <1>0, <1>1, <1>3, KeepsCount DEF Counted
  <2> QED BY <1>1, <1>3, <2>1
<1>4. CASE /\ Deploy(r) /\ so # NoFile /\ Goto(r, "read")
           /\ UNCHANGED <<id, deployment, results>>
  <2>1. so \in Seq(Bytes) /\ so \in images
    BY <1>4 DEF Files
  <2>2. /\ pc' = [pc EXCEPT ![r] = "read"] /\ pc[r] = "deploy"
        /\ UNCHANGED <<image, next, program, torn>>
    BY <1>4 DEF Deploy, Goto, deployment
  <2>3. /\ pc'[r] = "read" /\ image[r] = <<>> /\ next[r] = 0 /\ program[r] = <<>>
        /\ \A q \in Runs \ {r} : pc'[q] = pc[q]
    BY <2>2 DEF Progress, Typed
  <2>4. ReadOf(r)'
    <3>1. Len(image'[r]) = 0 /\ Len(so') \in Nat /\ DOMAIN image'[r] = {}
      BY <1>0, <2>1, <2>2, <2>3
    <3> QED BY <1>0, <2>1, <2>3, <3>1 DEF ReadOf, Placed
  <2>5. Reading'
    BY <1>0, <2>2, <2>3, <2>4, ReadingKept
  <2>6. ASSUME NEW q \in Runs PROVE Reach(q)' = Reach(q)
    BY <2>2 DEF Reach
  <2>7. Progress'
    BY <1>0, <2>2, <2>3, <2>6 DEF Progress, Making
  <2> QED BY <1>3, <1>4, <2>3, <2>5, <2>7
<1>5. CASE /\ Deploy(r) /\ network = "live" /\ Goto(r, "body")
           /\ UNCHANGED <<id, deployment, results>>
  <2>1. pc[r] = "deploy" /\ pc'[r] = "body" /\ \A q \in Runs \ {r} : pc'[q] = pc[q]
    BY <1>5 DEF Deploy, Goto, Typed
  <2>2. Progress' /\ Reading'
    BY <1>0, <1>5, <2>1, KeepsProgress
  <2> QED BY <1>3, <1>5, <2>1, <2>2
<1>6. CASE Deploy(r)
  BY <1>2, <1>4, <1>5, <1>6 DEF Deploy, Outcomes
<1>11. CASE ReadSo(r) /\ ~Finish(r, "notDeployed")
  <2>1. results' = results /\ \A q \in Runs \ {r} : pc'[q] = pc[q]
    BY <1>11 DEF ReadSo, Goto, Typed
  <2> QED BY <1>3, <1>11, <2>1, ReadSoProgress
<1>12. CASE ReadSo(r)
  BY <1>2, <1>11, <1>12 DEF Outcomes
<1>7. CASE WriteChunk(r) /\ AllWritten(r)
  <2>1. pc' = [pc EXCEPT ![r] = "body"] /\ UNCHANGED <<image, next, program, torn, results>>
    BY <1>7 DEF WriteChunk, Goto, deployment
  <2>2. /\ pc[r] = "chunks" /\ pc'[r] = "body" /\ \A q \in Runs \ {r} : pc'[q] = pc[q]
    BY <1>7, <2>1 DEF WriteChunk, Typed
  <2>3. program[r] = image[r]
    BY <1>7, <2>2, WholeImage DEF AllWritten, Progress, Reach
  <2>4. ASSUME NEW q \in Runs PROVE Reach(q)' = Reach(q)
    BY <2>1 DEF Reach
  <2>5. Progress'
    BY <1>0, <2>1, <2>2, <2>3, <2>4 DEF Progress, Making
  <2>6. ReadOf(r)'
    BY <1>0, <2>1, <2>2 DEF Reading, ReadOf, Placed
  <2>7. Reading'
    BY <1>0, <2>1, <2>2, <2>6, ReadingKept
  <2> QED BY <1>3, <2>1, <2>2, <2>5, <2>7
<1>8. CASE /\ WriteChunk(r) /\ ~AllWritten(r) /\ ~ChunkFails(r)
  <2> DEFINE longer == Written(program[r], Offset(next[r]), Chunk(image[r], next[r]))
  <2>1. /\ pc[r] = "chunks" /\ program' = [program EXCEPT ![r] = longer]
        /\ next' = [next EXCEPT ![r] = next[r] + 1]
        /\ UNCHANGED <<pc, image, torn, results>>
    BY <1>8 DEF WriteChunk
  <2>2. /\ image[r] \in Seq(Bytes) /\ next[r] \in Nat
        /\ program[r] = Beginning(image[r], Reach(r))
    BY <2>1 DEF Progress
  <2>3. next[r] * ChunkSize < Len(image[r])
    <3>1. next[r] * ChunkSize \in Nat /\ Len(image[r]) \in Nat
      BY <2>2, ChunkSizeAssumption
    <3> QED BY <1>8, <3>1 DEF AllWritten
  <2>4. /\ longer = Beginning(image[r], Min({(next[r] + 1) * ChunkSize, Len(image[r])}))
        /\ (next[r] + 1) * ChunkSize < Len(image[r]) + ChunkSize
    <3>1. program[r] = Beginning(image[r], next[r] * ChunkSize)
      BY <2>2, <2>3, ChunkExtends DEF Reach
    <3> QED BY <2>2, <2>3, <3>1, ChunkExtends
  <2> HIDE DEF longer
  <2>5. /\ next'[r] = next[r] + 1 /\ image'[r] = image[r] /\ program'[r] = longer
        /\ next' \in [Runs -> Nat] /\ DOMAIN program' = Runs
    BY <2>1, <2>2 DEF Progress
  <2>6. ASSUME NEW q \in Runs, q # r
        PROVE  /\ next'[q] = next[q] /\ program'[q] = program[q]
               /\ Reach(q)' = Reach(q)
    BY <2>1, <2>6 DEF Progress, Reach
  <2>7. /\ next'[r] * ChunkSize < Len(image'[r]) + ChunkSize
        /\ program'[r] = Beginning(image'[r], Reach(r)')
    BY <2>4, <2>5 DEF Reach
  <2>8. Progress'
    BY <1>0, <2>1, <2>2, <2>5, <2>6, <2>7 DEF Progress, Making
  <2>9. ReadOf(r)'
    BY <1>0, <2>1 DEF Reading, ReadOf, Placed
  <2>10. Reading'
    BY <1>0, <2>1, <2>9, ReadingKept
  <2> QED BY <1>3, <2>1, <2>8, <2>10
<1>9. CASE WriteChunk(r)
  BY <1>2, <1>7, <1>8, <1>9 DEF ChunkFails, Outcomes
<1>10. CASE Body(r)
  BY <1>2, <1>10 DEF Body, Outcomes
<1> QED BY <1>6, <1>9, <1>10, <1>12

\* The builder adds to what the .so file held; a run that is reading it has no
\* more than bytes that once were there.
LEMMA BuildProgress ==
    ASSUME DInv, Build
    PROVE  Files' /\ Progress' /\ Reading'
<1> USE DEF DInv
<1>1. so' \in Seq(Bytes) /\ build' \in Seq(Bytes)
  <2>1. CASE build = <<>>
    BY <2>1, ImagesAssumption, EmptySeq DEF Build, Files
  <2>2. CASE build # <<>>
    <3>1. Head(build) \in Bytes /\ Tail(build) \in Seq(Bytes)
      BY <2>2, HeadTailProperties DEF Files
    <3>2. so' = Append(so, Head(build)) /\ build' = Tail(build) /\ so \in Seq(Bytes)
      BY <2>2 DEF Build, Files
    <3> QED BY <3>1, <3>2, AppendProperties
  <2> QED BY <2>1, <2>2
<1>2. Files'
  BY <1>1 DEF Build, Files
<1>3. /\ images \subseteq images' /\ UNCHANGED <<network, pc, image, next, program>>
  BY DEF Build, setting
<1>4. ASSUME NEW q \in Runs PROVE Reach(q)' = Reach(q)
  BY <1>3 DEF Reach
<1>5. Progress'
  BY <1>3, <1>4 DEF Progress
<1>6. ASSUME NEW q \in Runs PROVE ReadOf(q)'
  <2>1. so' \in images' /\ torn' = torn \cup {p \in Runs : pc[p] = "read"}
    BY DEF Build
  <2>2. ReadOf(q)
    BY DEF Reading
  <2>3. Placed(image[q]) => Placed(image[q])'
    BY <1>3 DEF Placed
  <2>4. pc[q] = "read" => q \in torn'
    BY <2>1
  <2> QED BY <1>1, <1>3, <2>1, <2>2, <2>3, <2>4 DEF ReadOf
<1>7. Reading'
  BY <1>6 DEF Reading
<1> QED BY <1>2, <1>5, <1>7

\* Every step preserves what is said of the program and of the passes.
LEMMA DStepInv == IInv /\ DInv /\ [Next]_vars => DInv'
<1> SUFFICES ASSUME IInv, DInv, [Next]_vars PROVE DInv'
  OBVIOUS
<1>0. Typed'
  BY StepInv DEF IInv
<1>1. ASSUME NEW r \in Runs, Run(r) PROVE DInv'
  BY <1>0, <1>1, KeyFileProgress, DeploymentProgress DEF Run
<1>2. CASE Build
  <2>1. Counted'
    BY <1>2 DEF Build, DInv, Counted, file, history, Keys, Keyless
  <2> QED BY <1>0, <1>2, <2>1, BuildProgress DEF DInv
<1>3. CASE UNCHANGED vars
  <2>1. UNCHANGED <<network, so, build, images, pc, image, next, program, torn, results,
                    used, keyFile>>
    BY <1>3 DEF vars, setting, file, builder, deployment, history
  <2>2. Counted' /\ Files'
    BY <2>1 DEF DInv, Counted, Files, Keys, Keyless
  <2>3. ASSUME NEW q \in Runs PROVE Reach(q)' = Reach(q)
    BY <2>1 DEF Reach
  <2>4. Progress'
    BY <2>1, <2>3 DEF DInv, Progress
  <2>5. Reading'
    BY <2>1 DEF DInv, Reading, ReadOf, Placed
  <2> QED BY <1>0, <2>2, <2>4, <2>5 DEF DInv
<1> QED BY <1>1, <1>2, <1>3 DEF Next

\* Both invariants hold in every state of every behaviour.
LEMMA DInductive == Spec => [](IInv /\ DInv)
BY InitInv, DInitInv, StepInv, DStepInv, PTL DEF Spec

-----------------------------------------------------------------------------
\* The variables keep their types: ids are keys of known runs and passes, and
\* no chunk is written behind the end of the image.
THEOREM TypeCorrect == Spec => []TypeOK
<1>1. IInv /\ DInv => TypeOK
  <2> SUFFICES ASSUME IInv, DInv PROVE TypeOK
    OBVIOUS
  <2>1. ASSUME NEW r \in Runs, NEW i \in DOMAIN results[r]
        PROVE  results[r][i] \in Outcomes
    BY DEF IInv, Typed
  <2>2. ASSUME NEW r \in Runs
        PROVE  /\ Len(results[r]) <= Passes
               /\ pc[r] \in Using => id[r] \in used
               /\ next[r] * ChunkSize < Len(image[r]) + ChunkSize
    BY DEF IInv, InUse, DInv, Counted, Progress
  <2> QED BY <2>1, <2>2 DEF DInv, Counted, TypeOK, Using
<1> QED BY DInductive, <1>1, PTL

\* On localnet a body runs on all that was read of the .so: on the file as it was
\* at one moment, if it was not written meanwhile, and on nothing but bytes that
\* once were in their place, if it was (deploy_program_surfpool).
THEOREM WholeImageRuns == Spec => []OneImage
<1>1. DInv => OneImage
  <2> SUFFICES ASSUME DInv, NEW r \in Runs, network = "localnet", pc[r] = "body"
               PROVE  /\ program[r] = image[r]
                      /\ r \notin torn => image[r] \in images
                      /\ Placed(image[r])
    BY DEF OneImage, Placed
  <2> QED BY DEF DInv, Progress, Reading, ReadOf
<1> QED BY DInductive, <1>1, PTL
=============================================================================
