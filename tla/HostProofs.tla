----------------------------- MODULE HostProofs -----------------------------
(* Theorems about what a test does on its host: the two helpers that send  *)
(* a transaction, for any number of dropped forks, and the tests that send *)
(* their reading of a gate, simd_0153 and simd_0194.                       *)
EXTENDS SendConfirm, TLAPS

\* A transaction that is in a fork has the result it had when it was executed.
Remembered == Executed => result \in ever /\ result \in {"ok", "err"}

\* send_instructions reads the status of a confirmed transaction only, which no
\* fork takes back; a helper that still runs has no outcome.
Settled ==
    /\ pc = "reread" => helper = "send_instructions" /\ stage = "confirmed"
    /\ pc = "status" => helper = "send_ixs"
    /\ pc # "done" => outcome = "none"

IInv == TypeOK /\ Remembered /\ Settled /\ VerdictIsTrue

\* Nothing is sent, and nothing reported.
LEMMA InitInv == Init => IInv
<1> SUFFICES ASSUME Init PROVE IInv
  OBVIOUS
<1>1. TypeOK
  <2>1. drops \in 0..MaxDrops
    BY MaxDropsAssumption DEF Init
  <2>2. helper \in {"send_ixs", "send_instructions"}
    BY Zenon DEF Init
  <2> QED BY <2>1, <2>2 DEF Init, TypeOK
<1>2. Remembered
  BY DEF Init, Remembered, Executed
<1>3. Settled
  BY DEF Init, Settled
<1>4. VerdictIsTrue
  BY DEF Init, VerdictIsTrue
<1> QED BY <1>1, <1>2, <1>3, <1>4 DEF IInv

\* What the helpers read is the result of a fork the transaction is in.
LEMMA HelperInv ==
    ASSUME IInv, Helper
    PROVE  IInv'
<1> USE DEF IInv, TypeOK, Remembered, Settled, Executed, Goto, Return, Fault, network
<1>1. CASE Send
  BY <1>1 DEF Send, VerdictIsTrue
<1>2. CASE CheckDeadline \/ PollConfirmed
  BY <1>2 DEF CheckDeadline, PollConfirmed, VerdictIsTrue
<1>3. CASE ReadStatus
  BY <1>3 DEF ReadStatus, Status, Polled, VerdictIsTrue
<1>4. CASE RereadStatus
  BY <1>4 DEF RereadStatus, Status, VerdictIsTrue
<1> QED BY <1>1, <1>2, <1>3, <1>4 DEF Helper

\* What was seen stays seen, and a confirmed result stands.
LEMMA NetworkInv ==
    ASSUME IInv, Process \/ Confirm \/ Drop \/ TimeUp
    PROVE  IInv'
<1> USE DEF IInv, TypeOK, Remembered, Settled, Executed, VerdictIsTrue, network, host
<1>1. CASE Process
  BY <1>1 DEF Process
<1>2. CASE Confirm
  BY <1>2 DEF Confirm
<1>3. CASE Drop
  BY <1>3, MaxDropsAssumption DEF Drop
<1>4. CASE TimeUp
  BY <1>4 DEF TimeUp
<1> QED BY <1>1, <1>2, <1>3, <1>4

\* The invariant holds in every state of every behaviour.
LEMMA Invariance == Spec => []IInv
<1>1. IInv /\ UNCHANGED vars => IInv'
  BY DEF vars, network, host, IInv, TypeOK, Remembered, Settled, Executed, VerdictIsTrue
<1>2. IInv /\ [Next]_vars => IInv'
  BY <1>1, HelperInv, NetworkInv DEF Next
<1> QED BY InitInv, <1>2, PTL DEF Spec

\* The variables keep their types, with however many forks dropped.
THEOREM TypeCorrect == Spec => []TypeOK
<1>1. IInv => TypeOK
  BY DEF IInv
<1> QED BY Invariance, <1>1, PTL

\* What send_ixs and send_instructions report was so on some fork, and what
\* send_instructions reports stands, but for the silence of a node behind.
THEOREM VerdictHolds == Spec => []VerdictIsTrue
<1>1. IInv => VerdictIsTrue
  BY DEF IInv
<1> QED BY Invariance, <1>1, PTL

-----------------------------------------------------------------------------
(* simd_0153 and simd_0194.                                                *)

VARIABLES
    test, cluster, gate, effect, tokenProof, tx, executed, step, detected,
    isActivated, elgamalSeen, tokenSeen, failures, moved, verdict

G == INSTANCE GateCheck WITH
    network <- cluster, pc <- step, faults <- failures, outcome <- verdict

\* What a runtime does that follows its gate.
Right(active) == IF active THEN "new" ELSE "old"

\* Where the test is: nothing is sent before the gate is read, and it goes on
\* from the transaction only when that was accepted.
Placed ==
    /\ verdict # "none" <=> step = "done"
    /\ step \in {"runner", "detect", "send"} => tx = "unsent"
    /\ step \in {"elgamal", "token", "verdict"} => tx = "accepted" /\ test = "simd_0153"
    /\ verdict = "pass" => tx = "accepted"

\* The gate was off before it was on: what the program saw lies between what
\* the runner saw and what the gate is now.
Between ==
    /\ step = "runner" => ~detected
    /\ detected => G!Active
    /\ G!ExecutedActive => G!Active
    /\ step # "runner" /\ G!Active => detected \/ moved \/ failures
    /\ detected /\ tx \in {"accepted", "rejected"} => G!ExecutedActive

\* What the program accepted.
Judged ==
    tx = "accepted" =>
        /\ isActivated = G!ExecutedActive
        /\ executed.effect = Right(G!ExecutedActive)

\* On a network that stands still and answers, everything read is still so.
UpToDate ==
    ~failures /\ ~moved =>
        /\ step \notin {"runner", "detect"} => isActivated = G!Active
        /\ tx = "accepted" => effect = Right(G!Active)
        /\ tx = "rejected" => effect # Right(G!Active)
        /\ step \in {"token", "verdict"} => elgamalSeen = (effect # "old")
        /\ step = "verdict" => tokenSeen = tokenProof

GInv == G!TypeOK /\ Placed /\ Between /\ Judged /\ UpToDate /\ G!ExactWhenQuiet

\* Nothing is read, sent or executed.
LEMMA GateInit == G!Init => GInv
<1> SUFFICES ASSUME G!Init PROVE GInv
  OBVIOUS
<1> USE DEF G!Init
<1>1. G!TypeOK
  BY DEF G!TypeOK, G!Effects
<1>2. Placed /\ Between /\ Judged /\ UpToDate /\ G!ExactWhenQuiet
  BY DEF Placed, Between, Judged, UpToDate, G!ExactWhenQuiet, G!ExecutedActive, G!Active
<1> QED BY <1>1, <1>2 DEF GInv

\* The test reads the gate twice and sends its transaction.
LEMMA GateReads ==
    ASSUME GInv, G!RunnerDetects \/ G!TestDetects \/ G!Send
    PROVE  GInv'
<1> USE DEF G!Goto, G!Return, G!Detects, G!Active, G!ExecutedActive, G!Effects, G!chain, Right
<1>1. G!TypeOK'
  BY DEF GInv, G!RunnerDetects, G!TestDetects, G!Send, G!TypeOK
<1>2. Placed'
  BY DEF GInv, G!RunnerDetects, G!TestDetects, G!Send, Placed
<1>3. Between' /\ Judged'
  BY DEF GInv, G!RunnerDetects, G!TestDetects, G!Send, G!TypeOK, Placed, Between, Judged
<1>4. UpToDate'
  BY DEF GInv, G!RunnerDetects, G!TestDetects, G!Send, G!TypeOK, Placed, UpToDate
<1>5. G!ExactWhenQuiet'
  BY DEF GInv, G!RunnerDetects, G!TestDetects, G!Send, G!TypeOK, Placed, G!ExactWhenQuiet
<1> QED BY <1>1, <1>2, <1>3, <1>4, <1>5 DEF GInv

\* It learns the program's answer, cross-checks it, and judges.
LEMMA GateJudges ==
    ASSUME GInv, G!Confirm \/ G!ReadElgamal \/ G!ReadToken \/ G!Verdict
    PROVE  GInv'
<1> USE DEF G!Goto, G!Return, G!Active, G!ExecutedActive, G!Effects, G!chain, Right
<1>1. G!TypeOK'
  BY DEF GInv, G!Confirm, G!ReadElgamal, G!ReadToken, G!Verdict, G!TypeOK
<1>2. Placed'
  BY DEF GInv, G!Confirm, G!ReadElgamal, G!ReadToken, G!Verdict, Placed, G!TypeOK
<1>3. Between' /\ Judged'
  BY DEF GInv, G!Confirm, G!ReadElgamal, G!ReadToken, G!Verdict, G!TypeOK, Placed, Between, Judged
<1>4. UpToDate'
  BY DEF GInv, G!Confirm, G!ReadElgamal, G!ReadToken, G!Verdict, G!TypeOK, Placed, UpToDate
<1>5. G!ExactWhenQuiet'
  <2> USE DEF GInv, Placed, UpToDate, G!ExactWhenQuiet
  <2>1. CASE G!Confirm
    BY <2>1 DEF G!Confirm, G!TypeOK
  <2>2. CASE G!ReadElgamal \/ G!ReadToken
    BY <2>2 DEF G!ReadElgamal, G!ReadToken
  <2>3. CASE G!Verdict
    <3>1. elgamalSeen \in BOOLEAN /\ tokenSeen \in BOOLEAN /\ cluster \in {"localnet", "live"}
      BY DEF G!TypeOK
    <3>2. /\ verdict' = (IF G!Passes THEN "pass" ELSE "fail") /\ test = "simd_0153"
          /\ UNCHANGED <<gate, effect, test, cluster, tokenProof, failures, moved>>
      BY <2>3 DEF G!Verdict
    <3>3. ~failures /\ ~moved => /\ isActivated = G!Active /\ effect = Right(G!Active)
                                 /\ elgamalSeen = (effect # "old") /\ tokenSeen = tokenProof
      BY <2>3 DEF G!Verdict
    <3>4. ~failures /\ ~moved => (G!Passes <=> ~(cluster = "live" /\ tokenProof))
      BY <3>1, <3>3 DEF G!Passes
    <3>5. (verdict' = "pass") <=> G!Passes
      BY <3>2
    <3> QED BY <3>2, <3>3, <3>4, <3>5
  <2> QED BY <2>1, <2>2, <2>3
<1> QED BY <1>1, <1>2, <1>3, <1>4, <1>5 DEF GInv

\* The program executes, and the feature is activated.
LEMMA GateChain ==
    ASSUME GInv, G!Execute \/ G!Activate
    PROVE  GInv'
<1> USE DEF G!Active, G!ExecutedActive, G!Effects, G!Accepts, G!chain, G!host, Right
<1>1. G!TypeOK'
  <2>1. CASE G!Execute
    <3>1. executed' \in [gate : {"absent", "pending", "active"}, effect : G!Effects]
      BY <2>1 DEF GInv, G!Execute, G!TypeOK
    <3> QED BY <2>1, <3>1 DEF GInv, G!Execute, G!TypeOK
  <2>2. CASE G!Activate
    BY <2>2 DEF GInv, G!Activate, G!TypeOK
  <2> QED BY <2>1, <2>2
<1>2. Placed'
  BY DEF GInv, G!Execute, G!Activate, Placed, G!TypeOK
<1>3. Between' /\ Judged'
  BY DEF GInv, G!Execute, G!Activate, G!TypeOK, Placed, Between, Judged
<1>4. UpToDate'
  BY DEF GInv, G!Execute, G!Activate, G!TypeOK, Placed, UpToDate
<1>5. G!ExactWhenQuiet'
  <2>1. CASE G!Execute
    BY <2>1 DEF GInv, G!Execute, G!ExactWhenQuiet
  <2>2. CASE G!Activate
    BY <2>2 DEF GInv, G!Activate, G!ExactWhenQuiet
  <2> QED BY <2>1, <2>2
<1> QED BY <1>1, <1>2, <1>3, <1>4, <1>5 DEF GInv

\* The invariant holds in every state of every behaviour.
LEMMA GateInvariance == G!Spec => []GInv
<1>1. GInv /\ UNCHANGED G!vars => GInv'
  <2> SUFFICES ASSUME GInv, UNCHANGED G!vars PROVE GInv'
    OBVIOUS
  <2> USE DEF G!vars, G!chain, G!host, G!Active, G!ExecutedActive
  <2>1. G!TypeOK'
    BY DEF GInv, G!TypeOK, G!Effects
  <2>2. Placed' /\ Between' /\ Judged' /\ UpToDate'
    BY DEF GInv, Placed, Between, Judged, UpToDate
  <2>3. G!ExactWhenQuiet'
    BY DEF GInv, G!ExactWhenQuiet
  <2> QED BY <2>1, <2>2, <2>3 DEF GInv
<1>2. GInv /\ [G!Next]_G!vars => GInv'
  BY <1>1, GateReads, GateJudges, GateChain DEF G!Next, G!Host
<1> QED BY GateInit, <1>2, PTL DEF G!Spec

\* The variables of simd_0153 and simd_0194 keep their types.
THEOREM GateTypeCorrect == G!Spec => []G!TypeOK
<1>1. GInv => G!TypeOK
  BY DEF GInv
<1> QED BY GateInvariance, <1>1, PTL

\* run_rpc passes only if the program accepted the bit it sent, against a runtime
\* that did what the gate said, whenever the feature was activated and whichever
\* reading was an RPC error (simd_0153.rs:35, lib.rs:449).
THEOREM GatePassEarned == G!Spec => []G!PassIsEarned
<1>1. GInv => G!PassIsEarned
  BY DEF GInv, G!PassIsEarned, Placed, Between, Judged, Right, G!TypeOK, G!ExecutedActive,
         G!Active
<1> QED BY GateInvariance, <1>1, PTL

\* On a quiet network run_rpc passes the runtimes that do what the gate says, and
\* no other.
THEOREM GateExact == G!Spec => []G!ExactWhenQuiet
<1>1. GInv => G!ExactWhenQuiet
  BY DEF GInv
<1> QED BY GateInvariance, <1>1, PTL
=============================================================================
