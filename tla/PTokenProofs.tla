---------------------------- MODULE PTokenProofs ----------------------------
(* Theorems about one pass of simd_0266, for any instructions, pinned      *)
(* values and compute units that differ between the token programs.        *)
EXTENDS PToken, TLAPS

Instructions == Judged \cup Range(Optional)

\* Every pinned instruction was measured on prepared accounts, or waits in todo.
Accounted(i) ==
    \/ i \in DOMAIN cus \ broken
    \/ pc = "simulate" /\ \E k \in 1..Len(todo) : todo[k] = i

\* Once the accounts are set up, no pinned instruction is overlooked.
Measured ==
    /\ pc \in {"simulate", "optional", "batch", "send", "verdict"} \/ outcome = "pass" =>
          \A i \in Judged : Accounted(i)
    /\ outcome # "none" => pc = "done"

\* The verdict is reached with the answer of the chain to the batch that the
\* reading of the gate asks for, after the program compared it with the gate; or
\* without an answer, by the activated branch, which takes that for success.
Answered ==
    pc = "verdict" \/ outcome = "pass" =>
        /\ cpi.told => cpi.accepted = isActivated /\ (isActivated => cpi.gate)
        /\ ~isActivated => cpi.told

IInv == TypeOK /\ Measured /\ Answered

-----------------------------------------------------------------------------
(* Sequences of instructions.                                              *)

\* The head of a list and what is left of it make up the list.
LEMMA HeadOrTail ==
    ASSUME NEW S, NEW s \in Seq(S), s # <<>>
    PROVE  /\ Head(s) \in S /\ Tail(s) \in Seq(S)
           /\ \A k \in 1..Len(s) :
                 s[k] = Head(s) \/ \E m \in 1..Len(Tail(s)) : Tail(s)[m] = s[k]
<1>1. Len(s) \in Nat \ {0} /\ Head(s) = s[1] /\ Head(s) \in S
  OBVIOUS
<1>2. Tail(s) \in Seq(S) /\ Len(Tail(s)) = Len(s) - 1
  OBVIOUS
<1>3. ASSUME NEW k \in 1..Len(s), k # 1
      PROVE  k - 1 \in 1..Len(Tail(s)) /\ Tail(s)[k - 1] = s[k]
  BY <1>1, <1>2, <1>3
<1> QED BY <1>1, <1>2, <1>3

\* The two lists of the test are lists of instructions.
LEMMA Lists == /\ Named \in Seq(Instructions) /\ Optional \in Seq(Instructions)
               /\ \A i \in Judged : \E k \in 1..Len(Named) : Named[k] = i
<1>1. Named \in Seq(STRING) /\ Optional \in Seq(STRING)
  BY NamedAssumption
<1>2. \A k \in 1..Len(Named) : Named[k] \in Instructions
  BY <1>1 DEF Instructions, Judged, Range
<1>3. \A k \in 1..Len(Optional) : Optional[k] \in Instructions
  BY <1>1 DEF Instructions, Range
<1>4. \A i \in Judged : \E k \in 1..Len(Named) : Named[k] = i
  BY <1>1 DEF Judged, Range
<1> QED BY <1>1, <1>2, <1>3, <1>4

-----------------------------------------------------------------------------
(* The steps.                                                              *)

LEMMA InitInv == Init => IInv
<1> SUFFICES ASSUME Init PROVE IInv
  OBVIOUS
<1>1. TypeOK
  <2>1. todo \in Seq(Judged \cup Range(Optional))
    BY DEF Init
  <2>2. DOMAIN cus = {} /\ DOMAIN under = {}
    BY DEF Init
  <2>3. /\ gate \in BOOLEAN /\ batches \in BOOLEAN /\ isActivated \in BOOLEAN
        /\ swapped \in BOOLEAN /\ faults \in BOOLEAN
    BY Zenon DEF Init
  <2>4. token \in {"classic", "ptoken"}
    BY Zenon DEF Init
  <2> QED BY <2>1, <2>2, <2>3, <2>4 DEF Init, TypeOK
<1>2. Measured
  BY DEF Init, Measured
<1>3. Answered
  BY DEF Init, Answered
<1> QED BY <1>1, <1>2, <1>3 DEF IInv

\* A measurement adds its instruction to what is measured, and nothing else.
LEMMA Measuring ==
    ASSUME TypeOK, NEW i \in Instructions, NEW u \in Units, Measure(i, u)
    PROVE  /\ DOMAIN cus' = DOMAIN cus \cup {i} /\ DOMAIN under' = DOMAIN cus'
           /\ DOMAIN cus' \subseteq Instructions
           /\ \A j \in DOMAIN cus' : cus'[j] \in Nat
<1>1. Units \subseteq Nat
  BY CusAssumption DEF Units
<1> QED BY <1>1 DEF Measure, TypeOK, Instructions

\* Reading the gate and setting up the accounts.
LEMMA BeginInv ==
    ASSUME IInv, Detect \/ RpcFails \/ Setup
    PROVE  IInv'
<1> USE DEF Goto, Return, chain
<1>1. CASE Detect
  <2>1. TypeOK'
    <3>1. isActivated' \in BOOLEAN /\ faults' \in BOOLEAN
      BY <1>1, Zenon DEF Detect, IInv, TypeOK
    <3> QED BY <1>1, <3>1 DEF Detect, IInv, TypeOK
  <2>2. Measured'
    BY <1>1 DEF Detect, IInv, Measured, Accounted
  <2>3. Answered'
    BY <1>1 DEF Detect, IInv, Answered, Measured
  <2> QED BY <2>1, <2>2, <2>3 DEF IInv
<1>2. CASE RpcFails
  <2>1. TypeOK'
    BY <1>2 DEF RpcFails, IInv, TypeOK
  <2>2. Measured' /\ Answered'
    BY <1>2 DEF RpcFails, IInv, Measured, Answered
  <2> QED BY <2>1, <2>2 DEF IInv
<1>3. CASE Setup
  <2>1. TypeOK'
    BY <1>3, Lists DEF Setup, IInv, TypeOK, Instructions
  <2>2. Measured'
    BY <1>3, Lists DEF Setup, IInv, Measured, Accounted, Judged
  <2>3. Answered'
    BY <1>3 DEF Setup, IInv, Answered, Measured
  <2> QED BY <2>1, <2>2, <2>3 DEF IInv
<1> QED BY <1>1, <1>2, <1>3

\* A pinned instruction leaves the list only when it was measured.
LEMMA SimulateInv ==
    ASSUME IInv, Simulate
    PROVE  IInv'
<1> USE DEF Goto, Return, chain
<1>1. Head(todo) \in Instructions /\ Tail(todo) \in Seq(Instructions)
  BY HeadOrTail DEF Simulate, IInv, TypeOK, Instructions
<1>2. CASE Head(todo) \in broken
  <2>1. TypeOK'
    BY <1>2 DEF Simulate, IInv, TypeOK
  <2>2. Measured' /\ Answered'
    BY <1>2 DEF Simulate, IInv, Measured, Answered
  <2> QED BY <2>1, <2>2 DEF IInv
<1>3. CASE Head(todo) \notin broken
  <2>1. PICK u \in Units : Measure(Head(todo), u)
    BY <1>3 DEF Simulate
  <2>2. /\ DOMAIN cus' = DOMAIN cus \cup {Head(todo)} /\ DOMAIN under' = DOMAIN cus'
        /\ DOMAIN cus' \subseteq Instructions
        /\ \A j \in DOMAIN cus' : cus'[j] \in Nat
    BY <1>1, <2>1, Measuring DEF IInv
  <2>3. TypeOK'
    BY <1>1, <1>3, <2>2 DEF Simulate, IInv, TypeOK, Instructions
  <2>4. ASSUME NEW i \in Judged
        PROVE  Accounted(i)'
    <3>1. Accounted(i) /\ pc = "simulate" /\ todo # <<>>
      BY DEF Simulate, IInv, Measured
    <3>2. todo' = Tail(todo) /\ broken' = broken /\ pc' = "simulate"
      BY <1>3 DEF Simulate
    <3>3. CASE i \in DOMAIN cus \ broken
      BY <2>2, <3>2, <3>3 DEF Accounted
    <3>4. CASE \E k \in 1..Len(todo) : todo[k] = i
      <4>1. i = Head(todo) \/ \E m \in 1..Len(Tail(todo)) : Tail(todo)[m] = i
        BY <3>1, <3>4, HeadOrTail DEF IInv, TypeOK
      <4> QED BY <1>3, <2>2, <3>2, <4>1 DEF Accounted
    <3> QED BY <3>1, <3>3, <3>4 DEF Accounted
  <2>5. Measured'
    BY <1>3, <2>4 DEF Simulate, IInv, Measured, Judged
  <2>6. Answered'
    BY <1>3 DEF Simulate, IInv, Answered, Measured
  <2> QED BY <2>3, <2>5, <2>6 DEF IInv
<1> QED BY <1>2, <1>3

\* With the list at its end every pinned instruction was measured; what is
\* optional only adds to it.
LEMMA OptionalInv ==
    ASSUME IInv, Simulated \/ SimulateOptional
    PROVE  IInv'
<1> USE DEF Goto, Return, chain
<1>1. CASE Simulated
  <2>1. TypeOK'
    BY <1>1, Lists DEF Simulated, IInv, TypeOK, Instructions
  <2>2. Len(todo) = 0
    BY <1>1 DEF Simulated
  <2>3. \A i \in Judged : i \in DOMAIN cus \ broken
    BY <1>1, <2>2 DEF Simulated, IInv, Measured, Accounted
  <2>4. Measured' /\ Answered'
    BY <1>1, <2>3 DEF Simulated, IInv, Measured, Answered, Accounted, Judged
  <2> QED BY <2>1, <2>4 DEF IInv
<1>2. CASE SimulateOptional
  <2>1. Head(todo) \in Instructions /\ Tail(todo) \in Seq(Instructions)
    BY <1>2, HeadOrTail DEF SimulateOptional, IInv, TypeOK, Instructions
  <2>2. /\ DOMAIN cus \subseteq DOMAIN cus' /\ DOMAIN under' = DOMAIN cus'
        /\ DOMAIN cus' \subseteq Instructions
        /\ \A j \in DOMAIN cus' : cus'[j] \in Nat
    <3>1. CASE UNCHANGED <<cus, under>>
      BY <3>1 DEF IInv, TypeOK, Instructions
    <3>2. CASE \E u \in Units : Measure(Head(todo), u)
      BY <2>1, <3>2, Measuring DEF IInv
    <3> QED BY <1>2, <3>1, <3>2 DEF SimulateOptional
  <2>3. TypeOK'
    BY <1>2, <2>1, <2>2 DEF SimulateOptional, IInv, TypeOK, Instructions
  <2>4. \A i \in Judged : i \in DOMAIN cus \ broken
    BY <1>2 DEF SimulateOptional, IInv, Measured, Accounted
  <2>5. Measured' /\ Answered'
    BY <1>2, <2>2, <2>4 DEF SimulateOptional, IInv, Measured, Answered, Accounted, Judged
  <2> QED BY <2>3, <2>5 DEF IInv
<1> QED BY <1>1, <1>2

\* The batch and the verdict.
LEMMA BatchInv ==
    ASSUME IInv, SimulateBatch \/ SendBatch \/ Verdict
    PROVE  IInv'
<1> USE DEF Goto, Return, chain
<1>1. CASE SimulateBatch
  <2>1. TypeOK'
    BY <1>1 DEF SimulateBatch, IInv, TypeOK
  <2>2. Measured' /\ Answered'
    BY <1>1 DEF SimulateBatch, IInv, Measured, Answered, Accounted, Judged
  <2> QED BY <2>1, <2>2 DEF IInv
<1>2. CASE SendBatch
  <2>0. /\ gate \in BOOLEAN /\ BatchAccepted \in BOOLEAN /\ isActivated \in BOOLEAN
        /\ UNCHANGED <<isActivated, cus, broken, todo>> /\ outcome = "none"
    BY <1>2 DEF SendBatch, IInv, TypeOK, BatchAccepted, Measured
  <2>1. PICK told \in BOOLEAN :
           /\ cpi' = [gate |-> gate, accepted |-> BatchAccepted, told |-> told]
           /\ IF told THEN UNCHANGED faults ELSE faults' = TRUE
           /\ LET success == told => BatchAccepted
              IN  IF success = isActivated THEN Goto("verdict") ELSE Return("fail")
    BY <1>2 DEF SendBatch, Answer
  <2>2. /\ cpi' \in [gate : BOOLEAN, accepted : BOOLEAN, told : BOOLEAN]
        /\ faults' \in BOOLEAN
    BY <2>0, <2>1 DEF IInv, TypeOK
  <2>3. \/ pc' = "verdict" /\ outcome' = "none" /\ (told => BatchAccepted) = isActivated
        \/ pc' = "done" /\ outcome' = "fail"
    BY <2>0, <2>1
  <2>4. TypeOK'
    BY <1>2, <2>2, <2>3 DEF SendBatch, IInv, TypeOK
  <2>5. Measured'
    BY <1>2, <2>0, <2>3 DEF SendBatch, IInv, Measured, Accounted, Judged
  <2>6. Answered'
    BY <2>0, <2>1, <2>3 DEF BatchAccepted, Answered
  <2> QED BY <2>4, <2>5, <2>6 DEF IInv
<1>3. CASE Verdict
  <2>1. TypeOK'
    BY <1>3 DEF Verdict, IInv, TypeOK
  <2>2. Measured' /\ Answered'
    BY <1>3 DEF Verdict, IInv, Measured, Answered, Accounted, Judged
  <2> QED BY <2>1, <2>2 DEF IInv
<1> QED BY <1>1, <1>2, <1>3

\* The activation of the feature reaches none of what the test remembers.
LEMMA ActivateInv ==
    ASSUME IInv, Activate
    PROVE  IInv'
<1>1. TypeOK'
  <2>1. token' \in {"classic", "ptoken"}
    BY DEF Activate, IInv, TypeOK
  <2> QED BY <2>1 DEF Activate, IInv, TypeOK
<1>2. Measured' /\ Answered'
  BY DEF Activate, IInv, Measured, Answered, Accounted, Judged
<1> QED BY <1>1, <1>2 DEF IInv

\* Every step preserves the invariant.
LEMMA StepInv == IInv /\ [Next]_vars => IInv'
<1>1. IInv /\ UNCHANGED vars => IInv'
  <2> SUFFICES ASSUME IInv, UNCHANGED vars PROVE IInv'
    OBVIOUS
  <2>1. TypeOK'
    BY DEF vars, chain, IInv, TypeOK
  <2>2. Measured' /\ Answered'
    BY DEF vars, chain, IInv, Measured, Answered, Accounted, Judged
  <2> QED BY <2>1, <2>2 DEF IInv
<1> QED BY <1>1, BeginInv, SimulateInv, OptionalInv, BatchInv, ActivateInv DEF Next, Test

\* The invariant holds in every state of every behaviour.
LEMMA Invariance == Spec => []IInv
BY InitInv, StepInv, PTL DEF Spec

-----------------------------------------------------------------------------
\* The variables keep their types, whatever the instructions.
THEOREM TypeCorrect == Spec => []TypeOK
<1>1. IInv => TypeOK
  BY DEF IInv
<1> QED BY Invariance, <1>1, PTL

\* run_rpc passes only with every pinned instruction measured on accounts whose
\* setup landed, and with the chain's answer to the batch on its side, unless the
\* activated branch was given none (send_instructions, error.is_none()).
THEOREM PassEarned == Spec => []PassIsEarned
<1>1. IInv => PassIsEarned
  BY DEF IInv, Measured, Accounted, Answered, PassIsEarned
<1> QED BY Invariance, <1>1, PTL

-----------------------------------------------------------------------------
(* What the measurements say of the token program.                         *)

\* What an instruction may consume under a token program.
UnitsOf(program) == {0} \cup IF program = "ptoken" THEN PTokenCus ELSE ClassicCus

\* Each measurement is one of the token program it was taken under.
Costed ==
    /\ \A i \in DOMAIN cus : under[i] \in {"classic", "ptoken"} /\ cus[i] \in UnitsOf(under[i])
    /\ outcome = "pass" => Passes

\* On a network that stands still and answers.
Quiet == ~swapped /\ ~faults

\* There the reading of the gate is the gate, one token program runs everything,
\* and the batch gets through exactly when both are p-token's.
Steady ==
    Quiet =>
        /\ pc # "detect" => isActivated = gate
        /\ \A i \in DOMAIN cus : under[i] = token
        /\ pc = "verdict" /\ broken = {} => gate = (token = "ptoken" /\ batches)

\* Each pinned instruction consumes what the token program in use should.
RightCosts ==
    \A i \in DOMAIN cus \cap Judged :
        IF token = "ptoken"
        THEN 10 * cus[i] \in (9 * Expected[i])..(11 * Expected[i])
        ELSE i \in Guarded => cus[i] > 1000

RInv == IInv /\ Costed /\ Steady /\ ExactWhenQuiet

\* Transfer alone tells the token programs apart, if it is within its pin or
\* above the threshold.
LEMMA TransferTells ==
    ASSUME TypeOK, Costed, Judged \subseteq DOMAIN cus, NEW i \in Judged
    PROVE  /\ cus[i] \in Nat /\ Expected[i] \in Nat \ {0}
           /\ cus[i] > 1000 => under[i] = "classic"
           /\ cus[i] * 10 <= Expected[i] * 11 /\ cus[i] * 10 >= Expected[i] * 9
                 => under[i] = "ptoken"
<1>1. cus[i] \in Nat /\ Expected[i] \in Nat \ {0}
  BY ExpectedAssumption DEF TypeOK, Judged
<1>2. cus[i] > 1000 => under[i] = "classic"
  BY <1>1, CostsAssumption DEF Costed, UnitsOf
<1>3. under[i] = "classic" => cus[i] = 0 \/ cus[i] * 10 > Expected[i] * 11
  BY CostsAssumption DEF Costed, UnitsOf, Judged
<1>4. cus[i] * 10 <= Expected[i] * 11 /\ cus[i] * 10 >= Expected[i] * 9
         => under[i] # "classic"
  BY <1>1, <1>3
<1> QED BY <1>1, <1>2, <1>4 DEF Costed

\* What the verdict rests on at a Pass: Transfer is one of the guarded.
LEMMA PassIsOneRuntime ==
    ASSUME TypeOK, Costed, Judged \subseteq DOMAIN cus, ExpectedCus
    PROVE  \A i \in Guarded \cup (IF ptokenRuntimeActive THEN Judged ELSE {}) :
              under[i] = under["Transfer"]
<1>1. "Transfer" \in Guarded /\ Guarded \subseteq Judged
  BY NamedAssumption DEF Judged
<1>2. CASE ptokenRuntimeActive
  <2>1. \A i \in Judged : under[i] = "ptoken"
    BY <1>2, TransferTells DEF ExpectedCus
  <2> QED BY <1>1, <2>1
<1>3. CASE ~ptokenRuntimeActive
  <2>1. \A i \in Guarded : under[i] = "classic"
    BY <1>1, <1>3, TransferTells DEF ExpectedCus
  <2> QED BY <1>1, <1>3, <2>1
<1> QED BY <1>2, <1>3

\* On a quiet network the verdict is about the token program in use.
LEMMA VerdictIsExact ==
    ASSUME TypeOK, Costed, Judged \subseteq DOMAIN cus, isActivated = gate,
           \A i \in DOMAIN cus : under[i] = token,
           gate = (token = "ptoken" /\ batches)
    PROVE  Passes = RightCosts
<1> DEFINE T == "Transfer"
<1>1. T \in Guarded /\ Guarded \subseteq Judged /\ cus[T] \in Nat
  BY NamedAssumption, TransferTells DEF Judged
<1>2. CASE token = "ptoken"
  <2>1. ptokenRuntimeActive
    BY <1>1, <1>2, CostsAssumption DEF Costed, UnitsOf, ptokenRuntimeActive
  <2>2. ASSUME NEW i \in Judged
        PROVE  10 * cus[i] \in (9 * Expected[i])..(11 * Expected[i])
                  <=> cus[i] * 10 <= Expected[i] * 11 /\ cus[i] * 10 >= Expected[i] * 9
    BY TransferTells
  <2> QED BY <1>2, <2>1, <2>2 DEF Passes, ExpectedCus, RightCosts
<1>3. CASE token = "classic"
  <2>1. ~isActivated
    BY <1>3
  <2>2. CASE ptokenRuntimeActive
    <3>1. ~ExpectedCus
      BY <1>1, <1>3, <2>2, TransferTells DEF ExpectedCus
    <3>2. ~(cus[T] > 1000)
      BY <1>1, <2>2 DEF ptokenRuntimeActive
    <3> QED BY <1>1, <1>3, <3>1, <3>2 DEF Passes, RightCosts
  <2>3. CASE ~ptokenRuntimeActive
    <3>1. Passes <=> \A i \in Judged \cap DOMAIN cus : i \in Guarded => cus[i] > 1000
      BY <2>1, <2>3, Zenon DEF Passes, ExpectedCus
    <3>2. RightCosts <=> \A i \in DOMAIN cus \cap Judged : i \in Guarded => cus[i] > 1000
      BY <1>3 DEF RightCosts
    <3>3. Passes \in BOOLEAN /\ RightCosts \in BOOLEAN
      BY Zenon DEF Passes, ExpectedCus, RightCosts
    <3> QED BY <3>1, <3>2, <3>3
  <2> QED BY <2>2, <2>3
<1> QED BY <1>2, <1>3 DEF TypeOK

\* Nothing is measured at the beginning.
LEMMA RInitInv == Init => RInv
<1> SUFFICES ASSUME Init PROVE RInv
  OBVIOUS
<1>1. Costed
  BY DEF Init, Costed
<1>2. Steady /\ ExactWhenQuiet
  BY DEF Init, Steady, ExactWhenQuiet
<1> QED BY <1>1, <1>2, InitInv DEF RInv

\* A step that measures nothing and returns nothing, or an error.
LEMMA NoMeasurement ==
    ASSUME Costed, UNCHANGED <<cus, under, isActivated>>,
           outcome' = outcome \/ outcome' \notin {"pass"}
    PROVE  Costed'
BY DEF Costed, Passes, ExpectedCus, ptokenRuntimeActive

\* A measurement is taken under the token program of the moment.
LEMMA MeasuringCosts ==
    ASSUME TypeOK, Costed, NEW i, NEW u \in Units, Measure(i, u), outcome # "pass",
           outcome' = outcome
    PROVE  /\ Costed'
           /\ (\A j \in DOMAIN cus : under[j] = token) =>
                 \A j \in DOMAIN cus' : under'[j] = token
<1>1. u \in UnitsOf(token)
  BY DEF Units, UnitsOf
<1>2. \A j \in DOMAIN cus' : j # i => j \in DOMAIN cus /\ cus'[j] = cus[j] /\ under'[j] = under[j]
  BY DEF Measure, TypeOK
<1>3. i \in DOMAIN cus' /\ cus'[i] = u /\ under'[i] = token
  BY DEF Measure
<1>4. token \in {"classic", "ptoken"}
  BY DEF TypeOK
<1> QED BY <1>1, <1>2, <1>3, <1>4 DEF Costed

\* Before the verdict.
LEMMA RunsInv ==
    ASSUME RInv, Detect \/ RpcFails \/ Setup \/ Simulate \/ Simulated \/ SimulateOptional
    PROVE  Costed' /\ Steady' /\ ExactWhenQuiet'
<1> USE DEF Goto, Return, chain, RInv, IInv
<1>0. outcome = "none"
  BY DEF Measured, TypeOK, Detect, RpcFails, Setup, Simulate, Simulated, SimulateOptional
<1>1. CASE Detect
  <2>1. Costed'
    BY <1>0, <1>1 DEF Detect, Costed
  <2>2. Steady' /\ ExactWhenQuiet'
    BY <1>0, <1>1 DEF Detect, Steady, Quiet, ExactWhenQuiet
  <2> QED BY <2>1, <2>2
<1>2. CASE RpcFails
  <2>1. Costed'
    BY <1>2, NoMeasurement DEF RpcFails
  <2>2. Steady' /\ ExactWhenQuiet'
    BY <1>2 DEF RpcFails, Steady, Quiet, ExactWhenQuiet
  <2> QED BY <2>1, <2>2
<1>3. CASE Setup \/ Simulated
  <2>1. Costed'
    BY <1>3, NoMeasurement DEF Setup, Simulated
  <2>2. Steady'
    BY <1>3 DEF Setup, Simulated, Steady, Quiet
  <2>3. outcome' = "none"
    BY <1>0, <1>3 DEF Setup, Simulated
  <2> QED BY <2>1, <2>2, <2>3 DEF ExactWhenQuiet
<1>4. CASE Simulate /\ Head(todo) \in broken
  <2>1. Costed'
    BY <1>4, NoMeasurement DEF Simulate
  <2>2. Steady'
    BY <1>4 DEF Simulate, Steady, Quiet
  <2>3. broken' # {}
    BY <1>4 DEF Simulate
  <2> QED BY <2>1, <2>2, <2>3 DEF ExactWhenQuiet
<1>5. CASE /\ Simulate \/ SimulateOptional
           /\ \E u \in Units : Measure(Head(todo), u)
           /\ outcome' = outcome /\ pc' = pc
  <2>1. UNCHANGED <<chain, broken, isActivated, swapped, faults>>
    BY <1>5 DEF Simulate, SimulateOptional
  <2>2. /\ Costed'
        /\ (\A j \in DOMAIN cus : under[j] = token) =>
              \A j \in DOMAIN cus' : under'[j] = token
    BY <1>0, <1>5, MeasuringCosts
  <2>3. Steady'
    BY <1>5, <2>1, <2>2 DEF Steady, Quiet
  <2>4. ExactWhenQuiet'
    BY <1>0, <1>5 DEF ExactWhenQuiet
  <2> QED BY <2>2, <2>3, <2>4
<1>6. CASE SimulateOptional /\ UNCHANGED <<cus, under>>
  <2>1. Costed'
    BY <1>6, NoMeasurement DEF SimulateOptional
  <2>2. Steady' /\ ExactWhenQuiet'
    BY <1>0, <1>6 DEF SimulateOptional, Steady, Quiet, ExactWhenQuiet
  <2> QED BY <2>1, <2>2
<1>7. CASE Simulate
  BY <1>4, <1>5, <1>7 DEF Simulate
<1>8. CASE SimulateOptional
  BY <1>5, <1>6, <1>8 DEF SimulateOptional
<1> QED BY <1>1, <1>2, <1>3, <1>7, <1>8

\* What the property says, in these terms, of a state and of the next one.
LEMMA ExactMeans ==
    /\ ExactWhenQuiet <=>
          (outcome # "none" /\ Quiet /\ broken = {} =>
              (outcome = "pass") = (gate = (token = "ptoken" /\ batches) /\ RightCosts))
    /\ ExactWhenQuiet' <=>
          (outcome' # "none" /\ Quiet' /\ broken' = {} =>
              (outcome' = "pass") =
                 (gate' = (token' = "ptoken" /\ batches') /\ RightCosts'))
BY Zenon DEF ExactWhenQuiet, Quiet, RightCosts, Judged

\* A Fail is exact when the batch and the gate differ.
LEMMA Failed ==
    ASSUME outcome' = "fail",
           Quiet' /\ broken' = {} => gate' # (token' = "ptoken" /\ batches')
    PROVE  ExactWhenQuiet'
BY DEF ExactWhenQuiet, Quiet

\* The batch, and the verdict.
LEMMA JudgesInv ==
    ASSUME RInv, SimulateBatch \/ SendBatch \/ Verdict
    PROVE  Costed' /\ Steady' /\ ExactWhenQuiet'
<1> USE DEF Goto, Return, chain, RInv, IInv
<1>0. /\ outcome = "none"
      /\ UNCHANGED <<cus, under, isActivated, gate, token, batches, broken, swapped>>
  BY DEF Measured, TypeOK, SimulateBatch, SendBatch, Verdict
<1>1. CASE SimulateBatch
  <2>1. Costed'
    BY <1>1, NoMeasurement DEF SimulateBatch
  <2>2. Steady'
    BY <1>1 DEF SimulateBatch, Steady, Quiet
  <2>3. ExactWhenQuiet'
    <3>1. CASE outcome' = "none"
      BY <3>1 DEF ExactWhenQuiet
    <3>2. CASE outcome' = "fail" /\ ~isActivated /\ BatchAccepted
      <4>1. ~gate /\ token = "ptoken" /\ batches = TRUE
        BY <3>2 DEF BatchAccepted, BatchRuns, TypeOK
      <4> QED BY <1>0, <3>2, <4>1, Failed
    <3> QED BY <1>0, <1>1, <3>1, <3>2 DEF SimulateBatch
  <2> QED BY <2>1, <2>2, <2>3
<1>2. CASE SendBatch
  <2>1. Costed'
    BY <1>2, NoMeasurement DEF SendBatch
  <2>2. /\ gate \in BOOLEAN /\ batches \in BOOLEAN /\ faults \in BOOLEAN
        /\ isActivated \in BOOLEAN /\ BatchAccepted \in BOOLEAN
    BY DEF TypeOK, BatchAccepted
  <2>3. Quiet /\ broken = {} =>
           BatchAccepted = (token = "ptoken" /\ batches) /\ isActivated = gate
    BY <1>2 DEF SendBatch, BatchAccepted, BatchRuns, Steady
  <2>4. PICK told \in BOOLEAN :
           /\ IF told THEN UNCHANGED faults ELSE faults' = TRUE
           /\ LET success == told => BatchAccepted
              IN  IF success = isActivated THEN Goto("verdict") ELSE Return("fail")
    BY <1>2 DEF SendBatch, Answer
  <2>5. Quiet' => Quiet /\ told
    BY <1>0, <2>2, <2>4 DEF Quiet
  <2>6. \/ pc' = "verdict" /\ outcome' = "none" /\ (told => BatchAccepted) = isActivated
        \/ pc' = "done" /\ outcome' = "fail" /\ (told => BatchAccepted) # isActivated
    BY <1>0, <2>4
  <2>7. Quiet' /\ broken = {} =>
           (pc' = "verdict") = (gate = (token = "ptoken" /\ batches))
    BY <2>2, <2>3, <2>5, <2>6
  <2>8. Steady'
    <3>1. Quiet' => /\ isActivated = gate
                    /\ \A i \in DOMAIN cus : under[i] = token
      BY <1>2, <2>5 DEF SendBatch, Steady
    <3>2. Quiet' => /\ isActivated' = gate'
                    /\ \A i \in DOMAIN cus' : under'[i] = token'
      BY <1>0, <3>1
    <3>3. Quiet' /\ pc' = "verdict" /\ broken' = {} => gate' = (token' = "ptoken" /\ batches')
      BY <1>0, <2>7
    <3> QED BY <3>2, <3>3 DEF Steady
  <2>9. ExactWhenQuiet'
    <3>1. CASE outcome' = "none"
      BY <3>1 DEF ExactWhenQuiet
    <3>2. CASE pc' = "done" /\ outcome' = "fail"
      <4>1. Quiet' /\ broken' = {} => gate' # (token' = "ptoken" /\ batches')
        BY <1>0, <2>7, <3>2
      <4> QED BY <3>2, <4>1, Failed DEF Quiet
    <3> QED BY <2>6, <3>1, <3>2
  <2> QED BY <2>1, <2>8, <2>9
<1>3. CASE Verdict
  <2>1. Costed'
    BY <1>0, <1>3 DEF Verdict, Costed, Passes, ExpectedCus, ptokenRuntimeActive
  <2>2. Steady'
    BY <1>0, <1>3 DEF Verdict, Steady, Quiet
  <2>3. Judged \subseteq DOMAIN cus
    BY <1>3 DEF Verdict, Measured, Accounted
  <2>4. ASSUME Quiet, broken = {}
        PROVE  gate = (token = "ptoken" /\ batches) /\ Passes = RightCosts
    BY <1>3, <2>3, <2>4, VerdictIsExact DEF Verdict, Steady
  <2>5. outcome' = "pass" <=> Passes
    BY <1>3 DEF Verdict
  <2>6. ExactWhenQuiet'
    <3>1. (outcome' = "pass") = Passes
      BY <2>5 DEF Passes, ExpectedCus, ptokenRuntimeActive
    <3>2. gate' = gate /\ token' = token /\ batches' = batches /\ cus' = cus
          /\ Quiet' = Quiet /\ broken' = broken
      BY <1>0, <1>3 DEF Verdict, Quiet
    <3>3. RightCosts' = RightCosts
      BY <3>2 DEF RightCosts, Judged
    <3>4. Quiet /\ broken = {} => gate = (token = "ptoken" /\ batches) /\ Passes = RightCosts
      BY <2>4
    <3>5. Quiet' /\ broken' = {} =>
             (outcome' = "pass") = (gate' = (token' = "ptoken" /\ batches') /\ RightCosts')
      BY <3>1, <3>2, <3>3, <3>4
    <3> QED BY <3>5, ExactMeans
  <2> QED BY <2>1, <2>2, <2>6
<1> QED BY <1>1, <1>2, <1>3

\* Both invariants hold in every state of every behaviour.
LEMMA RInductive == Spec => []RInv
<1>1. RInv /\ [Next]_vars => IInv'
  BY StepInv DEF RInv
<1>2. ASSUME RInv, Activate PROVE Costed' /\ Steady' /\ ExactWhenQuiet'
  <2>1. Costed'
    BY <1>2, NoMeasurement DEF Activate, RInv
  <2>2. outcome = "none" /\ swapped' /\ outcome' = outcome
    BY <1>2 DEF Activate, RInv, IInv, Measured
  <2> QED BY <2>1, <2>2 DEF Steady, Quiet, ExactWhenQuiet
<1>3. ASSUME RInv, UNCHANGED vars PROVE Costed' /\ Steady' /\ ExactWhenQuiet'
  <2>1. Costed'
    BY <1>3, NoMeasurement DEF vars, RInv
  <2>2. Steady'
    BY <1>3 DEF vars, chain, RInv, Steady, Quiet
  <2>3. ExactWhenQuiet'
    <3>1. RightCosts' = RightCosts
      BY <1>3 DEF vars, chain, RightCosts, Judged
    <3> QED BY <1>3, <3>1, ExactMeans DEF vars, chain, RInv, Quiet
  <2> QED BY <2>1, <2>2, <2>3
<1>4. RInv /\ [Next]_vars => RInv'
  BY <1>1, <1>2, <1>3, RunsInv, JudgesInv DEF Next, Test, RInv
<1> QED BY RInitInv, <1>4, PTL DEF Spec

-----------------------------------------------------------------------------
\* A Pass rests on the measurements of one token program, even if it was
\* replaced between them: costs that are above the threshold are classic's, costs
\* within the pins are p-token's (assert_expected_cus, ptoken_runtime_active).
THEOREM OneRuntimeJudged == Spec => []OneRuntime
<1>1. RInv => OneRuntime
  <2> SUFFICES ASSUME RInv, outcome = "pass"
               PROVE  \A i \in Guarded \cup (IF ptokenRuntimeActive THEN Judged ELSE {}) :
                         under[i] = under["Transfer"]
    BY DEF OneRuntime
  <2>1. TypeOK /\ Costed /\ ExpectedCus
    BY DEF RInv, IInv, Costed, Passes
  <2>2. Judged \subseteq DOMAIN cus
    BY DEF RInv, IInv, Measured, Accounted
  <2> QED BY <2>1, <2>2, PassIsOneRuntime
<1> QED BY RInductive, <1>1, PTL

\* On a quiet network run_rpc passes when the batch works exactly with the gate
\* active and every pinned cost is the one of the token program in use, and only
\* then.
THEOREM ExactOnQuietNetwork == Spec => []ExactWhenQuiet
<1>1. RInv => ExactWhenQuiet
  BY DEF RInv
<1> QED BY RInductive, <1>1, PTL
=============================================================================
