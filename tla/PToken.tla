------------------------------- MODULE PToken -------------------------------
(***************************************************************************)
(* One pass of simd_0266, the p-token swap: run_rpc of                     *)
(* crates/tests/src/simd_0266.rs and the program programs/simd_0266.       *)
(*                                                                         *)
(* The test reads the gate once, sets up accounts, simulates one           *)
(* instruction of the token program after another for its compute units,   *)
(* simulates and then sends a batch of transfers through the on-chain      *)
(* program, and judges by what it measured.  The activation of the gate    *)
(* replaces the token program; it may come between any two of these steps. *)
(*                                                                         *)
(* The accounts of the setup are abstracted to whether the transaction     *)
(* that prepares an instruction's accounts has landed.  An RPC error ends  *)
(* the pass (`?`).                                                         *)
(***************************************************************************)
EXTENDS Integers, Sequences, Functions

CONSTANTS
    Named,          \* the instructions of simulate_named, in order
    Optional,       \* those of try_simulate_named when activated, in order
    Guarded,        \* those assert_expected_cus wants to stay above 1000
    Expected,       \* expected_when_activated of each of Named
    ClassicCus,     \* compute units classic SPL Token may consume
    PTokenCus       \* compute units p-token may consume

ASSUME NamedAssumption ==
    /\ Named \in Seq(STRING) /\ Optional \in Seq(STRING)
    /\ "Transfer" \in Guarded /\ Guarded \subseteq Range(Named)
    /\ Range(Named) \cap Range(Optional) = {}
ASSUME ExpectedAssumption == Expected \in [Range(Named) -> Nat \ {0}]
ASSUME CusAssumption == ClassicCus \subseteq Nat /\ PTokenCus \subseteq Nat
\* The costs differ as the test takes for granted (simd_0266.rs:366, 1022).
ASSUME CostsAssumption ==
    /\ \A u \in PTokenCus : u <= 1000
    /\ \A u \in ClassicCus, i \in Range(Named) : u * 10 > Expected[i] * 11

VARIABLES
    gate,        \* the chain: the feature is active
    token,       \* the chain: the token program, "classic" or "ptoken"
    batches,     \* the chain: p-token carries out batches
    broken,      \* the instructions whose setup did not land
    pc,          \* the next step of run_rpc
    isActivated, \* its reading of the gate
    todo,        \* the instructions still to be simulated
    cus,         \* compute units measured: [instruction -> units]
    outcome,     \* what run_rpc returned
    swapped,     \* history: the gate was activated during the pass
    faults,      \* history: an RPC failed, or was answered by a node that was behind
    under,       \* history: the token program each instruction ran under
    cpi          \* history: the gate when the batch was executed, whether it was
                 \* accepted, and whether the test was told so

chain == <<gate, token, batches>>
vars == <<chain, broken, pc, isActivated, todo, cus, outcome, swapped, faults,
          under, cpi>>

Judged == Range(Named)

-----------------------------------------------------------------------------
Init ==
    /\ gate \in BOOLEAN
    /\ token \in {"classic", "ptoken"} /\ batches \in BOOLEAN
    /\ broken = {}
    /\ pc = "detect"
    /\ isActivated = FALSE
    /\ todo = <<>>
    /\ cus = <<>>
    /\ outcome = "none"
    /\ swapped = FALSE /\ faults = FALSE
    /\ under = <<>>
    /\ cpi = [gate |-> FALSE, accepted |-> FALSE, told |-> FALSE]

Goto(l) == pc' = l /\ UNCHANGED outcome
Return(o) == outcome' = o /\ pc' = "done"

\* detect_feature_activated: an RPC error reads as "not activated".
Detect ==
    /\ pc = "detect" /\ Goto("setup")
    /\ \/ isActivated' = gate /\ UNCHANGED faults
       \/ isActivated' = FALSE /\ faults' = TRUE
    /\ UNCHANGED <<chain, broken, todo, cus, swapped, under, cpi>>

\* `?` on a call of the RPC client.
RpcFails ==
    /\ pc \in {"setup", "simulate", "optional", "batch", "send"}
    /\ Return("err") /\ faults' = TRUE
    /\ UNCHANGED <<chain, broken, isActivated, todo, cus, swapped, under, cpi>>

\* The setup transactions, then the list of simulations.  send_instructions
\* reports a failed transaction in its signature; nothing looks at that.
Setup ==
    /\ pc = "setup" /\ Goto("simulate")
    /\ broken' \in SUBSET ((Judged \cup Range(Optional)) \ {"Batch"})
    /\ todo' = Named
    /\ UNCHANGED <<chain, isActivated, cus, swapped, faults, under, cpi>>

-----------------------------------------------------------------------------
(* The simulations.                                                        *)

\* Slip: units that are not reported are not replaced.
Units_Missing == {-1} \cup IF token = "ptoken" THEN PTokenCus ELSE ClassicCus

\* units_consumed.unwrap_or(0)
Units == {0} \cup IF token = "ptoken" THEN PTokenCus ELSE ClassicCus

Measure(i, u) ==
    /\ cus' = [j \in DOMAIN cus \cup {i} |-> IF j = i THEN u ELSE cus[j]]
    /\ under' = [j \in DOMAIN under \cup {i} |-> IF j = i THEN token ELSE under[j]]

\* simulate_named(..)?: an instruction that fails in the simulation ends the
\* pass with an error.
Simulate ==
    /\ pc = "simulate" /\ todo # <<>>
    /\ IF Head(todo) \in broken
       THEN Return("err") /\ UNCHANGED <<todo, cus, under>>
       ELSE /\ \E u \in Units : Measure(Head(todo), u)
            /\ todo' = Tail(todo) /\ Goto("simulate")
    /\ UNCHANGED <<chain, broken, isActivated, swapped, faults, cpi>>

Simulated ==
    /\ pc = "simulate" /\ todo = <<>>
    /\ IF isActivated THEN Goto("optional") /\ todo' = Optional
                      ELSE Goto("batch") /\ UNCHANGED todo
    /\ UNCHANGED <<chain, broken, isActivated, cus, swapped, faults, under, cpi>>

\* The batch of transfers, which p-token alone understands.
BatchRuns == token = "ptoken" /\ batches /\ "Transfer" \notin broken

\* Classic SPL Token has none of the optional instructions.
Succeeds(i) == IF i = "Batch" THEN BatchRuns ELSE token = "ptoken" /\ i \notin broken

\* try_simulate_named(..)?: a failure becomes a note.
SimulateOptional ==
    /\ pc = "optional" /\ todo # <<>>
    /\ IF ~Succeeds(Head(todo))
       THEN UNCHANGED <<cus, under>>
       ELSE \E u \in Units : Measure(Head(todo), u)
    /\ todo' = Tail(todo) /\ Goto("optional")
    /\ UNCHANGED <<chain, broken, isActivated, swapped, faults, cpi>>

-----------------------------------------------------------------------------
(* The batch through the on-chain program.                                 *)

\* process_instruction: assert_expected_activation on the bit, then the batch.
BatchAccepted == isActivated = gate /\ BatchRuns

\* try_simulate_named: when activated a failure becomes a note, when not a
\* success fails the test.
SimulateBatch ==
    /\ \/ pc = "optional" /\ todo = <<>>
       \/ pc = "batch"
    /\ IF ~isActivated /\ BatchAccepted THEN Return("fail") ELSE Goto("send")
    /\ UNCHANGED <<chain, broken, isActivated, todo, cus, swapped, faults, under, cpi>>

\* The batch is executed, and send_instructions reads its status: a node that is
\* behind has none, which it takes for success.
Answer(told) ==
    /\ cpi' = [gate |-> gate, accepted |-> BatchAccepted, told |-> told]
    /\ IF told THEN UNCHANGED faults ELSE faults' = TRUE

\* Slip: the flag of the transaction is not looked at.
SendBatch_Unchecked ==
    /\ pc = "send" /\ Goto("verdict")
    /\ \E told \in BOOLEAN : Answer(told)
    /\ UNCHANGED <<chain, broken, isActivated, todo, cus, swapped, under>>

\* send_instructions: success must be what the reading of the gate asks for.
SendBatch ==
    /\ pc = "send"
    /\ \E told \in BOOLEAN :
          /\ Answer(told)
          /\ LET success == told => BatchAccepted
             IN  IF success = isActivated THEN Goto("verdict") ELSE Return("fail")
    /\ UNCHANGED <<chain, broken, isActivated, todo, cus, swapped, under>>

-----------------------------------------------------------------------------
(* The verdict.                                                            *)

ptokenRuntimeActive == cus["Transfer"] <= 1000

\* Slips: each instruction is judged by the runtime it seems to have run under;
\* the tolerance has an upper end only.
ExpectedCus_PerInstruction ==
    \A i \in Judged \cap DOMAIN cus :
        cus[i] <= 1000 => /\ cus[i] * 10 <= Expected[i] * 11
                          /\ cus[i] * 10 >= Expected[i] * 9
ExpectedCus_UpperOnly ==
    \A i \in Judged \cap DOMAIN cus :
        IF ptokenRuntimeActive THEN cus[i] * 10 <= Expected[i] * 11
        ELSE i \in Guarded => cus[i] > 1000

\* assert_expected_cus(&measurements, ptoken_runtime_active)
ExpectedCus ==
    \A i \in Judged \cap DOMAIN cus :
        IF ptokenRuntimeActive
        THEN cus[i] * 10 <= Expected[i] * 11 /\ cus[i] * 10 >= Expected[i] * 9
        ELSE i \in Guarded => cus[i] > 1000

\* Whatever the gate says, then against the runtime that Transfer showed.
Passes == ~(isActivated /\ ~ptokenRuntimeActive) /\ ExpectedCus

Verdict ==
    /\ pc = "verdict"
    /\ Return(IF Passes THEN "pass" ELSE "fail")
    /\ UNCHANGED <<chain, broken, isActivated, todo, cus, swapped, faults, under, cpi>>

Test == Detect \/ RpcFails \/ Setup \/ Simulate \/ Simulated \/ SimulateOptional
          \/ SimulateBatch \/ SendBatch \/ Verdict

\* The feature is activated (external): the runtime may fail to follow.
Activate ==
    /\ ~gate /\ pc # "done"
    /\ gate' = TRUE /\ swapped' = TRUE
    /\ token' \in {token, "ptoken"}
    /\ UNCHANGED <<batches, broken, pc, isActivated, todo, cus, outcome, faults,
                   under, cpi>>

Next == Test \/ Activate

Spec == Init /\ [][Next]_vars

-----------------------------------------------------------------------------
(* Properties.                                                             *)

\* The variables keep their types.
TypeOK ==
    /\ {gate, batches, isActivated, swapped, faults} \subseteq BOOLEAN
    /\ token \in {"classic", "ptoken"}
    /\ broken \subseteq Judged \cup Range(Optional)
    /\ pc \in {"detect", "setup", "simulate", "optional", "batch", "send",
               "verdict", "done"}
    /\ todo \in Seq(Judged \cup Range(Optional))
    /\ DOMAIN cus \subseteq Judged \cup Range(Optional)
    /\ DOMAIN under = DOMAIN cus
    /\ \A i \in DOMAIN cus : cus[i] \in Nat
    /\ outcome \in {"none", "pass", "fail", "err"}
    /\ cpi \in [gate : BOOLEAN, accepted : BOOLEAN, told : BOOLEAN]

\* A Pass is earned on the chain: the batch was accepted with the gate active,
\* or rejected by the run that took the gate to be inactive; and every pinned
\* instruction was measured against accounts whose setup had landed, though
\* nothing looks at the setup transactions themselves.  Not so the activated
\* branch when it was not told the status of the batch: it takes that for
\* success (simd_0266.rs:256), whatever became of the batch.  The deactivated
\* branch does not pass without a status.
PassIsEarned ==
    outcome = "pass" =>
        /\ cpi.told => cpi.accepted = isActivated /\ (isActivated => cpi.gate)
        /\ ~isActivated => cpi.told
        /\ Judged \subseteq DOMAIN cus \ broken

\* A Pass never mixes the two token programs, even if they were swapped while
\* the test was measuring: what is judged ran under the program that Transfer
\* ran under (simd_0266.rs:1022 takes Transfer for all of them).
OneRuntime ==
    outcome = "pass" =>
        \A i \in Guarded \cup (IF ptokenRuntimeActive THEN Judged ELSE {}) :
            under[i] = under["Transfer"]

\* On a network that stands still and answers, with the setup landed, the test
\* passes when batches work exactly with the gate active and each instruction
\* consumes what the token program in use should, and only then.
ExactWhenQuiet ==
    outcome # "none" /\ ~swapped /\ ~faults /\ broken = {} =>
        (outcome = "pass") =
            /\ gate = (token = "ptoken" /\ batches)
            /\ \A i \in DOMAIN cus \cap Judged :
                  IF token = "ptoken"
                  THEN 10 * cus[i] \in (9 * Expected[i])..(11 * Expected[i])
                  ELSE i \in Guarded => cus[i] > 1000

\* simd_0266.rs:1017: a Pass of the deactivated branch says that the batch was
\* "rejected while deactivated as expected".
RejectedWhileDeactivated == outcome = "pass" /\ ~isActivated => ~cpi.gate

\* simd_0266.rs:952: a batch that is rejected while activated is a Fail ("Batch
\* CPI transaction failed while activated").
RejectedWhileActivated == outcome = "pass" /\ isActivated => cpi.accepted
=============================================================================
