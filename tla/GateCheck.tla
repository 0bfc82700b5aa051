------------------------------ MODULE GateCheck ------------------------------
(***************************************************************************)
(* One pass of simd_0153 or simd_0194: the host test (crates/tests/src),   *)
(* its on-chain program (programs/simd_0153, programs/simd_0194) with the  *)
(* shared assertion of crates/program-common, and the runner's own look at *)
(* the gate just before (crates/cli/src/main.rs:302).                      *)
(*                                                                         *)
(* The gate is read four times, at four moments: by the runner for the     *)
(* report, by the test for the bit it sends, by the program when the       *)
(* transaction executes, and indirectly by the RPC cross-check of          *)
(* simd_0153.  The network may activate the feature between any two.       *)
(***************************************************************************)
EXTENDS Integers

VARIABLES
    test,        \* "simd_0153" or "simd_0194"
    network,     \* "localnet" or "live"
    gate,        \* the chain: the feature account
    effect,      \* the chain: what the runtime does about the feature
    tokenProof,  \* the chain: ZkTokenProof is executable
    tx,          \* the chain: the test's transaction
    executed,    \* history: the chain the transaction executed on
    pc,          \* the next step of the host
    detected,    \* the runner's reading of the gate
    isActivated, \* the test's reading of the gate, sent as the bit
    elgamalSeen, \* the test's reading of ZkE1Gama1Proof
    tokenSeen,   \* the test's reading of ZkTokenProof
    faults,      \* history: some read or confirmation failed
    moved,       \* history: the feature was activated during the pass
    outcome      \* the outcome of run_rpc

chain == <<test, network, gate, effect, tokenProof>>
host == <<pc, detected, isActivated, elgamalSeen, tokenSeen, outcome>>
vars == <<chain, tx, executed, host, faults, moved>>

\* "old": ZkE1Gama1Proof not executable, rent threshold 2.0; "new": executable
\* and owned by the native loader, 1.0; "half": executable with another owner,
\* another threshold.
Effects == {"old", "half", "new"}

Active == gate = "active"

Init ==
    /\ test \in {"simd_0153", "simd_0194"}
    /\ network \in {"localnet", "live"}
    /\ gate \in {"absent", "pending", "active"}
    /\ effect \in Effects
    /\ tokenProof \in BOOLEAN
    /\ tx = "unsent"
    /\ executed = [gate |-> "absent", effect |-> "old"]
    /\ pc = "runner"
    /\ detected = FALSE /\ isActivated = FALSE
    /\ elgamalSeen = FALSE /\ tokenSeen = FALSE
    /\ faults = FALSE /\ moved = FALSE
    /\ outcome = "none"

-----------------------------------------------------------------------------
(* The host.                                                               *)

Goto(l) == pc' = l

\* detect_feature_activated: an error answers "not activated".
Detects(answer) ==
    \/ answer = Active /\ UNCHANGED faults
    \/ answer = FALSE /\ faults' = TRUE

RunnerDetects ==
    /\ pc = "runner"
    /\ \E answer \in BOOLEAN : Detects(answer) /\ detected' = answer
    /\ Goto("detect")
    /\ UNCHANGED <<chain, tx, executed, isActivated, elgamalSeen, tokenSeen,
                   moved, outcome>>

TestDetects ==
    /\ pc = "detect"
    /\ \E answer \in BOOLEAN : Detects(answer) /\ isActivated' = answer
    /\ Goto("send")
    /\ UNCHANGED <<chain, tx, executed, detected, elgamalSeen, tokenSeen,
                   moved, outcome>>

Return(result) == outcome' = result /\ Goto("done")

\* get_latest_blockhash()? and the sending half of send_and_confirm.
Send ==
    /\ pc = "send"
    /\ \/ Return("err") /\ faults' = TRUE /\ UNCHANGED tx
       \/ tx' = "sent" /\ Goto("confirm") /\ UNCHANGED <<faults, outcome>>
    /\ UNCHANGED <<chain, executed, detected, isActivated, elgamalSeen,
                   tokenSeen, moved>>

\* The confirming half: any error is a Fail, whether the transaction failed,
\* was not seen in time or could not be asked for.
Confirm ==
    /\ pc = "confirm"
    /\ \/ /\ tx = "accepted"
          /\ IF test = "simd_0194" THEN Return("pass")
             ELSE Goto("elgamal") /\ UNCHANGED outcome
          /\ UNCHANGED faults
       \/ tx = "rejected" /\ Return("fail") /\ UNCHANGED faults
       \/ Return("fail") /\ faults' = TRUE
    /\ UNCHANGED <<chain, tx, executed, detected, isActivated, elgamalSeen,
                   tokenSeen, moved>>

\* The RPC cross-check of simd_0153: get_account(..).ok().
ReadElgamal ==
    /\ pc = "elgamal"
    /\ \/ elgamalSeen' = (effect # "old") /\ UNCHANGED faults
       \/ elgamalSeen' = FALSE /\ faults' = TRUE
    /\ Goto("token")
    /\ UNCHANGED <<chain, tx, executed, detected, isActivated, tokenSeen,
                   moved, outcome>>

ReadToken ==
    /\ pc = "token"
    /\ \/ tokenSeen' = tokenProof /\ UNCHANGED faults
       \/ tokenSeen' = FALSE /\ faults' = TRUE
    /\ Goto("verdict")
    /\ UNCHANGED <<chain, tx, executed, detected, isActivated, elgamalSeen,
                   moved, outcome>>

\* Slips: the deprecated program fails the test on localnet too; a failed
\* cross-check has a status of its own.
Passes_OnLocalnetToo == ~tokenSeen /\ elgamalSeen = isActivated
Verdict_Warns ==
    /\ pc = "verdict"
    /\ Return(IF elgamalSeen = isActivated THEN "pass" ELSE "warn")
    /\ UNCHANGED <<chain, tx, executed, detected, isActivated, elgamalSeen,
                   tokenSeen, faults, moved>>

Passes ==
    /\ ~(tokenSeen /\ network # "localnet")
    /\ elgamalSeen = isActivated

Verdict ==
    /\ pc = "verdict"
    /\ Return(IF Passes THEN "pass" ELSE "fail")
    /\ UNCHANGED <<chain, tx, executed, detected, isActivated, elgamalSeen,
                   tokenSeen, faults, moved>>

Host == RunnerDetects \/ TestDetects \/ Send \/ Confirm \/ ReadElgamal
          \/ ReadToken \/ Verdict

-----------------------------------------------------------------------------
(* The on-chain program, and the chain (external).                         *)

\* Slip: the program trusts the bit.
Accepts_TrustsBit == effect = IF isActivated THEN "new" ELSE "old"

\* process_instruction: assert_expected_activation on the bit, then the
\* behaviour of the runtime against the state of the gate.
Accepts ==
    /\ isActivated = Active
    /\ effect = IF Active THEN "new" ELSE "old"

Execute ==
    /\ tx = "sent"
    /\ tx' = IF Accepts THEN "accepted" ELSE "rejected"
    /\ executed' = [gate |-> gate, effect |-> effect]
    /\ UNCHANGED <<chain, host, faults, moved>>

\* The feature is activated; a correct runtime changes with it, in one step.
Activate ==
    /\ gate = "pending" /\ outcome = "none"
    /\ gate' = "active"
    /\ effect' \in {effect, "new"}
    /\ moved' = TRUE
    /\ UNCHANGED <<test, network, tokenProof, tx, executed, host, faults>>

Next == Host \/ Execute \/ Activate

Spec == Init /\ [][Next]_vars

-----------------------------------------------------------------------------
(* Properties.                                                             *)

\* The variables keep their types.
TypeOK ==
    /\ test \in {"simd_0153", "simd_0194"} /\ network \in {"localnet", "live"}
    /\ gate \in {"absent", "pending", "active"} /\ effect \in Effects
    /\ tx \in {"unsent", "sent", "accepted", "rejected"}
    /\ executed \in [gate : {"absent", "pending", "active"}, effect : Effects]
    /\ pc \in {"runner", "detect", "send", "confirm", "elgamal", "token",
               "verdict", "done"}
    /\ {tokenProof, detected, isActivated, elgamalSeen, tokenSeen, faults,
        moved} \subseteq BOOLEAN
    /\ outcome \in {"none", "pass", "fail", "err"}

ExecutedActive == executed.gate = "active"

\* A Pass is earned on the chain: when the transaction executed, the runtime
\* behaved as the gate asked, and the gate was as the test took it to be, even
\* if its reading was an RPC error taken for "not activated" (lib.rs:449).
\* And it is reported with the activation it was earned on, unless the feature
\* was activated in between or a read failed (main.rs:302 reads the gate for
\* the report, simd_0153.rs:35 for the test).
PassIsEarned ==
    outcome = "pass" =>
        /\ tx = "accepted"
        /\ isActivated = ExecutedActive
        /\ executed.effect = IF ExecutedActive THEN "new" ELSE "old"
        /\ detected => ExecutedActive
        /\ ~detected /\ ExecutedActive => moved \/ faults

\* On a network that stands still and answers, the test is exact: it passes
\* the runtimes that do what the gate says (and hide the deprecated program,
\* on a live network), and fails every other.
ExactWhenQuiet ==
    outcome # "none" /\ ~faults /\ ~moved =>
        (outcome = "pass") =
            /\ effect = IF Active THEN "new" ELSE "old"
            /\ test = "simd_0153" /\ network = "live" => ~tokenProof

=============================================================================
