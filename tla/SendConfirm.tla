----------------------------- MODULE SendConfirm -----------------------------
(***************************************************************************)
(* The two helpers that send a transaction and wait for it: send_ixs of    *)
(* crates/tests/src/e2e/token_ops.rs, which polls for any status until a   *)
(* deadline, and send_instructions of crates/tests/src/simd_0266.rs, which *)
(* polls for the confirmed commitment and then reads the status again.     *)
(*                                                                         *)
(* The network is external.  It may execute the transaction on a fork that *)
(* it later drops, execute it late or never.  The RPC service may be       *)
(* several nodes: one that is behind knows no status of the transaction.   *)
(***************************************************************************)
EXTENDS Naturals

VARIABLES
    helper,    \* "send_ixs" or "send_instructions"
    stage,     \* the network: how far the transaction is
    result,    \* the network: its result on the fork it is in
    drops,     \* the network: forks dropped so far
    pc,        \* the next step of the helper
    deadline,  \* the helper's time is up
    outcome,   \* what the helper returned
    ever,      \* history: the results the transaction had on some fork
    faults     \* history: an RPC failed ("rpc"), or was answered from behind

network == <<stage, result, drops>>
host == <<pc, outcome, faults>>
vars == <<helper, network, host, deadline, ever>>

CONSTANT MaxDrops   \* bound: forks the network drops

ASSUME MaxDropsAssumption == MaxDrops \in Nat

Init ==
    /\ helper \in {"send_ixs", "send_instructions"}
    /\ stage = "unsent" /\ result = "none" /\ drops = 0
    /\ pc = "send" /\ deadline = FALSE
    /\ outcome = "none" /\ ever = {} /\ faults = {}

-----------------------------------------------------------------------------
(* What both helpers do.                                                   *)

Goto(l) == pc' = l /\ UNCHANGED outcome
Return(o) == outcome' = o /\ pc' = "done"
Fault(f) == faults' = faults \cup {f}

\* get_latest_blockhash()? and send_transaction_with_config()?: the answer to
\* the second may be lost after the transaction went out.
Send ==
    /\ pc = "send"
    /\ \/ stage' = "sent" /\ Goto("poll") /\ UNCHANGED faults
       \/ stage' \in {"unsent", "sent"} /\ Return("rpcError") /\ Fault("rpc")
    /\ UNCHANGED <<helper, result, drops, deadline, ever>>

Executed == stage \in {"processed", "confirmed"}

\* A read of the status by a node that knows the transaction, by a node that
\* does not, or by none.
Status(s) ==
    \/ Executed /\ s = result /\ UNCHANGED faults
    \/ s = "none" /\ IF Executed THEN Fault("behind") ELSE UNCHANGED faults

-----------------------------------------------------------------------------
(* send_ixs.                                                               *)

\* The deadline is looked at before each read, not during it.
CheckDeadline ==
    /\ helper = "send_ixs" /\ pc = "poll"
    /\ IF deadline THEN Return("timeout") ELSE Goto("status")
    /\ UNCHANGED <<helper, network, deadline, ever, faults>>

\* Slip: a status is returned as it is.
Polled_RawStatus(s) == IF s = "none" THEN Goto("poll") ELSE Return(s)

\* An error fails, a status of any commitment succeeds, none waits.
Polled(s) ==
    \/ s = "err" /\ Return("failed")
    \/ s = "ok" /\ Return("ok")
    \/ s = "none" /\ Goto("poll")

ReadStatus ==
    /\ helper = "send_ixs" /\ pc = "status"
    /\ \/ \E s \in {"none", "ok", "err"} : Status(s) /\ Polled(s)
       \/ Return("rpcError") /\ Fault("rpc")
    /\ UNCHANGED <<helper, network, deadline, ever>>

-----------------------------------------------------------------------------
(* send_instructions.                                                      *)

\* Slip: any commitment will do.
PollConfirmed_Processed ==
    /\ helper = "send_instructions" /\ pc = "poll"
    /\ \/ Executed /\ Goto("reread")
       \/ deadline /\ Return("timeout")
    /\ UNCHANGED <<helper, network, deadline, ever, faults>>

\* poll_for_signature_with_commitment(confirmed)?, which has a deadline of its
\* own and overlooks failed reads.
PollConfirmed ==
    /\ helper = "send_instructions" /\ pc = "poll"
    /\ \/ stage = "confirmed" /\ Goto("reread")
       \/ deadline /\ Return("timeout")
    /\ UNCHANGED <<helper, network, deadline, ever, faults>>

\* success is error.is_none(): no status counts as success.
RereadStatus ==
    /\ helper = "send_instructions" /\ pc = "reread"
    /\ \/ \E s \in {"none", "ok", "err"} :
             Status(s) /\ Return(IF s = "err" THEN "failed" ELSE "ok")
       \/ Return("rpcError") /\ Fault("rpc")
    /\ UNCHANGED <<helper, network, deadline, ever>>

Helper == Send \/ CheckDeadline \/ ReadStatus \/ PollConfirmed \/ RereadStatus

-----------------------------------------------------------------------------
(* The network and the clock (external).                                   *)

\* With skip_preflight a transaction that fails is executed all the same.
Process ==
    /\ stage = "sent" /\ stage' = "processed"
    /\ result' \in {"ok", "err"}
    /\ ever' = ever \cup {result'}
    /\ UNCHANGED <<helper, drops, host, deadline>>

Confirm ==
    /\ stage = "processed" /\ stage' = "confirmed"
    /\ UNCHANGED <<helper, result, drops, host, deadline, ever>>

\* The fork is dropped; the transaction may be executed again on another.
Drop ==
    /\ stage = "processed" /\ drops < MaxDrops
    /\ stage' = "sent" /\ result' = "none" /\ drops' = drops + 1
    /\ UNCHANGED <<helper, host, deadline, ever>>

TimeUp ==
    /\ pc # "send" /\ ~deadline /\ deadline' = TRUE
    /\ UNCHANGED <<helper, network, host, ever>>

Next == Helper \/ Process \/ Confirm \/ Drop \/ TimeUp

Spec == Init /\ [][Next]_vars

-----------------------------------------------------------------------------
(* Properties.                                                             *)

\* The variables keep their types.
TypeOK ==
    /\ helper \in {"send_ixs", "send_instructions"}
    /\ stage \in {"unsent", "sent", "processed", "confirmed"}
    /\ result \in {"none", "ok", "err"}
    /\ drops \in 0..MaxDrops
    /\ pc \in {"send", "poll", "status", "reread", "done"}
    /\ deadline \in BOOLEAN
    /\ outcome \in {"none", "ok", "failed", "timeout", "rpcError"}
    /\ ever \subseteq {"ok", "err"} /\ faults \subseteq {"rpc", "behind"}

\* A transaction reported as failed on chain did fail on some fork, and one
\* reported as successful did succeed on one; what send_instructions reports
\* is the result the transaction keeps, unless it took the silence of a node
\* that was behind for success (simd_0266.rs:256).
VerdictIsTrue ==
    /\ outcome = "failed" => "err" \in ever
    /\ outcome = "ok" =>
          \/ "ok" \in ever
          \/ helper = "send_instructions" /\ "behind" \in faults
    /\ helper = "send_instructions" /\ outcome \in {"ok", "failed"} =>
          /\ stage = "confirmed"
          /\ (outcome = "ok") = (result = "ok") \/ "behind" \in faults

=============================================================================
