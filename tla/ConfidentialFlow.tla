--------------------------- MODULE ConfidentialFlow ---------------------------
(***************************************************************************)
(* The end-to-end test of confidential transfers: run and run_inner of     *)
(* crates/tests/src/e2e/confidential_transfers.rs on the operations of     *)
(* e2e/token_ops.rs.                                                       *)
(*                                                                         *)
(* The test is one line of steps, the sequence Flow.  A step either sends  *)
(* a transaction through send_ixs, which returns as soon as any node has   *)
(* processed it, or reads the chain at the confirmed commitment.  The first *)
(* step that fails ends the test (every `?` of the flow).                  *)
(*                                                                         *)
(* The network is external.  It executes what was sent in any order, late  *)
(* or never, drops the fork of what it has not confirmed, and may have a   *)
(* defect: it rejects one kind of instruction, or reports success and does *)
(* nothing.                                                                *)
(***************************************************************************)
EXTENDS Naturals, Sequences

CONSTANTS
    Defects,    \* the defects a runtime may have
    MaxLag,     \* bound: executed transactions that wait for confirmation
    MaxDrops    \* bound: forks the network drops

ASSUME LagAssumption == MaxLag \in Nat \ {0}
ASSUME DropsAssumption == MaxDrops \in Nat

VARIABLES
    network,    \* ctx.network_name and ctx.required_programs.first()
    defect,     \* what the runtime does wrong
    step,       \* the position of the test in Flow; 0 before run_inner
    waiting,    \* send_ixs polls for the status of the step's transaction
    proof,      \* the balances a part's proofs were made for
    senderSaw,  \* the sender's public balance at the final read
    records,    \* the signatures in the locals of create_record_account
    sigs,       \* the transactions whose signatures are reported
    outcome,    \* what the test returned
    sent,       \* the network: transactions not executed on its fork
    fork,       \* the network: transactions executed and not yet confirmed
    processed,  \* the chain at the end of the fork
    confirmed,  \* the chain as far as it is confirmed
    drops,      \* the network: forks dropped so far
    ever,       \* history: transactions that succeeded on some fork
    faults      \* history: an RPC failed, time ran out, a fork was dropped,
                \* or a read was answered from behind the fork

chain == <<sent, fork, processed, confirmed, drops, ever>>
host == <<step, waiting, proof, senderSaw, records, sigs, outcome>>
vars == <<network, defect, host, chain, faults>>

-----------------------------------------------------------------------------
(* The steps of the test.                                                  *)

MINT_AMOUNT == 10000
DEPOSIT_AMOUNT == 5000
TRANSFER_AMOUNT == 5000
WITHDRAW_AMOUNT == 2000

RECORD_WRITE_CHUNK == 900
\* The size of the range proof of each part: two chunks, the last one partial.
ProofLen == [transfer |-> 1400, withdraw |-> 936]

\* A step names its operation, the part of the flow and the account it is on.
Step(op, part, on) == [op |-> op, part |-> part, on |-> on, chunk |-> 0]
Write(part, i) == [op |-> "write", part |-> part, on |-> "record", chunk |-> i]

Reads == {"counter", "prove", "audit", "readSender", "readRecipient"}
RecordOps == {"createRecord", "write"}

\* Slip: the last, partial chunk is forgotten.
ChunksOf_WholeOnly(part) == 1..(ProofLen[part] \div RECORD_WRITE_CHUNK)

\* The rounds of the loop over the proof's bytes.
ChunksOf(part) ==
    {i \in 1..ProofLen[part] : (i - 1) * RECORD_WRITE_CHUNK < ProofLen[part]}

\* create_record_account
CreateRecord(part) ==
    <<Step("createRecord", part, "record")>>
      \o [i \in ChunksOf(part) |-> Write(part, i)]

\* Slip: the record account is not closed.
CloseRecord_Never(part) == <<>>
CloseRecord(part) == <<Step("closeRecord", part, "record")>>

\* create_context_state_account, the same from a record, and the closing of one.
CreateContext(part, on) == <<Step("verify", part, on)>>
CreateContextFromRecord(part) == <<Step("verifyRecord", part, "range")>>
CloseContext(part, on) == <<Step("closeContext", part, on)>>

Setup ==
    <<Step("createMint", "setup", "mint"),
      Step("createAccount", "setup", "sender"),
      Step("configure", "setup", "sender"),
      Step("createAccount", "setup", "recipient"),
      Step("configure", "setup", "recipient"),
      Step("mintTo", "setup", "sender"),
      Step("deposit", "setup", "sender")>>

\* get_token_account_state, then apply_pending_balance.
ApplyPending(on) == <<Step("counter", "setup", on), Step("apply", "setup", on)>>

\* run_confidential_transfer
Transfer ==
    <<Step("prove", "transfer", "sender")>>
      \o CreateContext("transfer", "equality") \o CreateContext("transfer", "validity")
      \o CreateRecord("transfer") \o CreateContextFromRecord("transfer")
      \o <<Step("transfer", "transfer", "sender")>>
      \o CloseContext("transfer", "equality") \o CloseContext("transfer", "validity")
      \o CloseContext("transfer", "range") \o CloseRecord("transfer")

\* run_confidential_withdraw
Withdraw ==
    <<Step("prove", "withdraw", "recipient")>>
      \o CreateContext("withdraw", "equality")
      \o CreateRecord("withdraw") \o CreateContextFromRecord("withdraw")
      \o <<Step("withdraw", "withdraw", "recipient")>>
      \o CloseContext("withdraw", "equality") \o CloseContext("withdraw", "range")
      \o CloseRecord("withdraw")

\* run_inner
Flow ==
    Setup \o ApplyPending("sender") \o Transfer
      \o ApplyPending("recipient") \o Withdraw
      \o <<Step("audit", "end", "sender"), Step("readSender", "end", "sender"),
           Step("readRecipient", "end", "recipient")>>

Steps == {Flow[i] : i \in DOMAIN Flow}
Txs == {t \in Steps : t.op \notin Reads}

\* A defect is one of an instruction that the flow needs.
ASSUME DefectsAssumption ==
    Defects \subseteq [op : {t.op : t \in Txs}, how : {"rejects", "ignores"}]

Now == IF step \in DOMAIN Flow THEN Flow[step] ELSE Step("none", "end", "none")

-----------------------------------------------------------------------------
(* The chain (external): the token, record, system and proof programs.     *)

Creating == {"createMint", "createAccount", "verify", "createRecord", "verifyRecord"}
Closing == {"closeContext", "closeRecord"}

\* ok and err are the statuses, did the transactions that had their effect.
EmptyAccount == [public |-> 0, pending |-> 0, available |-> 0, decryptable |-> 0]
EmptyChain == [ok |-> {}, err |-> {}, did |-> {},
               acct |-> [on \in {"sender", "recipient"} |-> EmptyAccount]]

Did(c, op, part, on) ==
    \E t \in c.did : t.op = op /\ t.part = part /\ t.on = on
Exists(c, part, on) ==
    /\ \E op \in Creating : Did(c, op, part, on)
    /\ ~\E op \in Closing : Did(c, op, part, on)
Configured(c, on) == Did(c, "configure", "setup", on)

\* What the programs of a right runtime demand of a transaction.  A proof
\* holds only for the balance it was made for, in the verification as in the
\* instruction that uses it; a range proof has to be whole.
Accepts(c, t) ==
    /\ t.op = "createAccount" => Exists(c, "setup", "mint")
    /\ t.op \in {"configure", "mintTo"} => Exists(c, "setup", t.on)
    /\ t.op = "deposit" => /\ Configured(c, t.on)
                           /\ c.acct.sender.public >= DEPOSIT_AMOUNT
    /\ t.op = "apply" => Configured(c, t.on)
    /\ t.op = "verify" /\ t.on = "equality" =>
          proof[t.part].claimed = proof[t.part].available
    /\ t.op \in {"write", "closeRecord"} => Exists(c, t.part, "record")
    /\ t.op = "verifyRecord" =>
          /\ Exists(c, t.part, "record")
          /\ \A i \in 1..ProofLen[t.part] :
                (i - 1) * RECORD_WRITE_CHUNK < ProofLen[t.part]
                  => Write(t.part, i) \in c.did
    /\ t.op \in {"transfer", "withdraw"} =>
          /\ Configured(c, "sender") /\ Configured(c, "recipient")
          /\ Exists(c, t.part, "equality") /\ Exists(c, t.part, "range")
          /\ t.op = "transfer" => Exists(c, t.part, "validity")
          /\ c.acct[t.on].available = proof[t.part].available
    /\ t.op = "closeContext" => Exists(c, t.part, t.on)

\* The accounts after a transaction.
Moved(acct, t) ==
    CASE t.op = "mintTo" -> [acct EXCEPT !.sender.public = @ + MINT_AMOUNT]
      [] t.op = "deposit" ->
            [acct EXCEPT !.sender.public = @ - DEPOSIT_AMOUNT,
                         !.sender.pending = @ + DEPOSIT_AMOUNT]
      [] t.op = "apply" ->
            [acct EXCEPT ![t.on].available = @ + acct[t.on].pending,
                         ![t.on].pending = 0,
                         ![t.on].decryptable = IF t.on = "sender"
                            THEN DEPOSIT_AMOUNT ELSE TRANSFER_AMOUNT]
      [] t.op = "transfer" ->
            [acct EXCEPT !.sender.available = @ - TRANSFER_AMOUNT,
                         !.sender.decryptable = @ - TRANSFER_AMOUNT,
                         !.recipient.pending = @ + TRANSFER_AMOUNT]
      [] t.op = "withdraw" ->
            [acct EXCEPT !.recipient.available = @ - WITHDRAW_AMOUNT,
                         !.recipient.decryptable = @ - WITHDRAW_AMOUNT,
                         !.recipient.public = @ + WITHDRAW_AMOUNT]
      [] OTHER -> acct

Execute(c, t) ==
    IF ~Accepts(c, t) \/ defect = [op |-> t.op, how |-> "rejects"]
    THEN [c EXCEPT !.err = @ \cup {t}]
    ELSE IF defect = [op |-> t.op, how |-> "ignores"]
         THEN [c EXCEPT !.ok = @ \cup {t}]
         ELSE [c EXCEPT !.ok = @ \cup {t}, !.did = @ \cup {t},
                        !.acct = Moved(@, t)]

Process(t) ==
    /\ t \in sent /\ Len(fork) < MaxLag
    /\ sent' = sent \ {t} /\ fork' = Append(fork, t)
    /\ processed' = Execute(processed, t)
    /\ ever' = IF t \in processed'.ok THEN ever \cup {t} ELSE ever
    /\ UNCHANGED <<network, defect, host, confirmed, drops, faults>>

Confirm ==
    /\ fork # <<>> /\ fork' = Tail(fork)
    /\ confirmed' = Execute(confirmed, Head(fork))
    /\ UNCHANGED <<network, defect, host, sent, processed, drops, ever, faults>>

\* What was executed on the fork may be executed again on another.
Drop ==
    /\ fork # <<>> /\ drops < MaxDrops
    /\ sent' = sent \cup {fork[i] : i \in DOMAIN fork}
    /\ fork' = <<>> /\ processed' = confirmed /\ drops' = drops + 1
    /\ faults' = faults \cup {"drop"}
    /\ UNCHANGED <<network, defect, host, confirmed, ever>>

-----------------------------------------------------------------------------
(* The test.                                                               *)

Init ==
    /\ network \in {"localnet", "live", "otherProgram", "noProgram"}
    /\ defect \in Defects \cup {[op |-> "none", how |-> "none"]}
    /\ step = 0 /\ waiting = FALSE
    /\ proof = [part \in {"transfer", "withdraw"} |->
                  [available |-> 0, claimed |-> 0]]
    /\ senderSaw = 0 /\ records = {} /\ sigs = {} /\ outcome = "none"
    /\ sent = {} /\ fork = <<>> /\ drops = 0
    /\ processed = EmptyChain /\ confirmed = EmptyChain
    /\ ever = {} /\ faults = {}

Return(o) ==
    /\ outcome' = o
    /\ UNCHANGED <<step, waiting, proof, senderSaw, records, sigs>>
Fault(f) == faults' = faults \cup {f}
Running == outcome = "none"

\* Localnet is skipped; the first required program has to be token-2022.
Start ==
    /\ Running /\ step = 0
    /\ IF network = "localnet" THEN Return("skip")
       ELSE IF network # "live" THEN Return("fail")
       ELSE step' = 1 /\ UNCHANGED <<waiting, proof, senderSaw, records, sigs, outcome>>
    /\ UNCHANGED <<network, defect, chain, faults>>

\* send_ixs: the transaction goes out.
Send ==
    /\ Running /\ step \in DOMAIN Flow /\ Now.op \notin Reads /\ ~waiting
    /\ sent' = sent \cup {Now} /\ waiting' = TRUE
    /\ UNCHANGED <<network, defect, step, proof, senderSaw, records, sigs, outcome,
                   fork, processed, confirmed, drops, ever, faults>>

\* Slip: each chunk starts a new list of signatures.
Report_ForgetsChunks(t) ==
    IF t.op \in RecordOps /\ Flow[step + 1].op \in RecordOps
    THEN records' = {t} /\ UNCHANGED sigs
    ELSE sigs' = sigs \cup records \cup {t} /\ records' = {}

\* The signatures of a record are reported together when it is complete.
Report(t) ==
    LET collected == records \cup {t} IN
    IF t.op \in RecordOps /\ Flow[step + 1].op \in RecordOps
    THEN records' = collected /\ UNCHANGED sigs
    ELSE sigs' = sigs \cup collected /\ records' = {}

\* send_ixs: the status decides, at any commitment; without one it polls again.
Poll ==
    /\ Running /\ waiting
    /\ \/ /\ Now \in processed.ok
          /\ Report(Now) /\ step' = step + 1 /\ waiting' = FALSE
          /\ UNCHANGED <<proof, senderSaw, outcome>>
       \/ Now \in processed.err /\ Return("fail")
    /\ UNCHANGED <<network, defect, chain, faults>>

\* Slip: there is no deadline.
GiveUp_Never == FALSE /\ UNCHANGED vars

\* The 60 seconds are over, and no node has told of the transaction, which may
\* have been executed or not.
GiveUp ==
    /\ Running /\ waiting
    /\ Return("fail") /\ Fault("timeout")
    /\ UNCHANGED <<network, defect, chain>>

\* Any request may fail, the sending also when the transaction is on its way.
RpcFails ==
    /\ Running /\ step \in DOMAIN Flow
    /\ Return("fail") /\ Fault("rpc")
    /\ sent' \in IF Now.op \in Reads \/ waiting THEN {sent} ELSE {sent, sent \cup {Now}}
    /\ UNCHANGED <<network, defect, fork, processed, confirmed, drops, ever>>

\* A read of step op.  It is answered from what is confirmed.
Reading(op) ==
    /\ Running /\ Now.op = op
    /\ IF fork = <<>> THEN UNCHANGED faults ELSE Fault("stale")
    /\ UNCHANGED <<network, defect, chain>>

\* Slip: what was read is reported like a transaction.
GoOn_Reports == step' = step + 1 /\ sigs' = sigs \cup {Now} /\ UNCHANGED <<waiting, records, outcome>>
GoOn == step' = step + 1 /\ UNCHANGED <<waiting, records, sigs, outcome>>

\* The credit counter is passed on and not used to decide anything.
ReadCounter ==
    /\ Reading("counter")
    /\ IF Configured(confirmed, Now.on)
       THEN GoOn /\ UNCHANGED <<proof, senderSaw>> ELSE Return("fail")

\* The transfer takes its balance from the account, the withdrawal from its
\* caller; a proof of a balance below the amount is not made.
Prove ==
    LET account == confirmed.acct[Now.on]
        claimed == IF Now.part = "transfer" THEN account.decryptable
                   ELSE TRANSFER_AMOUNT
        amount == IF Now.part = "transfer" THEN TRANSFER_AMOUNT ELSE WITHDRAW_AMOUNT
    IN
    /\ Reading("prove")
    /\ IF Configured(confirmed, Now.on) /\ claimed >= amount
       THEN /\ proof' = [proof EXCEPT ![Now.part] =
                  [available |-> account.available, claimed |-> claimed]]
            /\ GoOn /\ UNCHANGED senderSaw
       ELSE Return("fail")

\* The amount is decrypted from the instruction the test sent itself: what can
\* fail is the reading of the transaction, whose own status is not looked at.
Audit ==
    /\ Reading("audit")
    /\ IF Step("transfer", "transfer", "sender") \in confirmed.ok \cup confirmed.err
       THEN GoOn /\ UNCHANGED <<proof, senderSaw>> ELSE Return("fail")

ReadSender ==
    /\ Reading("readSender")
    /\ IF Exists(confirmed, "setup", "sender")
       THEN senderSaw' = confirmed.acct.sender.public /\ GoOn /\ UNCHANGED proof
       ELSE Return("fail")

\* Slip: the recipient's balance is not compared.
Balanced_SenderOnly(sender, recipient) == sender = MINT_AMOUNT - DEPOSIT_AMOUNT
Balanced(sender, recipient) ==
    sender = MINT_AMOUNT - DEPOSIT_AMOUNT /\ recipient = WITHDRAW_AMOUNT

ReadRecipient ==
    /\ Reading("readRecipient")
    /\ Return(IF /\ Exists(confirmed, "setup", "recipient")
                 /\ Balanced(senderSaw, confirmed.acct.recipient.public)
              THEN "pass" ELSE "fail")

Host ==
    \/ Start \/ Send \/ Poll \/ GiveUp
    \/ ReadCounter \/ Prove \/ Audit \/ ReadSender \/ ReadRecipient

Next == Host \/ RpcFails \/ (\E t \in sent : Process(t)) \/ Confirm \/ Drop

\* The test goes on, whether the network executes anything or not, and without
\* counting on a request to fail.
Spec == Init /\ [][Next]_vars /\ WF_vars(Host)

-----------------------------------------------------------------------------
(* Properties.                                                             *)

\* The variables keep their types.
TypeOK ==
    /\ step \in 0..(Len(Flow) + 1) /\ waiting \in BOOLEAN
    /\ senderSaw \in 0..MINT_AMOUNT
    /\ records \subseteq Txs /\ sigs \subseteq Txs /\ sent \subseteq Txs
    /\ outcome \in {"none", "pass", "fail", "skip"}
    /\ Len(fork) <= MaxLag /\ \A i \in DOMAIN fork : fork[i] \in Txs
    /\ \A c \in {processed, confirmed} :
          /\ c.did \subseteq c.ok /\ c.ok \cup c.err \subseteq Txs
          /\ c.ok \cap c.err = {}
    /\ drops \in 0..MaxDrops /\ ever \subseteq Txs
    /\ faults \subseteq {"rpc", "timeout", "drop", "stale"}

\* A defect that the test cannot see: closing an account does nothing.
Unseen == {[op |-> op, how |-> "ignores"] : op \in Closing} \cup {[op |-> "none", how |-> "none"]}

\* The test passes only on a runtime that did what it was asked: the deposit,
\* the transfer and the withdrawal are confirmed and moved their amounts,
\* whatever forks were dropped on the way, and no runtime that rejects or
\* ignores an instruction of the flow passes, but one that ignores a closing.
PassIsEarned ==
    outcome = "pass" =>
        /\ network = "live" /\ defect \in Unseen
        /\ {Step("deposit", "setup", "sender"), Step("transfer", "transfer", "sender"),
            Step("withdraw", "withdraw", "recipient")} \subseteq confirmed.did
        /\ confirmed.acct.sender.public = MINT_AMOUNT - DEPOSIT_AMOUNT
        /\ confirmed.acct.recipient.public = WITHDRAW_AMOUNT

\* Without a failed request, a dropped fork, a deadline or a read from behind
\* the verdict is exact: pass on a right runtime, else fail.
ExactWhenQuiet ==
    outcome # "none" /\ faults = {} =>
        /\ network = "localnet" <=> outcome = "skip"
        /\ network = "live" => (outcome = "pass" <=> defect \in Unseen)

\* The proof accounts: at most one part has any on the chain, as long as
\* no fork is dropped and accounts can be closed, and after a pass none is left.
ProofAccounts(c, part) ==
    {on \in {"equality", "validity", "range", "record"} : Exists(c, part, on)}
RentReclaimed ==
    drops = 0 /\ defect.op \notin Closing =>
        /\ ProofAccounts(processed, "transfer") = {}
             \/ ProofAccounts(processed, "withdraw") = {}
        /\ outcome = "pass" => \A part \in {"transfer", "withdraw"} :
                                  ProofAccounts(processed, part) = {}

\* Every reported signature is of a transaction that succeeded, as label_sig
\* says of it, and every transaction that succeeded is reported, except the
\* one the test gave up on and the earlier ones of the record it was writing,
\* whose signatures are lost with the locals of create_record_account.
EvidenceKept ==
    /\ sigs \subseteq ever
    /\ ever \subseteq sigs \cup records \cup {Now}
    /\ records # {} => Now.op \in RecordOps

\* The test returns, whether or not its transactions are ever executed.
Termination == <>(outcome # "none")

-----------------------------------------------------------------------------
(* What the documents say and the code does not do.                        *)

\* README.md:113: FAIL is "All requirements met, behavior is broken".  No
\* request failed, no deadline passed and no fork was dropped.
FailMeansBroken ==
    outcome = "fail" /\ network = "live" /\ faults \subseteq {"stale"}
        => defect.op # "none"
=============================================================================
