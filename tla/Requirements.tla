---------------------------- MODULE Requirements ----------------------------
(***************************************************************************)
(* RequirementChecker::check of crates/test-common/src/requirements.rs:    *)
(* the requirements of an e2e check are read from the chain one RPC at a   *)
(* time, gates first, while the chain moves on: gates are activated,       *)
(* programs are deployed, upgraded and closed between two reads.           *)
(*                                                                         *)
(* An upgradeable program takes two reads, the program account and then    *)
(* its programdata account.  An account that is missing, not executable or *)
(* too short answers like one that does not exist, and so does a           *)
(* programdata account that is closed or too short.                        *)
(***************************************************************************)
EXTENDS Integers, Sequences, Functions

CONSTANTS
    Gates,       \* feature gates
    Programs,    \* program addresses
    Hashes,      \* hashes of the ELFs a program may be deployed with
    Required,    \* the requirements in manifest order: gates, then programs
    Expected,    \* [Programs -> Hashes \cup {"any"}]: expected_hash
    MaxChanges   \* bound: the changes of the chain during a check

ASSUME DisjointAssumption == Gates \cap Programs = {}
ASSUME RequiredAssumption ==
    /\ Required \in Seq(Gates \cup Programs)
    /\ \A i, j \in 1..Len(Required) :
          Required[i] \in Programs /\ Required[j] \in Gates => j < i
ASSUME HashesAssumption == "gone" \notin Hashes /\ "any" \notin Hashes
ASSUME ExpectedAssumption == Expected \in [Programs -> Hashes \cup {"any"}]
ASSUME MaxChangesAssumption == MaxChanges \in Nat

VARIABLES
    gate,        \* the chain: state of each gate's account
    account,     \* the chain: state of each program's account
    elf,         \* the chain: what each program's code hashes to
    changes,     \* the changes of the chain so far
    queue,       \* the requirements not checked yet
    following,   \* the program account at the head of queue was upgradeable
    unmet,       \* the requirements pushed onto `unmet`
    everMet,     \* history: requirements met at some moment of the check
    everUnmet,   \* history: requirements not met at some moment
    rpcErrors    \* history: requirements one of whose reads failed

chain == <<gate, account, elf, changes>>
checker == <<queue, following, unmet, rpcErrors>>
vars == <<chain, checker, everMet, everUnmet>>

Reqs == Range(Required)
\* The requirement at hand.
current == Head(queue)

\* The requirement as the documentation means it, in one state of the chain.
Met(r) ==
    IF r \in Gates THEN gate[r] = "active"
    ELSE /\ account[r] # "unusable" /\ elf[r] # "gone"
         /\ Expected[r] \in {"any", elf[r]}

Remember ==
    /\ everMet' = everMet \cup {r \in Reqs : Met(r)'}
    /\ everUnmet' = everUnmet \cup {r \in Reqs : ~Met(r)'}

\* An upgradeable program may have been closed before the check.
Init ==
    /\ gate \in [Gates -> {"absent", "pending", "active"}]
    /\ account \in [Programs -> {"unusable", "fixed", "upgradeable"}]
    /\ elf \in [Programs -> Hashes \cup {"gone"}]
    /\ \A p \in Programs : elf[p] = "gone" => account[p] = "upgradeable"
    /\ changes = 0
    /\ queue = Required
    /\ following = FALSE
    /\ unmet = {}
    /\ everMet = {r \in Reqs : Met(r)}
    /\ everUnmet = {r \in Reqs : ~Met(r)}
    /\ rpcErrors = {}

-----------------------------------------------------------------------------
(* The checker.                                                            *)

\* Slips: the first unmet requirement ends the check; the next program is
\* taken to be upgradeable like the last.
Conclude_ShortCircuit(met) ==
    /\ queue' = IF met THEN Tail(queue) ELSE <<>>
    /\ following' = FALSE
    /\ unmet' = IF met THEN unmet ELSE unmet \cup {current}

Conclude_StaysFollowing(met) ==
    /\ queue' = Tail(queue)
    /\ unmet' = IF met THEN unmet ELSE unmet \cup {current}
    /\ UNCHANGED following

\* The head of the queue is done with, met or not.
Conclude(met) ==
    /\ queue' = Tail(queue)
    /\ following' = FALSE
    /\ unmet' = IF met THEN unmet ELSE unmet \cup {current}

\* Slip: the account of a gate is taken for its activation.
LooksActive_Exists(g) == gate[g] # "absent"

\* account.data.len() >= 9 && account.data[0] != 0: a gate's account exists
\* before the gate is active.
LooksActive(g) == gate[g] = "active"

\* is_feature_active; an RPC error is "not active".
ReadGate ==
    /\ queue # <<>> /\ current \in Gates
    /\ \/ Conclude(LooksActive(current)) /\ UNCHANGED rpcErrors
       \/ Conclude(FALSE) /\ rpcErrors' = rpcErrors \cup {current}
    /\ UNCHANGED chain /\ Remember

\* A hash is compared only with an expected_hash.
HashAccepted(p) == Expected[p] \in {"any", elf[p]}

\* The first read of fetch_program_elf_hash: it decides all but the hash of
\* an upgradeable program.
ReadProgram ==
    /\ queue # <<>> /\ current \in Programs /\ ~following
    /\ \/ account[current] = "unusable" /\ Conclude(FALSE) /\ UNCHANGED rpcErrors
       \/ account[current] = "fixed" /\ Conclude(HashAccepted(current)) /\ UNCHANGED rpcErrors
       \/ /\ account[current] = "upgradeable"
          /\ following' = TRUE
          /\ UNCHANGED <<queue, unmet, rpcErrors>>
       \/ Conclude(FALSE) /\ rpcErrors' = rpcErrors \cup {current}
    /\ UNCHANGED chain /\ Remember

\* Slip: the unmet requirement names the programdata account instead of the
\* program.
ReadProgramData_NamesData ==
    /\ queue # <<>> /\ following
    /\ \/ elf[current] = "gone" /\ unmet' = unmet \cup {"programdata"}
       \/ elf[current] # "gone" /\ HashAccepted(current) /\ UNCHANGED unmet
    /\ queue' = Tail(queue) /\ following' = FALSE
    /\ UNCHANGED <<rpcErrors, chain>> /\ Remember

\* The second read: the programdata account.
ReadProgramData ==
    /\ queue # <<>> /\ following
    /\ \/ elf[current] = "gone" /\ Conclude(FALSE) /\ UNCHANGED rpcErrors
       \/ elf[current] # "gone" /\ Conclude(HashAccepted(current)) /\ UNCHANGED rpcErrors
       \/ Conclude(FALSE) /\ rpcErrors' = rpcErrors \cup {current}
    /\ UNCHANGED chain /\ Remember

Check == ReadGate \/ ReadProgram \/ ReadProgramData

-----------------------------------------------------------------------------
(* The chain (external).  Activation is irreversible; a closed program does *)
(* not come back.                                                          *)

Change == changes < MaxChanges /\ changes' = changes + 1

Propose(g) ==
    /\ Change /\ gate[g] = "absent"
    /\ gate' = [gate EXCEPT ![g] = "pending"]
    /\ UNCHANGED <<account, elf, checker>> /\ Remember

Activate(g) ==
    /\ Change /\ gate[g] = "pending"
    /\ gate' = [gate EXCEPT ![g] = "active"]
    /\ UNCHANGED <<account, elf, checker>> /\ Remember

Deploy(p) ==
    /\ Change /\ account[p] = "unusable"
    /\ account' = [account EXCEPT ![p] = "upgradeable"]
    /\ UNCHANGED <<gate, elf, checker>> /\ Remember

Upgrade(p, h) ==
    /\ Change /\ account[p] = "upgradeable" /\ elf[p] \notin {"gone", h}
    /\ elf' = [elf EXCEPT ![p] = h]
    /\ UNCHANGED <<gate, account, checker>> /\ Remember

Close(p) ==
    /\ Change /\ account[p] = "upgradeable" /\ elf[p] # "gone"
    /\ elf' = [elf EXCEPT ![p] = "gone"]
    /\ UNCHANGED <<gate, account, checker>> /\ Remember

Chain ==
    \/ \E g \in Gates : Propose(g) \/ Activate(g)
    \/ \E p \in Programs : \/ Deploy(p) \/ Close(p)
                           \/ \E h \in Hashes : Upgrade(p, h)

Next == Check \/ Chain

Spec == Init /\ [][Next]_vars

-----------------------------------------------------------------------------
(* Properties.                                                             *)

Finished == queue = <<>>

\* The variables keep their types.
TypeOK ==
    /\ gate \in [Gates -> {"absent", "pending", "active"}]
    /\ account \in [Programs -> {"unusable", "fixed", "upgradeable"}]
    /\ elf \in [Programs -> Hashes \cup {"gone"}]
    /\ changes \in 0..MaxChanges
    /\ queue \in Seq(Reqs)
    /\ following \in BOOLEAN
    /\ unmet \subseteq Reqs
    /\ everMet \subseteq Reqs /\ everUnmet \subseteq Reqs
    /\ rpcErrors \subseteq Reqs

\* The verdict has a reason.  A requirement that a finished check does not name
\* was met at some moment of it: none is skipped after another one failed
\* (requirements.rs:90), and none is let through by the two reads of a program
\* being apart.  One that it names was unmet at some moment, or a read of it
\* failed: there is no third reason to keep a check pending.
VerdictHasReason ==
    /\ Finished => Reqs \ unmet \subseteq everMet
    /\ unmet \subseteq everUnmet \cup rpcErrors

\* A gate the check let through is still active, whenever the body runs.
GatesStayMet ==
    \A g \in Gates \cap Reqs :
        g \in Range(queue) \cup unmet \/ gate[g] = "active"

\* On a chain that stands still and answers, the check is exact: it names the
\* requirements that are unmet and no other.
ExactWhenQuiet ==
    Finished /\ changes = 0 /\ rpcErrors = {} => unmet = {r \in Reqs : ~Met(r)}

=============================================================================
