------------------------------- MODULE Runner -------------------------------
(***************************************************************************)
(* The command-line runner of simd-checker: main() of                      *)
(* crates/cli/src/main.rs with the surfnet handle, the outcomes and the    *)
(* report of crates/test-common/src/lib.rs.                                *)
(*                                                                         *)
(* main() is one thread.  It walks the SIMD entries of the manifest in the *)
(* order of their numbers (two passes each on localnet, one on a live      *)
(* network), then the end-to-end checks in the order of their ids, and     *)
(* pushes results onto one report.  Every call that leaves the process     *)
(* (surfnet, RPC, file, test body) is one action whose answer is chosen    *)
(* nondeterministically.  A `?` in main() is Abort: the process ends and   *)
(* the report is never written.                                            *)
(***************************************************************************)
EXTENDS Integers, Sequences

CONSTANTS
    Simds,          \* the numbers of the manifest's SIMD entries
    Checks,         \* the ranks of the ids of the manifest's e2e checks
    LiveNetworks,   \* the values of --network other than "localnet"
    Registered,     \* the SIMDs that all_simd_tests() implements
    Programs,       \* the registered tests whose program() is Some
    Deployed,       \* <<network, simd>>: the manifest names a program address
    Activated,      \* <<network, simd>>: the manifest has an activation epoch
    E2eRegistered,  \* the checks whose test all_e2e_tests() implements
    Unresolved,     \* the checks that name an unknown feature gate
    E2eOutcomes     \* what an e2e test body may return ("err" is Err(_))

ASSUME SimdsAssumption == Simds \subseteq Nat
ASSUME ChecksAssumption == Checks \subseteq Nat
ASSUME NetworksAssumption == "localnet" \notin LiveNetworks
ASSUME RegistryAssumption == Programs \subseteq Registered
\* deployment_for and is_activated_on know no localnet (manifest.rs:102, 130).
ASSUME ManifestAssumption ==
    Deployed \cup Activated \subseteq LiveNetworks \X Simds
ASSUME OutcomesAssumption == E2eOutcomes \subseteq {"pass", "fail", "skip", "err"}

VARIABLES
    network,      \* cli.network
    runPending,   \* cli.run_pending
    entries,      \* the SIMDs that match --filter
    e2eEntries,   \* the e2e checks that match --filter
    todo,         \* the SIMDs the loop over entries has not reached
    e2eTodo,      \* the checks the loop over e2e_entries has not reached
    cur,          \* the label of the result being produced
    pc,           \* the next step of main()
    handle,       \* the label surfnet_handle was started for
    live,         \* the labels whose surfnet thread is running
    detected,     \* the activation read before the test body runs
    unmet,        \* the checks whose requirements were found unmet
    results,      \* the results pushed so far
    delivered,    \* the report was printed or written to its file
    exit          \* how the process ended

vars == <<network, runPending, entries, e2eEntries, todo, e2eTodo, cur, pc,
          handle, live, detected, unmet, results, delivered, exit>>
inputs == <<network, runPending, entries, e2eEntries>>

-----------------------------------------------------------------------------
(* Labels, results and the order of the report.                            *)

Label(kind, id, pass) == [kind |-> kind, id |-> id, pass |-> pass]
NoLabel == Label("none", 0, "none")
Passes == {"deactivated", "activated", "live", "none"}
Labels == [kind : {"simd", "e2e"}, id : Simds \cup Checks, pass : Passes]

\* The label a result is pushed under comes before every later one.
Before(a, b) ==
    \/ a.kind = "simd" /\ b.kind = "e2e"
    \/ a.kind = b.kind /\ a.id < b.id
    \/ /\ a.kind = b.kind /\ a.id = b.id
       /\ a.pass = "deactivated" /\ b.pass = "activated"

\* The labels main() produces for one SIMD, for one check, and for the passes
\* of the current SIMD that are not finished.
SimdLabels(s) ==
    IF s \notin Registered THEN {Label("simd", s, "none")}
    ELSE IF network = "localnet"
         THEN {Label("simd", s, "deactivated"), Label("simd", s, "activated")}
         ELSE {Label("simd", s, "live")}
CheckLabel(c) == Label("e2e", c, "none")
CurrentLabels ==
    IF cur = NoLabel THEN {}
    ELSE IF cur.pass = "deactivated"
         THEN {cur, Label("simd", cur.id, "activated")}
         ELSE {cur}

\* The labels of the whole selection, and those still without a result.
Planned == (UNION {SimdLabels(s) : s \in entries})
             \cup {CheckLabel(c) : c \in e2eEntries}
Outstanding == (UNION {SimdLabels(s) : s \in todo})
                 \cup {CheckLabel(c) : c \in e2eTodo} \cup CurrentLabels

Statuses == {"pass", "fail", "skip", "pending"}
Causes == {"ran", "noImpl", "keypair", "noProgram", "deploy", "notDeployed",
           "gates", "start", "airdrop", "unmet"}
NoActivation == [expected |-> FALSE, known |-> FALSE, detected |-> FALSE]
Activations == [expected : BOOLEAN, known : BOOLEAN, detected : BOOLEAN]
Results == [label : Labels, status : Statuses, cause : Causes,
            sigs : BOOLEAN, activation : Activations]

Result(label, status, cause, sigs, activation) ==
    [label |-> label, status |-> status, cause |-> cause, sigs |-> sigs,
     activation |-> activation]

Fails(rs) == {i \in 1..Len(rs) : rs[i].status = "fail"}

\* Slip: the entries are taken in the order of the HashMap.
IsFirst_Unsorted(x, S) == x \in S

IsFirst(x, S) == x \in S /\ \A y \in S : x <= y

expectActivated ==
    \/ cur.pass = "activated"
    \/ cur.pass = "live" /\ <<network, cur.id>> \in Activated

-----------------------------------------------------------------------------
(* What several steps of main() share.                                     *)

Goto(l) == pc' = l

\* results.push(TestResult::new(label, outcome, None))
Push(label, status, cause) ==
    results' = Append(results, Result(label, status, cause, FALSE, NoActivation))

\* Slips: the handle is dropped, which detaches the thread; the thread is
\* joined before it is told to terminate.
Kill_Dropped ==
    handle' = NoLabel /\ UNCHANGED live
Kill_JoinFirst ==
    handle \notin live /\ handle' = NoLabel /\ UNCHANGED live

\* if let Some(h) = surfnet_handle { h.kill() }: Terminate, then join.
Kill ==
    /\ live' = live \ {handle}
    /\ handle' = NoLabel

\* Slip: `break` for `continue` in the loop over passes.
NextPass_Breaks == cur' = NoLabel /\ Goto("simds")

\* `continue` in the loop over passes, and in the loop over e2e_entries.
NextPass ==
    IF cur.pass = "deactivated"
    THEN cur' = Label("simd", cur.id, "activated") /\ Goto("start")
    ELSE cur' = NoLabel /\ Goto("simds")
NextCheck == cur' = NoLabel /\ Goto("checks")

\* main() returns or panics; the threads of the process end with it.
Stop(code) ==
    /\ exit' = code
    /\ Goto("stopped")
    /\ handle' = NoLabel /\ live' = {}
    /\ UNCHANGED <<inputs, todo, e2eTodo, cur, detected, unmet, results>>
Abort == Stop("failure") /\ UNCHANGED delivered

-----------------------------------------------------------------------------
Init ==
    /\ network \in LiveNetworks \cup {"localnet"}
    /\ runPending \in BOOLEAN
    /\ entries \in SUBSET Simds /\ todo = entries
    /\ e2eEntries \in SUBSET Checks /\ e2eTodo = e2eEntries
    /\ cur = NoLabel /\ handle = NoLabel /\ live = {}
    /\ pc = "startup"
    /\ detected = FALSE
    /\ unmet = {}
    /\ results = <<>>
    /\ delivered = FALSE
    /\ exit = "running"

\* Manifest::load and resolve_keypair fail with `?`; an empty selection
\* returns Ok before the keypair is looked at.
Startup ==
    /\ pc = "startup"
    /\ \/ Abort
       \/ entries = {} /\ e2eEntries = {} /\ Stop("success") /\ UNCHANGED delivered
       \/ /\ entries \cup e2eEntries # {}
          /\ Goto("simds")
          /\ UNCHANGED <<inputs, todo, e2eTodo, cur, handle, live, detected,
                         unmet, results, delivered, exit>>
-----------------------------------------------------------------------------
(* for (id, config) in &entries, and for each of its passes                *)

TakeSimd(s) ==
    /\ pc = "simds" /\ IsFirst(s, todo)
    /\ todo' = todo \ {s}
    /\ IF s \notin Registered
       THEN /\ Push(Label("simd", s, "none"), "skip", "noImpl")
            /\ UNCHANGED <<cur, pc>>
       ELSE /\ IF network = "localnet"
               THEN cur' = Label("simd", s, "deactivated") /\ Goto("start")
               ELSE cur' = Label("simd", s, "live") /\ Goto("program")
            /\ UNCHANGED results
    /\ UNCHANGED <<inputs, e2eTodo, handle, live, detected, unmet, delivered, exit>>

SimdsDone ==
    /\ pc = "simds" /\ todo = {}
    /\ Goto("checks")
    /\ UNCHANGED <<inputs, todo, e2eTodo, cur, handle, live, detected, unmet,
                   results, delivered, exit>>

\* start_surfnet(..).await?
StartSurfnet ==
    /\ pc = "start"
    /\ \/ Abort
       \/ /\ handle' = cur /\ live' = live \cup {cur}
          /\ Goto("airdrop")
          /\ UNCHANGED <<inputs, todo, e2eTodo, cur, detected, unmet, results,
                         delivered, exit>>

\* airdrop(&client, &payer)?
Airdrop ==
    /\ pc = "airdrop"
    /\ \/ Abort
       \/ /\ Goto("program")
          /\ UNCHANGED <<inputs, todo, e2eTodo, cur, handle, live, detected,
                         unmet, results, delivered, exit>>

\* The pass ends early with a result of its own: kill, push, continue.
EndPass(status, cause) ==
    /\ Kill
    /\ Push(cur, status, cause)
    /\ NextPass
    /\ UNCHANGED <<inputs, todo, e2eTodo, detected, unmet, delivered, exit>>

\* The address comes from the manifest, else from the test's keypair file: the
\* pass fails with it, unless the process panics first, in the expect() on a
\* test without a program or in bytes[..32] on a short key (main.rs:100).
ResolveProgram ==
    /\ pc = "program"
    /\ \/ /\ \/ <<network, cur.id>> \in Deployed
             \/ cur.id \in Programs
          /\ Goto("deploy")
          /\ UNCHANGED <<inputs, todo, e2eTodo, cur, handle, live, detected,
                         unmet, results, delivered, exit>>
       \/ /\ <<network, cur.id>> \notin Deployed /\ cur.id \in Programs
          /\ EndPass("fail", "keypair")
       \/ <<network, cur.id>> \notin Deployed /\ Abort

\* deploy_or_skip_program: writes the program on localnet, elsewhere looks
\* whether it is there.
DeployProgram ==
    /\ pc = "deploy"
    /\ \/ cur.id \notin Programs /\ EndPass("fail", "noProgram")
       \/ /\ cur.id \in Programs
          /\ \/ network = "localnet" /\ EndPass("fail", "deploy")
             \/ network # "localnet" /\ EndPass("skip", "notDeployed")
             \/ /\ Goto("detect")
                /\ UNCHANGED <<inputs, todo, e2eTodo, cur, handle, live,
                               detected, unmet, results, delivered, exit>>

\* An RPC error counts as "not activated".
Detect ==
    /\ pc = "detect"
    /\ detected' \in BOOLEAN
    /\ Goto("run")
    /\ UNCHANGED <<inputs, todo, e2eTodo, cur, handle, live, unmet, results,
                   delivered, exit>>

\* test.run_rpc(ctx).await?
RunSimd ==
    /\ pc = "run"
    /\ \/ Abort
       \/ /\ Kill
          /\ \E status \in {"pass", "fail"}, sigs \in BOOLEAN :
                results' = Append(results, Result(cur, status, "ran", sigs,
                    [expected |-> expectActivated, known |-> TRUE,
                     detected |-> detected]))
          /\ NextPass
          /\ UNCHANGED <<inputs, todo, e2eTodo, detected, unmet, delivered, exit>>

-----------------------------------------------------------------------------
(* for (id, config) in &e2e_entries                                        *)

TakeCheck(c) ==
    /\ pc = "checks" /\ IsFirst(c, e2eTodo)
    /\ e2eTodo' = e2eTodo \ {c}
    /\ IF c \in Unresolved
       THEN Push(CheckLabel(c), "fail", "gates") /\ UNCHANGED <<cur, pc>>
       ELSE /\ cur' = CheckLabel(c)
            /\ Goto(IF network = "localnet" THEN "e2eStart" ELSE "requirements")
            /\ UNCHANGED results
    /\ UNCHANGED <<inputs, todo, handle, live, detected, unmet, delivered, exit>>

ChecksDone ==
    /\ pc = "checks" /\ e2eTodo = {}
    /\ Goto("output")
    /\ UNCHANGED <<inputs, todo, e2eTodo, cur, handle, live, detected, unmet,
                   results, delivered, exit>>

\* Slips: `?` instead of a result of the check, as in the loop over entries.
E2eStartSurfnet_Propagates ==
    /\ pc = "e2eStart"
    /\ \/ Abort
       \/ /\ live' = live \cup {cur} /\ handle' = cur
          /\ Goto("e2eAirdrop")
          /\ UNCHANGED <<inputs, todo, e2eTodo, cur, detected, unmet, results,
                         delivered, exit>>
E2eAirdrop_Propagates ==
    /\ pc = "e2eAirdrop"
    /\ \/ Abort
       \/ /\ Goto("requirements")
          /\ UNCHANGED <<inputs, todo, e2eTodo, cur, handle, live, detected,
                         unmet, results, delivered, exit>>

\* A surfnet that aborts during its start leaves its thread to itself.
E2eStartSurfnet ==
    /\ pc = "e2eStart"
    /\ live' \in {live, live \cup {cur}}
    /\ \/ Push(cur, "fail", "start") /\ NextCheck /\ UNCHANGED handle
       \/ /\ live' = live \cup {cur} /\ handle' = cur
          /\ Goto("e2eAirdrop")
          /\ UNCHANGED <<cur, results>>
    /\ UNCHANGED <<inputs, todo, e2eTodo, detected, unmet, delivered, exit>>

\* The check ends with a result: kill, push, continue.
EndCheck(status, cause) ==
    /\ Kill
    /\ Push(cur, status, cause)
    /\ NextCheck
    /\ UNCHANGED <<inputs, todo, e2eTodo, detected, delivered, exit>>

E2eAirdrop ==
    /\ pc = "e2eAirdrop"
    /\ \/ EndCheck("fail", "airdrop")
       \/ /\ Goto("requirements")
          /\ UNCHANGED <<inputs, todo, e2eTodo, cur, handle, live, detected,
                         results, delivered, exit>>
    /\ UNCHANGED unmet

\* RequirementChecker::check fails only when a gate does not resolve, and
\* TakeCheck has resolved them all: its Err arm (380-390) is never taken.
CheckRequirements ==
    /\ pc = "requirements"
    /\ unmet' \in {unmet, unmet \cup {cur.id}}
    /\ IF cur.id \in unmet' /\ ~runPending
       THEN EndCheck("pending", "unmet")
       ELSE /\ Goto("e2eRun")
            /\ UNCHANGED <<inputs, todo, e2eTodo, cur, handle, live, detected,
                           results, delivered, exit>>

\* Slips: no demotion; an Err(_) that is reported as it is.
Reported_NotDemoted(outcome) == IF outcome = "err" THEN "fail" ELSE outcome
Reported_RawError(outcome) == IF cur.id \in unmet THEN "pending" ELSE outcome

\* What a finished test body is reported as.
Reported(outcome) ==
    IF cur.id \in unmet THEN "pending"
    ELSE IF outcome = "err" THEN "fail" ELSE outcome

\* The lookup of the test, the test body, and the demotion to PENDING.
RunCheck ==
    /\ pc = "e2eRun"
    /\ \/ cur.id \notin E2eRegistered /\ EndCheck("skip", "noImpl")
       \/ /\ cur.id \in E2eRegistered
          /\ Kill
          /\ \E outcome \in E2eOutcomes, sigs \in BOOLEAN :
                /\ outcome \in {"skip", "err"} => ~sigs
                /\ results' = Append(results,
                     Result(cur, Reported(outcome), "ran", sigs, NoActivation))
          /\ NextCheck
          /\ UNCHANGED <<inputs, todo, e2eTodo, detected, delivered, exit>>
    /\ UNCHANGED unmet

-----------------------------------------------------------------------------
(* The report, and the environment.                                        *)

\* Slip: the failures of the e2e checks do not count.
ExitCode_SimdsOnly ==
    IF \E i \in Fails(results) : results[i].label.kind = "simd"
    THEN "failure" ELSE "success"

ExitCode == IF Fails(results) # {} THEN "failure" ELSE "success"

\* Serializing or writing the report may fail with `?`.
Output ==
    /\ pc = "output"
    /\ \/ Abort
       \/ delivered' = TRUE /\ Stop(ExitCode)

\* A surfnet's thread may end by itself; kill() then ignores the failed send.
SurfnetEnds(s) ==
    /\ s \in live
    /\ live' = live \ {s}
    /\ UNCHANGED <<inputs, todo, e2eTodo, cur, pc, handle, detected, unmet,
                   results, delivered, exit>>

Main ==
    \/ Startup
    \/ \E s \in todo : TakeSimd(s)
    \/ SimdsDone \/ StartSurfnet \/ Airdrop \/ ResolveProgram
    \/ DeployProgram \/ Detect \/ RunSimd
    \/ \E c \in e2eTodo : TakeCheck(c)
    \/ ChecksDone \/ E2eStartSurfnet \/ E2eAirdrop \/ CheckRequirements
    \/ RunCheck \/ Output

Next == Main \/ \E s \in live : SurfnetEnds(s)

\* main() keeps running as long as the calls it makes return.
Spec == Init /\ [][Next]_vars /\ WF_vars(Main)
-----------------------------------------------------------------------------
(* Properties.                                                             *)

Pcs == {"startup", "simds", "start", "airdrop", "program", "deploy", "detect",
        "run", "checks", "e2eStart", "e2eAirdrop", "requirements", "e2eRun",
        "output", "stopped"}
SimdPcs == {"start", "airdrop", "program", "deploy", "detect", "run"}
CheckPcs == {"e2eStart", "e2eAirdrop", "requirements", "e2eRun"}
\* The steps that use the runtime of the current label.
RuntimePcs == (SimdPcs \cup CheckPcs) \ {"start", "e2eStart"}

\* The variables keep their types.
TypeOK ==
    /\ network \in LiveNetworks \cup {"localnet"}
    /\ runPending \in BOOLEAN
    /\ entries \subseteq Simds /\ todo \subseteq entries
    /\ e2eEntries \subseteq Checks /\ e2eTodo \subseteq e2eEntries
    /\ cur \in Labels \cup {NoLabel}
    /\ handle \in Labels \cup {NoLabel}
    /\ live \subseteq Labels
    /\ pc \in Pcs
    /\ detected \in BOOLEAN
    /\ unmet \subseteq Checks
    /\ results \in Seq(Results)
    /\ delivered \in BOOLEAN
    /\ exit \in {"running", "success", "failure"}

\* The report lists its results by SIMD number, deactivated before activated,
\* and then by check, whatever the HashMap of the manifest iterates in
\* (main.rs:151, 164), and no label twice.
ReportInOrder ==
    \A i, j \in 1..Len(results) :
        i < j => Before(results[i].label, results[j].label)

\* Every `continue` of main() leaves exactly one result for the label it
\* gives up: while the run goes on, each selected label has its result or is
\* still to be produced, never both, and a delivered report has them all.
NothingLost ==
    LET done == {results[i].label : i \in 1..Len(results)} IN
    /\ exit = "running" => /\ done \cup Outstanding = Planned
                           /\ done \cap Outstanding = {}
    /\ delivered => done = Planned

\* On localnet a pass or check runs on a surfnet started for it alone: the
\* runtime in use belongs to the current label, and whatever other surfnet
\* still runs was abandoned by a start that failed and was reported so.
SurfnetPerPass ==
    /\ handle # NoLabel => handle = cur
    /\ pc \in RuntimePcs => (network = "localnet") = (handle # NoLabel)
    /\ \A s \in live : \/ s = handle
                        \/ \E i \in 1..Len(results) :
                              results[i].label = s /\ results[i].cause = "start"

\* A check whose requirements were unmet is never reported as passed or
\* failed, with --run-pending or without (main.rs:393, 441); its body runs
\* only with the flag; and PENDING is reported of no other check. SKIP is
\* allowed beside PENDING: with the flag, a check without an implementation is
\* skipped before it can be demoted (main.rs:406-418), as README.md:115 has
\* it, though README.md:180 calls a check with an unmet requirement PENDING.
UnmetNeverJudged ==
    \A i \in 1..Len(results) :
        LET r == results[i] IN
        /\ r.label.kind = "e2e" /\ r.label.id \in unmet =>
              /\ r.status \in {"pending", "skip"}
              /\ r.cause = "ran" \/ r.status = "skip" => runPending
        /\ r.status = "pending" => r.label.id \in unmet

\* The process exits 0 only with a delivered report that holds no failure (or
\* with nothing selected), and not 0 only if a result failed or the report
\* was lost (main.rs:537).
ExitIsVerdict ==
    /\ exit = "success" => /\ Fails(results) = {}
                           /\ delivered \/ Planned = {}
    /\ exit = "failure" /\ delivered => Fails(results) # {}

\* Whatever happens to one e2e check stays with it: no step of a check ends
\* the run, and none touches a result pushed before.
E2eIsolation ==
    [][(pc \in CheckPcs =>
         /\ exit' = "running"
         /\ SubSeq(results', 1, Len(results)) = results)]_vars

\* As long as the calls of main() return, the process ends.
Termination == <>(exit # "running")

\* The runner implements Campaign.
Promise == INSTANCE Campaign WITH
    Plans <- SUBSET Labels,
    plan <- Outstanding,
    verdicts <- [i \in DOMAIN results |->
                   [label |-> results[i].label, status |-> results[i].status]],
    ended <- exit
ImplementsCampaign == Promise!Spec

=============================================================================
