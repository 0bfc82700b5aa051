# A verification project for simd-checker

`simd-checker` checks that Solana runtimes behave as the SIMDs (Solana
Improvement Documents) they activate demand. A command-line runner walks a
manifest, starts local runtimes ("surfnets") or talks to live networks, runs
the host-side tests and their on-chain programs, and writes a report whose
failures decide the exit status. This directory holds TLA+ models of that
program, the TLC configurations that check them, and proofs for TLAPS.

All line numbers refer to the repository's sources, with paths relative to its
root.

## Inventory

| Component | Source | State | Operations | What is hard |
| --- | --- | --- | --- | --- |
| CLI runner | `crates/cli/src/main.rs` | selection, results, surfnet handle | two loops, report, exit status | any of a dozen calls may fail at any point; `?` in one loop, results in the other |
| Feature dependency collection | `crates/test-common/src/lib.rs:26-64` | visited set, collected gates | two recursive collectors | cycles, diamonds, dangling ids, shared gates |
| Surfnet lifecycle | `lib.rs:66-205` | thread, command and event channels, ports | start, kill | blocking receive and join, ports picked before they are bound |
| Outcomes and report | `lib.rs:207-385` | results and their summary | `TestResult::new`, `TestReport::new`, `any_fail` | demotion of outcomes, one exit status for all |
| RPC context, SIMD test trait | `lib.rs:392-454` | none | `deploy_or_skip_program`, `detect_feature_activated` | an RPC error reads as "not activated" |
| Manifest | `manifest.rs` | the parsed file | queries for gates, deployments, activations | unknown networks and dangling ids answer silently |
| Requirement checker | `requirements.rs` | list of unmet requirements | `check`, gate and program reads | reads are not atomic, the chain moves |
| Program key files | `crates/cli/src/main.rs:96-118` | the key file | `load_or_generate_program_keypair` | crash in the middle of a write, two runs on one file |
| Deployment to a surfnet | `surfpool.rs` | none | chunked writes | partial deployment, a `.so` that is rebuilt meanwhile |
| On-chain programs | `programs/*`, `crates/program-common` | none | `process_instruction` | the gate is read again when the transaction executes |
| Tests of SIMD 0153, 0194 | `crates/tests/src/simd_0153.rs`, `simd_0194.rs` | one pass | `run_rpc` | the gate is read at several moments |
| Test of SIMD 0266 | `simd_0266.rs` | measurements, signatures | `run_rpc`, `send_instructions` | unchecked setup, the token program is swapped while it is measured |
| Test registry | `crates/tests/src/lib.rs` | none | `all_simd_tests`, `all_e2e_tests` | - |
| Token operations | `e2e/token_ops.rs` | none | `send_ixs` and what is built on it | polling against a deadline, dropped forks |
| Confidential transfers | `e2e/confidential_transfers.rs` | accounts on chain | some thirty dependent transactions | reads behind the writes, no cleanup when a step fails |
| Runbooks, build files, `util.rs` | `runbooks/`, `justfile` | - | - | not part of the checker's behaviour |

How they interact: the runner asks the collectors for gates, starts a surfnet
with them (a thread it talks to over two channels), deploys or looks up the
test's program, reads the gate, and calls the test body, which sends
transactions to the on-chain program. For e2e checks it asks the requirement
checker before the body. Nothing but the manifest, the key files, the programs' `.so` files and the chain
is shared between two passes, or between two runs. The runner itself is one thread; the concurrency
is with surfnet threads, with other processes on the machine, and with the
chain, which moves while the program reads it.

## Modules

| Module | Models | State and actions |
| --- | --- | --- |
| `Campaign` | what a run promises: one verdict per selected label, in report order | `plan`, `verdicts`, `ended`; `Judge`, `Abort`, `Finish` |
| `Runner` | `main()` with handle, outcomes and report | `pc` is the next call of `main()`, `handle` the `surfnet_handle` in scope, `live` the surfnet threads, `results` the report; one action per call that leaves the process |
| `RunnerProofs` | proofs about the types, the surfnet handle, the report and the exit status of `Runner`, and the refinement of `Campaign` | |
| `FeatureDeps` | the two collectors | `work` is the recursion's open loops as one sequence; `Seen` is the early return, `Visit` the rest |
| `FeatureDepsProofs` | proofs about `FeatureDeps` | |
| `SurfnetStart` | `start_surfnet_inner`, `find_available_port`, `kill` | `events`/`terminate` are the two channels, `owner` the sockets of the machine, `thread` the surfnet threads |
| `SurfnetStartProofs` | proofs about `SurfnetStart` | |
| `Requirements` | `RequirementChecker::check` | one action per RPC read; the chain's changes are actions of their own |
| `RequirementsProofs` | proofs about `Requirements` | |
| `GateCheck` | `run_rpc` of 0153 and 0194, their programs, the runner's reading of the gate | one action per RPC of the host, `Execute` for the program |
| `PToken` | `run_rpc` of 0266 and its program | one action per simulation, `SendBatch` for the transaction |
| `PTokenProofs` | proofs about the types of `PToken`, its Pass, the token programs under it and its exactness | |
| `SendConfirm` | `send_ixs` and `send_instructions` | one action per read of a status, forks and lagging nodes as actions and answers of the network |
| `HostProofs` | proofs about `SendConfirm` and `GateCheck`: what a test does on its host | |
| `ConfidentialFlow` | `run` and `run_inner` of the confidential transfers test on the operations of `token_ops.rs` | `Flow` is the line of steps, `step` the position in it; `Send`, `Poll`, `GiveUp` are `send_ixs`, one action per kind of read; `processed` and `confirmed` are the chain at its two ends |
| `ConfidentialFlowProofs` | proofs about `ConfidentialFlow` | |
| `ProgramDeploy` | `load_or_generate_program_keypair`, `deploy_or_skip_program`, `deploy_program_surfpool`, over several runs | `keyFile` and `so` are the two files, `image` what a run has read of the `.so`, `program` what the surfnet holds; one action per access to the key file, per byte read of the `.so` and per chunk, `Crash`, and `Build` for the builder |
| `ProgramDeployProofs` | proofs about the key file and the deployment in `ProgramDeploy` | |

`Runner` treats a test body as one step with any outcome it may return;
`GateCheck`, `PToken` and `ConfidentialFlow` are these bodies, `Requirements`
its requirement step, `ProgramDeploy` its program and deploy steps,
`SurfnetStart` its start and kill steps, `FeatureDeps` what it passes to them.
The modules whose names begin with `MC` hold the values for TLC.

Operators whose comment begins with "Slip" are plausible faulty forms of the
definition that follows them. No specification uses them; each shows that a
property is sensitive to the code it is about.

### Abstractions

* Labels are records (kind, rank, pass); SIMD ids and check ids are represented
  by their position in the order they are sorted by. Messages, signatures
  (beyond whether there are any) and log output are left out.
* A surfnet in `Runner` is the label it was started for. `kill` is one step
  there (the caller does nothing in between); `SurfnetStart` takes it apart.
* The `Err` arm of the requirement check (main.rs:380-390) is not in `Runner`:
  `check` fails only if a gate does not resolve, and main.rs:325 has resolved
  the same gates.
* `SimdTest::program` may be `None` in the model (the trait's default), though
  each registered test has one: this is the path to the `expect` at main.rs:289
  and to the "No program binary" failure.
* The bodies of the SIMD tests return pass, fail or an error (what the three
  registered ones do); those of e2e checks whatever `E2eOutcomes` allows.
* A gate's account is absent, pending or active; a program's code is its hash.
* In `GateCheck`, `effect` is what the runtime does about the feature: nothing,
  all of it, or something in between that satisfies neither branch of the
  program.
* In `ConfidentialFlow` an encrypted balance is the amount in it, and a proof is
  the pair of balances it was made for; it holds for those alone. A transaction
  is its step, which is sent once. A wrong runtime rejects one kind of
  instruction, or reports success and does nothing. Keys, rent and the transfer
  amount the auditor decrypts (from the instruction the test itself has sent)
  are left out. Both range proofs take two chunks, as in the code (1.4 KB and
  936 bytes against 900).
* In `ProgramDeploy` a new key is named by its run and pass; a key file without
  a key is absent, not text, empty, garbled or too short, which are the cases the
  code tells apart. Bytes of a `.so` are model values, a chunk is two of them. The
  builder empties the file and writes it byte by byte, and `fs::read` takes it byte
  by byte up to the end it finds, in any interleaving of the two.
* In `PToken`, `broken` says for which instructions the setup did not land, and
  compute units are drawn from sets of typical and boundary values. `cpi.told` says
  whether the second read of the batch's status found one.

## Runs

Every constant and bound is in the `.cfg` and its MC module.

| Run | Instance | Shows |
| --- | --- | --- |
| `runner` | 3 SIMDs (two registered, one with a program), 3 checks (one registered, one with an unresolved gate), localnet and testnet, all selections, both values of `--run-pending`; 342,628 states | `ReportInOrder`, `NothingLost`: the report is sorted, without duplicates, and each selected label has its result or is still to come. `SurfnetPerPass`: no surfnet survives its pass, except one whose start failed. `UnmetNeverJudged`, `ExitIsVerdict`, `E2eIsolation`, `Termination`, and `ImplementsCampaign` (refinement) |
| `feature_deps` | every graph on three ids with lists of at most two entries, all ids known or one dangling, gates all different or one shared; 201,402 states | what the collectors return is exactly the set of gates of the transitive dependencies; the SIMD's own gate stays out of the deactivated pass unless a dependency shares it (`OwnGateExcluded`); the recursion ends |
| `requirements` | a gate, a program pinned to a hash and one that is not, each unusable, fixed, upgradeable or closed at first; at most three changes of the chain during the check | nothing is let through that was never met and nothing is named without a reason (`VerdictHasReason`), active gates stay so, and the check is exact on a quiet chain |
| `gate_check` | both tests, every initial state of gate and runtime, one activation | a Pass was earned by the on-chain program on the gate it saw and the reported activation matches it unless something moved or failed (`PassIsEarned`), and the verdict is exact on a quiet network |
| `surfnet_start` | two starts, two ports per surfnet out of three on the machine, two waiting events | a handle serves its own ports, nothing is left behind except after an abort, start and kill return |
| `send_confirm` | one transaction, two dropped forks | a reported result was seen, and that of `send_instructions` stands |
| `p_token` | three pinned instructions, two optional ones (one of them Batch), either answer to the second read of the batch's status, costs at 0, 89, 90, 110, 111, 1000 and 1001 against an expected 100 | a Pass is earned (in the activated branch only if the status of the batch was there to be read), never mixes the two token programs, and is exact on a quiet network; 107,540 states |
| `confidential_flow` | the flow on a right runtime and on twenty-eight wrong ones (each instruction of the flow rejected, or ignored); two executed transactions may wait for confirmation, one fork is dropped, every request may fail; 303,938 states | `PassIsEarned`: what a Pass says holds of the confirmed chain, and no runtime passes that rejects or ignores an instruction, except one that ignores a closing. `RentReclaimed`: proof accounts of a finished part are gone, only the part that failed leaves any. `EvidenceKept`: every transaction that succeeded is reported, but the one given up on and the earlier ones of the record being written. `ExactWhenQuiet`, `Termination` |
| `program_deploy` | two runs of two passes, two images (two chunks with a partial one, one whole chunk), every initial content of the key file, crashes at any point, the `.so` rebuilt while it is read; 8,029,299 states | `OneImage`: a body runs on all that was read of the `.so`, never on a part of it, though chunks fail; what was read is the file as it was at one moment (it may lie within a build: the `.so` may be empty, and is then deployed with no write at all), unless a build rewrote it under the reading, when every byte at least was there once, in its place. `OneIdentity`: a run makes at most one key of its own (two that race may each go on under the other's) and a text in the key file is never replaced. `KeySaved`: the key in use is the one in the file, unless two runs raced |

Why the bounds are enough: in `runner` two registered SIMDs give two passes
that follow one another and one SIMD without a test; the checks cover one that
is registered, one that is not and one that does not resolve, in every
combination; no action relates more than two labels. Three ids give every shape
of cycle, diamond and dangling id that two lists can build. Three changes of the
chain are enough for each requirement to change between any two reads; two
starts show what one leaves to the next; two dropped forks let a transaction
fail on one fork, succeed on another and be dropped again. In
`confidential_flow` two waiting transactions let a read miss the one before it
and the one before that; a dropped fork puts both back, in either order. In
`program_deploy` a second pass meets what the first pass of either run left, and
two runs are what it takes to write over each other; the builder makes each
image at most once.

### Disagreements between documents and code

Three runs check what a document, a comment or a message says and find it
violated.

| Run | What is said | What the code does |
| --- | --- | --- |
| `fail_means_broken` | README.md:113: FAIL is "All requirements met, behavior is broken" | `send_ixs` returns on a processed transaction, the next read asks for the confirmed state: the transfer's proof is made from an account whose pending balance is not applied there yet, which fails the test on a right runtime |
| `rejected_while_deactivated` | simd_0266.rs:1016: the batch was "rejected while deactivated as expected" | any failure is taken for that rejection, also that of a program that saw the gate active |
| `rejected_while_activated` | simd_0266.rs:952: a batch rejected with the gate active is the Fail "Batch CPI transaction failed while activated" | `send_instructions` reads the status a second time and takes none for success (:256): asked of a node that is behind, a rejected batch goes on to the verdict and can end in a Pass. `PassIsEarned` leaves this branch out |

Three more were met while modelling and have no run of their own.

* lib.rs:34-35: `collect_dependency_features` excludes "`simd_id`'s own feature
  pubkey". It marks the id as visited, not the gate: a dependency that shares the
  gate pushes it, and the deactivated pass asks its surfnet to enable and to disable
  it. `OwnGateExcluded` makes an exception of it, without which `feature_deps`
  violates it. In the manifest of this commit only 0173 and 0174 share a gate, and
  neither depends on the other.
* main.rs:102: a short key file is the error "expected at least 32 bytes".
  `bytes[..32]` (:100) panics first and takes the results of the run with it: the
  step to "panicked" in `ReadKey`, an `Abort` in `Runner`.
* README.md:180: any unmet requirement makes a check PENDING. With `--run-pending`
  one without an implementation is SKIP (main.rs:406-418, as README.md:115 has it),
  which `UnmetNeverJudged` allows.

### Fairness and deadlock

`Runner` has weak fairness of `Main`: `main()` goes on as long as its calls
return. `FeatureDeps` is sequential: weak fairness of `Next`. `SurfnetStart` has
weak fairness of the caller's blocked calls and of a surfnet's obedience to
Terminate, without which the join in `kill` need not return; it does not assume
that a starting surfnet ever says anything, so `CallsReturn` is about surfnets
that do. `ConfidentialFlow` has weak fairness of the steps of the test
(its loop polls every half second until its deadline), not of the network and
not of failing requests: the test ends though nothing is ever executed. The other
modules are checked for safety only. Deadlock checking
is off because every one of these programs stops.

## Proofs

The theorems hold for all values of the constants that satisfy the named
assumptions of the modules they are about. Each property is seldom inductive as
it stands; what its invariant adds, and why, is said below.

`RunnerProofs`
: `TypeCorrect`: `TypeOK` is invariant. It is not inductive alone: that the label
  an action pushes is a real one, and that a SIMD step is not run on the label of
  a check, is a fact about where the program is. `TypeInv` adds `CurTyped`: `cur`
  is a pass in the pcs of `SimdPcs`, a check in those of `CheckPcs`, and
  `NoLabel` in the others.
: `SurfnetPerPassHolds`: `SurfnetPerPass` is invariant. `HandleInv` strengthens
  it: outside of the steps that use a runtime there is no handle, and the pcs
  that start a surfnet, and a second pass, belong to localnet. The proof has one
  lemma per way a pass goes on: its end with a result (`EndOfPassHandle`,
  `EndOfCheckHandle`: the kill is there on every early exit), the end of the
  program (`StopHandle`) and a step that stays in the pass (`MoveHandle`).
  `Abandoned` is stable because results are only appended (`AbandonedKept`).
  The proof uses the assumptions on the constants only; nothing depends on which
  calls fail.
: For the report, one lemma, `StepProgress`, says what any step of `Runner` does
  to it: it judges the first label that has no result (`Judged`), leaves the report and
  what is still to come alone (`Quiet`), or ends the run (`Ending`). It needs
  `LoopInv`, which says where `main()` is in its two loops: the label in work comes
  before all that the loop has not reached, checks come after SIMDs, only the
  output delivers. The rest follows from these three kinds of step, without
  looking at an action again. `ReportSorted`, `NothingIsLost` and `ExitStatus`
  (`ReportInOrder`, `NothingLost`, `ExitIsVerdict`) come from `ReportInv`: the
  report and what is still to come make up the plan, and every result comes
  before everything that is still to come, so no label is judged twice.
  `ChecksAreIsolated` (`E2eIsolation`) adds that no step of a check stops `main()`.
  `ImplementsCampaignSafety` maps `Judged` to `Judge`, `Ending` to `Abort` or
  `Finish`, and `Quiet` to a stutter; Campaign's fairness stays with TLC.
  `UnmetIsPending` (`UnmetNeverJudged`) adds `UnmetLoop`: a check is found unmet
  only after the loop has taken it and before it has a result, and its body runs
  then only with the flag. `OutcomesAssumption` (no body returns "pending") and
  the assumptions that order SIMDs and checks are used.
: `RunAdvances` is the safety half of `Termination`. Every step of `main()` goes to a
  later stage (startup, SIMDs, checks, output, stopped; `Stage`), takes a SIMD or a
  check out of the selection, or has fewer calls left of the passes of the current
  label (`Left`: a deactivated pass has the six calls of the activated one before it,
  which is why its `continue` advances too), and nothing follows the end. The
  selection comes from a file and is finite, so `main()` ends once its calls return.
  Beside it only a surfnet's own thread moves. It needs the invariant `LoopInv`.

`FeatureDepsProofs`
: The inductive invariant `IInv` has five parts: the types; every dependency of a
  visited SIMD is visited or waiting (`NoDependencyForgotten`); visited and
  waiting SIMDs are reachable; the SIMD asked about is visited when its own gate
  is to be left out; the collected pubkeys are exactly the gates of the SIMDs
  collected. From it: `TypeCorrect`, `NothingForgotten`, `Soundness` (only gates
  of transitive dependencies), `OwnGateStaysOff` (which needs that no dependency
  shares the SIMD's gate), and `Exactness`, which leaves the own gate in the
  deactivated pass to it: when the
  worklist is empty the visited set is closed under dependencies, so it contains
  the least closed set, and Soundness is the other inclusion. Reachability is
  defined as that least closed set, which is what lets the argument do without
  induction on paths. The dependency graph is arbitrary, cyclic ones included.
: `CollectedOnce`: a list has exactly as many gates as known ids were visited,
  however many paths lead to one. `WalkAdvances` is the safety half of `Termination`:
  every call marks one more of the ids the SIMD depends on, or leaves fewer calls to
  make, which on finitely many ids cannot go on for ever.

`ProgramDeployProofs`
: `IdentityKept` and `KeyInUseSaved`: `OneIdentity` and `KeySaved` are invariant,
  for any number of runs and passes, with a crash or a failed write at any point.
  Neither is inductive: that a run makes no second key depends on what the file
  may hold when it looks. `IInv` says so. A text that was there at the beginning
  is still there and nobody is making a key (`TextKept`); otherwise the file can
  be read from the first truncation on (`Readable`), so that a run that finds
  none to read is one of the first. A run that makes a key has made none before,
  and what it writes over is its own truncation unless another run has begun to
  write (`Makers`). Keys belong to runs that wrote, one to each (`Made`), and a
  key in use is in the file or another run has begun to write (`InUse`). Two
  lemmas carry most steps: `QuietStep` for those that leave the file alone and
  send nobody to make a key, `FailedWriteInv` for a write or a crash that leaves a
  part of a key. `KeyAssumption` is needed: what stands for a file without a key
  is told apart from keys.
: `TypeCorrect` and `WholeImageRuns` (`TypeOK`, `OneImage`) come from a second
  invariant on top of the first: what the `.so` held is remembered (`Files`); a run
  begins a pass with nothing deployed, between two chunks holds the first
  `next * ChunkSize` bytes of what it has read, and has all of it when its
  body runs (`Progress`); only a run with passes left goes on (`Counted`). What is
  being read is the beginning of the file, unless a build came in between
  (`Reading`), and each byte of it has been in its place (`Placed`): this is all that
  remains of a reading that a build came into. The
  arithmetic is in two lemmas about chunks: `ChunkExtends`, that a chunk written
  behind the beginning of an image makes a longer beginning, the last partial
  chunk included, and `WholeImage`. `ChunkSizeAssumption`, `ImagesAssumption` and
  `PassesAssumption` are used; the images and the chunk size are arbitrary.

`RequirementsProofs`
: `TypeCorrect`, `VerdictIsReasoned` and `GatesAreStable` (`TypeOK`,
  `VerdictHasReason`, `GatesStayMet`) come from one invariant: each requirement is
  still to be checked, named, or was met at some moment (`Considered`); what is
  named was unmet or a read of it failed (`Reasoned`); between the two reads of an
  upgradeable program it is still upgradeable, whatever happens to its code
  (`Followed`), because only an upgradeable program can be closed (`Solid`).
  `Followed` is the heart of it: the second read is of an address that the first
  one found. `ExactOnQuietChain` (`ExactWhenQuiet`) adds `UpToDate`: while nothing
  changes and no read fails, what has been read is still so.
  `DisjointAssumption`, `RequiredAssumption`, `HashesAssumption` and
  `MaxChangesAssumption` are used.

`SurfnetStartProofs`
: `TypeCorrect`, `HandleIsServed` and `NothingLeftBehind` (`TypeOK`,
  `HandleServes`, `NoneLeftBehind`). The caller, the channel and the thread have
  to be kept in step: a start is begun before it has a thread, and its thread
  before its sockets (`Begun`); what the caller waits for, and what the event in
  the channel says of the thread that sent it (`Told`); a thread that serves holds
  all its ports (`Bound`), which is what makes `Ready` a promise though the ports
  were let go after they were found; a thread without a caller is one that was
  reported as aborted (`Abandoned`). `NumPortsAssumption` and `BoundsAssumption`
  are used; the number of ports, starts and events is arbitrary.
: `NothingIsMissed` is the safety half of `CallsReturn`. `NothingMissed` (what `recv()`
  and `join()` block on is there or on its way) is not inductive: that an event is in the
  channel says nothing of what is left when the loop skips it. `Announced` adds that a
  surfnet that came up or gave up has said so, and that what it said is still in the
  channel while the caller reads, because the loop returns on exactly those events.

`HostProofs`
: `TypeCorrect` and `VerdictHolds` (`TypeOK`, `VerdictIsTrue`) of `SendConfirm`, for any
  number of dropped forks. `IInv` adds that a transaction in a fork has a result it had
  when it was executed (`Remembered`), and that `send_instructions` reads only the
  status of a confirmed transaction, which no fork takes back (`Settled`).
: `GateTypeCorrect`, `GatePassEarned` and `GateExact` (`TypeOK`, `PassIsEarned`,
  `ExactWhenQuiet`) of `GateCheck`, which the module instantiates on variables of its
  own as `G`. `GateCheck` has no constants, so the run covers it too; the proof says
  why its verdict is right. `Placed`: the test goes on from its transaction only when that was
  accepted. `Between`: a gate is off before it is on, so what the program saw lies
  between what the runner saw and what the gate is now; this orders the three
  readings of the gate, which no one takes together. `Judged`: the program accepts only
  the bit that is the gate, and a runtime that does as the gate says. `UpToDate`: while
  nothing moves or fails, all that was read is still so. TLC checked this invariant
  on `GateCheck` before it was proved.

`PTokenProofs`
: `TypeCorrect` and `PassEarned` (`TypeOK`, `PassIsEarned`), for any lists of
  instructions and any compute units. Nothing looks at the setup transactions;
  that a Pass nevertheless had its accounts is because a simulation that fails
  ends the pass: from the setup on, every pinned instruction was measured on
  accounts that landed or is still in the list (`Measured`). `Answered` says that
  the verdict is reached only with the chain's answer to the batch, which the
  program gave after comparing the bit with the gate, or in the activated branch
  with no status at all.
  `NamedAssumption` and `CusAssumption` are used.
: `OneRuntimeJudged` and `ExactOnQuietNetwork` (`OneRuntime`, `ExactWhenQuiet`)
  come from a second invariant on top of the first. Each measurement is one of the
  token program it was taken under (`Costed`); on a quiet network the reading of the
  gate is the gate, one token program runs everything, and the batch gets through
  exactly when token program and runtime carry it out (`Steady`). The arithmetic is
  in `TransferTells`: a cost of Transfer above the threshold is classic's, one within
  its pin is p-token's, so that a verdict that looks at Transfer alone knows under
  which program the others should have run. This is where the test's own assumption
  comes in, `CostsAssumption` with `ExpectedAssumption`: p-token stays at or below
  1000 units, and classic SPL Token above every pin and its tolerance. The test takes
  both for granted in its threshold (simd_0266.rs:1022) and in its message (:366);
  with costs that break it the property is false.

`ConfidentialFlowProofs`
: `TypeCorrect`, `EvidenceIsKept`, `PassEarned`, `RentIsReclaimed` and
  `ExactOnQuietNetwork` (`TypeOK`, `EvidenceKept`, `PassIsEarned`, `RentReclaimed`,
  `ExactWhenQuiet`), for any set of defects of the runtime, any number of waiting
  transactions and any number of dropped forks. None of the five is inductive.
  The first part of the module lays out the line: `Flow` is a concatenation of
  thirty-six steps, `Rank` is the place of each, and `Before(step)` the
  transactions the test is past.
: The invariant `IInv` has six parts. `Place`: the transactions the test is past are
  the reported ones and those of the record in work. `Net`: a transaction is
  waiting, on the fork or confirmed, and never two of these; none beyond the
  current one is anywhere. `Truth`: on both chains the balances agree with what was done
  (`Booked`), what was done had done before it what it needs (`Ordered`), a success
  is an effect unless the runtime ignores the instruction (`Honest`), and the proofs
  the test is past were made for enough. `Recorded`: the confirmed chain becomes the
  processed one by executing the fork in order, and `ever` has every success on the
  way; it is what makes a dropped fork, and a fork of which one transaction is
  confirmed, tractable without knowing its length. `Seen`: what the test has read was
  done on the confirmed chain, which forgets nothing. `Quiet`: on a runtime
  without a visible defect, with nothing going wrong, every success has its effect
  and the balances are exactly those of the place in the line (`Worked`), each
  transaction is accepted, and the proofs are of the right balance.
: Each part has its lemmas by kind of step (of the test, of the network) and one that
  puts them together (`PlaceStep`, `NetStep`, ... `QuietStep`), which assumes of the
  other parts only what it needs. That a runtime with a visible defect never
  earns a Pass is in `Earned`: a rejected transaction is in `ever` of no chain, an
  ignored one breaks a chain of `Ordered` steps at whose end the final balances
  stand. `RentIsReclaimed` needs the drops to be none: with a dropped fork the
  accounts of one part may come back beside those of the other.
  `DefectsAssumption`, `LagAssumption` and `DropsAssumption` are used. All parts
  but `Recorded`, whose witness TLC cannot enumerate, were also evaluated by TLC on
  the instance of the run.

Every safety invariant and every action property that a run checks is proved. Only
model-checked is liveness: `Termination` of `Runner`, of `FeatureDeps` and of
`ConfidentialFlow`, `CallsReturn` of `SurfnetStart`, and the fairness of `Campaign` in
the refinement. It needs ENABLED and, for the first two, induction over the size of a
selection or a graph, both outside the prover's reach. What can be proved of it is
that no step leads away from the end: `RunAdvances`, `WalkAdvances` and
`NothingIsMissed`. What stays with TLC is that a step is always possible before the
end, and that the fairness is enough.

## Plan

Done: all the modules above and their theorems.

Not planned: a refinement of `SendConfirm` by `Send`, `Poll` and `GiveUp` of
`ConfidentialFlow`, which are the same `send_ixs` seen from afar. One `Poll` stands
for a look at the deadline and a read of the status, and `GiveUp` for a deadline
that `ConfidentialFlow` does not keep, so a refinement mapping would need
variables that only serve it. `VerdictHolds` and `EvidenceIsKept` say the same of
both: what is reported of a transaction was so on some fork.

## Not modelled

The YAML of the manifest and its parsing, command line arguments and the payer's
key file (read once; a failure is a failed start of `Runner`), the text of
the report, the encoding of instructions and accounts, the runbooks and the
build. The dropped fork and lagging node of `SendConfirm`, the surfnet of
`SurfnetStart`, the chain of `Requirements`, `GateCheck`, `PToken` and
`ConfidentialFlow`, and the file system and the builder of `ProgramDeploy` stand
for code outside this repository and are modelled from how it is used here.
