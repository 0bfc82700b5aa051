---------------------------- MODULE RunnerProofs ----------------------------
(* Theorems about the runner, its report, its exit status, and the         *)
(* refinement of Campaign, for every manifest, registry and selection.     *)
EXTENDS Runner, SequenceTheorems, TLAPS

-----------------------------------------------------------------------------
(* Types.                                                                  *)

SimdLabelSet == [kind : {"simd"}, id : Simds, pass : Passes]
CheckLabelSet == [kind : {"e2e"}, id : Checks, pass : {"none"}]

\* While a label is being worked on, it is one of the loop that works on it.
CurTyped ==
    /\ pc \in SimdPcs => cur \in SimdLabelSet
    /\ pc \in CheckPcs => cur \in CheckLabelSet

TypeInv == TypeOK /\ CurTyped

\* The labels of both loops are labels.
LEMMA LabelSets ==
    /\ SimdLabelSet \subseteq Labels
    /\ CheckLabelSet \subseteq Labels
    /\ \A s \in Simds, p \in Passes : Label("simd", s, p) \in SimdLabelSet
    /\ \A c \in Checks : CheckLabel(c) \in CheckLabelSet
    /\ \A l \in SimdLabelSet : l.id \in Simds
    /\ \A l \in CheckLabelSet : l.id \in Checks
BY DEF SimdLabelSet, CheckLabelSet, Labels, Label, CheckLabel, Passes

\* The label of no result is outside of them, and belongs to no pass.
LEMMA NoLabelFacts ==
    /\ NoLabel \notin Labels
    /\ NoLabel.pass = "none"
BY DEF NoLabel, Label, Labels

\* A result with typed fields is a result.
LEMMA ResultType ==
    ASSUME NEW l \in Labels, NEW s \in Statuses, NEW c \in Causes,
           NEW sigs \in BOOLEAN, NEW a \in Activations
    PROVE  Result(l, s, c, sigs, a) \in Results
BY DEF Result, Results

\* Pushing a typed result keeps the report typed.
LEMMA PushType ==
    ASSUME TypeOK, NEW l \in Labels, NEW s \in Statuses, NEW c \in Causes,
           Push(l, s, c)
    PROVE  results' \in Seq(Results)
<1>1. NoActivation \in Activations
  BY DEF NoActivation, Activations
<1>2. Result(l, s, c, FALSE, NoActivation) \in Results
  BY <1>1, ResultType
<1> QED BY <1>2, AppendProperties DEF Push, TypeOK

\* What the end of a pass does to the control state.
LEMMA NextPassType ==
    ASSUME TypeOK, cur \in SimdLabelSet, NextPass
    PROVE  /\ pc' \in Pcs
           /\ cur' \in Labels \cup {NoLabel}
           /\ CurTyped'
<1>1. CASE cur.pass = "deactivated"
  <2>1. cur' = Label("simd", cur.id, "activated") /\ pc' = "start"
    BY <1>1 DEF NextPass, Goto
  <2>2. cur' \in SimdLabelSet
    BY <2>1, LabelSets DEF Passes
  <2> QED BY <2>1, <2>2, LabelSets DEF Pcs, CurTyped, SimdPcs, CheckPcs
<1>2. CASE cur.pass # "deactivated"
  BY <1>2 DEF NextPass, Goto, Pcs, CurTyped, SimdPcs, CheckPcs
<1> QED BY <1>1, <1>2

\* An early end of a pass, and of a check, keeps the types.
LEMMA EndPassType ==
    ASSUME TypeInv, pc \in SimdPcs, NEW s \in Statuses, NEW c \in Causes,
           EndPass(s, c)
    PROVE  TypeInv'
<1>1. cur \in SimdLabelSet /\ cur \in Labels
  BY LabelSets DEF TypeInv, CurTyped
<1>2. results' \in Seq(Results)
  BY <1>1, PushType DEF EndPass, TypeInv
<1>3. pc' \in Pcs /\ cur' \in Labels \cup {NoLabel} /\ CurTyped'
  BY <1>1, NextPassType DEF EndPass, TypeInv
<1>4. /\ live' \subseteq Labels /\ handle' \in Labels \cup {NoLabel}
      /\ UNCHANGED <<inputs, todo, e2eTodo, detected, unmet, delivered, exit>>
  BY DEF EndPass, Kill, TypeInv, TypeOK
<1> QED BY <1>2, <1>3, <1>4 DEF TypeInv, TypeOK, inputs

LEMMA EndCheckType ==
    ASSUME TypeInv, pc \in CheckPcs, NEW s \in Statuses, NEW c \in Causes,
           EndCheck(s, c), unmet' \subseteq Checks
    PROVE  TypeInv'
<1>1. cur \in Labels
  BY LabelSets DEF TypeInv, CurTyped
<1>2. results' \in Seq(Results)
  BY <1>1, PushType DEF EndCheck, TypeInv
<1>3. pc' = "checks" /\ cur' = NoLabel
  BY DEF EndCheck, NextCheck, Goto
<1>4. /\ live' \subseteq Labels /\ handle' \in Labels \cup {NoLabel}
      /\ UNCHANGED <<inputs, todo, e2eTodo, detected, delivered, exit>>
  BY DEF EndCheck, Kill, TypeInv, TypeOK
<1> QED BY <1>2, <1>3, <1>4
        DEF TypeInv, TypeOK, inputs, CurTyped, Pcs, SimdPcs, CheckPcs

\* The end of the process keeps them.
LEMMA StopType ==
    ASSUME TypeInv, NEW code \in {"success", "failure"}, Stop(code),
           delivered' \in BOOLEAN
    PROVE  TypeInv'
BY DEF TypeInv, TypeOK, CurTyped, Stop, Goto, inputs, Pcs, SimdPcs, CheckPcs

LEMMA AbortType ==
    ASSUME TypeInv, Abort
    PROVE  TypeInv'
BY StopType DEF Abort, TypeInv, TypeOK

\* A step of main() that only moves on keeps them.
LEMMA MoveType ==
    ASSUME TypeInv, NEW l \in Pcs, Goto(l),
           l \in SimdPcs => cur \in SimdLabelSet,
           l \in CheckPcs => cur \in CheckLabelSet,
           UNCHANGED <<inputs, todo, e2eTodo, cur, handle, live, results,
                       delivered, exit>>,
           unmet' \subseteq Checks, detected' \in BOOLEAN
    PROVE  TypeInv'
BY DEF TypeInv, TypeOK, CurTyped, Goto, inputs

LEMMA TypeInvInit == Init => TypeInv
<1> SUFFICES ASSUME Init PROVE TypeInv
  OBVIOUS
<1>1. results \in Seq(Results)
  BY EmptySeq DEF Init
<1> QED BY <1>1 DEF Init, TypeInv, TypeOK, CurTyped, Pcs, SimdPcs, CheckPcs

LEMMA TypeInvNext == TypeInv /\ [Next]_vars => TypeInv'
<1> SUFFICES ASSUME TypeInv, [Next]_vars PROVE TypeInv'
  OBVIOUS
<1> USE DEF SimdPcs, CheckPcs
<1>1. CASE Startup
  <2>1. CASE Stop("success") /\ UNCHANGED delivered
    BY <2>1, StopType DEF TypeInv, TypeOK
  <2>2. CASE /\ Goto("simds")
             /\ UNCHANGED <<inputs, todo, e2eTodo, cur, handle, live, detected,
                            unmet, results, delivered, exit>>
    BY <2>2 DEF TypeInv, TypeOK, CurTyped, Goto, inputs, Pcs
  <2> QED BY <1>1, <2>1, <2>2, AbortType DEF Startup
<1>2. ASSUME NEW s \in todo, TakeSimd(s) PROVE TypeInv'
  <2>1. s \in Simds /\ todo' \subseteq entries
    BY <1>2 DEF TakeSimd, TypeInv, TypeOK
  <2>2. CASE s \notin Registered
    <3>1. Label("simd", s, "none") \in Labels
      BY <2>1, LabelSets DEF Passes
    <3>2. Push(Label("simd", s, "none"), "skip", "noImpl")
      BY <1>2, <2>2 DEF TakeSimd
    <3>3. results' \in Seq(Results)
      BY <3>1, <3>2, PushType DEF TypeInv, Statuses, Causes
    <3> QED BY <1>2, <2>1, <2>2, <3>3
            DEF TakeSimd, TypeInv, TypeOK, CurTyped, inputs
  <2>3. CASE s \in Registered
    <3>1. /\ cur' \in SimdLabelSet /\ cur' \in Labels
          /\ pc' \in {"start", "program"}
      BY <1>2, <2>1, <2>3, LabelSets DEF TakeSimd, Goto, Passes
    <3> QED BY <1>2, <2>1, <2>3, <3>1
            DEF TakeSimd, TypeInv, TypeOK, CurTyped, inputs, Pcs
  <2> QED BY <2>2, <2>3
<1>3. CASE SimdsDone
  BY <1>3 DEF SimdsDone, TypeInv, TypeOK, CurTyped, Goto, inputs, Pcs
<1>4. CASE StartSurfnet
  <2>1. cur \in SimdLabelSet /\ cur \in Labels
    BY <1>4, LabelSets DEF StartSurfnet, TypeInv, CurTyped
  <2> QED BY <1>4, <2>1, AbortType
          DEF StartSurfnet, TypeInv, TypeOK, CurTyped, Goto, inputs, Pcs
<1>5. CASE Airdrop
  BY <1>5, AbortType DEF Airdrop, TypeInv, TypeOK, CurTyped, Goto, inputs, Pcs
<1>6. CASE ResolveProgram
  <2>1. CASE EndPass("fail", "keypair")
    BY <1>6, <2>1, EndPassType DEF ResolveProgram, Statuses, Causes
  <2> QED BY <1>6, <2>1, AbortType
          DEF ResolveProgram, TypeInv, TypeOK, CurTyped, Goto, inputs, Pcs
<1>7. CASE DeployProgram
  <2>1. ASSUME NEW s \in Statuses, NEW c \in Causes, EndPass(s, c) PROVE TypeInv'
    BY <1>7, <2>1, EndPassType DEF DeployProgram
  <2>2. CASE Goto("detect") /\ UNCHANGED <<inputs, todo, e2eTodo, cur, handle,
                 live, detected, unmet, results, delivered, exit>>
    BY <1>7, <2>2 DEF DeployProgram, TypeInv, TypeOK, CurTyped, Goto, inputs, Pcs
  <2>3. /\ {"fail", "skip"} \subseteq Statuses
        /\ {"noProgram", "deploy", "notDeployed"} \subseteq Causes
    BY DEF Statuses, Causes
  <2> QED BY <1>7, <2>1, <2>2, <2>3 DEF DeployProgram
<1>8. CASE Detect
  BY <1>8 DEF Detect, TypeInv, TypeOK, CurTyped, Goto, inputs, Pcs
<1>9. CASE RunSimd
  <2>1. cur \in SimdLabelSet /\ cur \in Labels
    BY <1>9, LabelSets DEF RunSimd, TypeInv, CurTyped
  <2>2. ASSUME ~Abort PROVE TypeInv'
    <3>1. PICK status \in {"pass", "fail"}, sigs \in BOOLEAN :
             results' = Append(results, Result(cur, status, "ran", sigs,
                    [expected |-> expectActivated, known |-> TRUE,
                     detected |-> detected]))
      BY <1>9, <2>2 DEF RunSimd
    <3>2. [expected |-> expectActivated, known |-> TRUE, detected |-> detected]
             \in Activations
      BY DEF Activations, expectActivated, TypeInv, TypeOK
    <3>3. status \in Statuses /\ "ran" \in Causes
      BY DEF Statuses, Causes
    <3>4. Result(cur, status, "ran", sigs, [expected |-> expectActivated,
             known |-> TRUE, detected |-> detected]) \in Results
      BY <2>1, <3>2, <3>3, ResultType
    <3>5. results' \in Seq(Results)
      BY <3>1, <3>4, AppendProperties DEF TypeInv, TypeOK
    <3>6. pc' \in Pcs /\ cur' \in Labels \cup {NoLabel} /\ CurTyped'
      BY <1>9, <2>1, <2>2, NextPassType DEF RunSimd, TypeInv
    <3> QED BY <1>9, <2>2, <3>5, <3>6 DEF RunSimd, Kill, TypeInv, TypeOK, inputs
  <2> QED BY <2>2, AbortType
<1>10. ASSUME NEW c \in e2eTodo, TakeCheck(c) PROVE TypeInv'
  <2>1. c \in Checks /\ e2eTodo' \subseteq e2eEntries
    BY <1>10 DEF TakeCheck, TypeInv, TypeOK
  <2>2. CheckLabel(c) \in CheckLabelSet /\ CheckLabel(c) \in Labels
    BY <2>1, LabelSets
  <2>3. CASE c \in Unresolved
    <3>1. Push(CheckLabel(c), "fail", "gates")
      BY <1>10, <2>3 DEF TakeCheck
    <3>2. results' \in Seq(Results)
      BY <2>2, <3>1, PushType DEF TypeInv, Statuses, Causes
    <3> QED BY <1>10, <2>1, <2>3, <3>2
            DEF TakeCheck, TypeInv, TypeOK, CurTyped, inputs
  <2>4. CASE c \notin Unresolved
    <3>1. cur' = CheckLabel(c) /\ pc' \in {"e2eStart", "requirements"}
      BY <1>10, <2>4 DEF TakeCheck, Goto
    <3> QED BY <1>10, <2>1, <2>2, <2>4, <3>1
            DEF TakeCheck, TypeInv, TypeOK, CurTyped, inputs, Pcs
  <2> QED BY <2>3, <2>4
<1>11. CASE ChecksDone
  BY <1>11 DEF ChecksDone, TypeInv, TypeOK, CurTyped, Goto, inputs, Pcs
<1>12. CASE E2eStartSurfnet
  <2>1. cur \in CheckLabelSet /\ cur \in Labels
    BY <1>12, LabelSets DEF E2eStartSurfnet, TypeInv, CurTyped
  <2>2. live' \subseteq Labels
    BY <1>12, <2>1 DEF E2eStartSurfnet, TypeInv, TypeOK
  <2>3. CASE Push(cur, "fail", "start") /\ NextCheck /\ UNCHANGED handle
    <3>1. results' \in Seq(Results)
      BY <2>1, <2>3, PushType DEF TypeInv, Statuses, Causes
    <3> QED BY <1>12, <2>2, <2>3, <3>1
            DEF E2eStartSurfnet, NextCheck, Goto, TypeInv, TypeOK, CurTyped, inputs, Pcs
  <2>4. CASE handle' = cur /\ Goto("e2eAirdrop") /\ UNCHANGED <<cur, results>>
    BY <1>12, <2>1, <2>2, <2>4
       DEF E2eStartSurfnet, Goto, TypeInv, TypeOK, CurTyped, inputs, Pcs
  <2> QED BY <1>12, <2>3, <2>4 DEF E2eStartSurfnet
<1>13. CASE E2eAirdrop
  <2>1. CASE EndCheck("fail", "airdrop")
    <3>1. "fail" \in Statuses /\ "airdrop" \in Causes
      BY DEF Statuses, Causes
    <3> QED BY <1>13, <2>1, <3>1, EndCheckType DEF E2eAirdrop, TypeInv, TypeOK
  <2> QED BY <1>13, <2>1
          DEF E2eAirdrop, TypeInv, TypeOK, CurTyped, Goto, inputs, Pcs
<1>14. CASE CheckRequirements
  <2>1. cur \in CheckLabelSet /\ cur.id \in Checks
    BY <1>14, LabelSets DEF CheckRequirements, TypeInv, CurTyped
  <2>2. unmet' \subseteq Checks
    BY <1>14, <2>1 DEF CheckRequirements, TypeInv, TypeOK
  <2>3. CASE EndCheck("pending", "unmet")
    <3>1. "pending" \in Statuses /\ "unmet" \in Causes
      BY DEF Statuses, Causes
    <3> QED BY <1>14, <2>2, <2>3, <3>1, EndCheckType DEF CheckRequirements
  <2>4. CASE /\ Goto("e2eRun")
             /\ UNCHANGED <<inputs, todo, e2eTodo, cur, handle, live, detected,
                            results, delivered, exit>>
    BY <2>1, <2>2, <2>4 DEF TypeInv, TypeOK, CurTyped, Goto, inputs, Pcs
  <2> QED BY <1>14, <2>3, <2>4 DEF CheckRequirements
<1>15. CASE RunCheck
  <2>1. cur \in Labels
    BY <1>15, LabelSets DEF RunCheck, TypeInv, CurTyped
  <2>2. CASE EndCheck("skip", "noImpl")
    <3>1. "skip" \in Statuses /\ "noImpl" \in Causes
      BY DEF Statuses, Causes
    <3> QED BY <1>15, <2>2, <3>1, EndCheckType DEF RunCheck, TypeInv, TypeOK
  <2>3. CASE ~EndCheck("skip", "noImpl")
    <3>1. PICK outcome \in E2eOutcomes, sigs \in BOOLEAN :
             results' = Append(results,
                Result(cur, Reported(outcome), "ran", sigs, NoActivation))
      BY <1>15, <2>3 DEF RunCheck
    <3>2. Reported(outcome) \in Statuses /\ "ran" \in Causes
      BY OutcomesAssumption DEF Reported, Statuses, Causes
    <3>3. NoActivation \in Activations
      BY DEF NoActivation, Activations
    <3>4. Result(cur, Reported(outcome), "ran", sigs, NoActivation) \in Results
      BY <2>1, <3>2, <3>3, ResultType
    <3>5. results' \in Seq(Results)
      BY <3>1, <3>4, AppendProperties DEF TypeInv, TypeOK
    <3> QED BY <1>15, <2>3, <3>5
            DEF RunCheck, Kill, NextCheck, Goto, TypeInv, TypeOK, CurTyped, inputs, Pcs
  <2> QED BY <2>2, <2>3
<1>16. CASE Output
  <2>1. ExitCode \in {"success", "failure"}
    BY DEF ExitCode
  <2>2. CASE delivered' = TRUE /\ Stop(ExitCode)
    BY <2>1, <2>2, StopType
  <2> QED BY <1>16, <2>2, AbortType DEF Output
<1>17. ASSUME NEW s \in live, SurfnetEnds(s) PROVE TypeInv'
  BY <1>17 DEF SurfnetEnds, TypeInv, TypeOK, CurTyped, inputs
<1>18. CASE UNCHANGED vars
  BY <1>18 DEF vars, TypeInv, TypeOK, CurTyped
<1> QED BY <1>1, <1>2, <1>3, <1>4, <1>5, <1>6, <1>7, <1>8, <1>9, <1>10, <1>11,
           <1>12, <1>13, <1>14, <1>15, <1>16, <1>17, <1>18 DEF Next, Main

LEMMA TypeInvariance == Spec => []TypeInv
BY TypeInvInit, TypeInvNext, PTL DEF Spec

\* The variables of main() keep their types, and with them every label,
\* status and cause that reaches the report.
THEOREM TypeCorrect == Spec => []TypeOK
<1>1. TypeInv => TypeOK
  BY DEF TypeInv
<1> QED BY <1>1, TypeInvariance, PTL

-----------------------------------------------------------------------------
(* The surfnet handle.                                                     *)

\* The start of the surfnet of a check reported a failure.
Abandoned(s) ==
    \E i \in 1..Len(results) : results[i].label = s /\ results[i].cause = "start"

\* SurfnetPerPass, and what makes it inductive: outside of the steps that use
\* a runtime there is no handle, and only localnet starts surfnets or has a
\* second pass.
HandleInv ==
    /\ handle # NoLabel => handle = cur
    /\ pc \in RuntimePcs => ((network = "localnet") <=> (handle # NoLabel))
    /\ \A s \in live : s = handle \/ Abandoned(s)
    /\ pc \notin RuntimePcs => handle = NoLabel
    /\ pc \in {"start", "e2eStart"} => network = "localnet"
    /\ pc \in SimdPcs /\ cur.pass = "deactivated" => network = "localnet"

RunInv == TypeInv /\ HandleInv

\* A push keeps what was abandoned, and may add to it.
LEMMA AbandonedKept ==
    ASSUME TypeOK, NEW r, results' = Append(results, r)
    PROVE  /\ \A s : Abandoned(s) => Abandoned(s)'
           /\ r.cause = "start" => Abandoned(r.label)'
<1>1. /\ Len(results') = Len(results) + 1 /\ Len(results) \in Nat
      /\ \A i \in 1..Len(results) : results'[i] = results[i]
      /\ results'[Len(results) + 1] = r
  BY DEF TypeOK
<1> QED BY <1>1 DEF Abandoned

LEMMA AbandonedUnchanged ==
    ASSUME UNCHANGED results
    PROVE  \A s : Abandoned(s)' <=> Abandoned(s)
BY DEF Abandoned

\* The end of a pass, with whatever result: the surfnet is killed.
LEMMA EndOfPassHandle ==
    ASSUME RunInv, pc \in SimdPcs, NEW r, results' = Append(results, r),
           Kill, NextPass, UNCHANGED network
    PROVE  HandleInv'
<1> USE DEF SimdPcs, CheckPcs, RuntimePcs
<1>1. handle' = NoLabel /\ \A s \in live' : Abandoned(s)'
  BY AbandonedKept DEF Kill, RunInv, HandleInv, TypeInv
<1>2. CASE cur.pass = "deactivated"
  <2>1. pc' = "start" /\ cur' = Label("simd", cur.id, "activated")
    BY <1>2 DEF NextPass, Goto
  <2>2. cur'.pass = "activated" /\ network' = "localnet"
    BY <1>2, <2>1 DEF Label, RunInv, HandleInv
  <2> QED BY <1>1, <2>1, <2>2 DEF HandleInv
<1>3. CASE cur.pass # "deactivated"
  <2>1. pc' = "simds"
    BY <1>3 DEF NextPass, Goto
  <2> QED BY <1>1, <2>1 DEF HandleInv
<1> QED BY <1>2, <1>3

LEMMA EndOfCheckHandle ==
    ASSUME RunInv, NEW r, results' = Append(results, r),
           Kill, NextCheck
    PROVE  HandleInv'
<1> USE DEF SimdPcs, CheckPcs, RuntimePcs
<1>1. handle' = NoLabel /\ \A s \in live' : Abandoned(s)'
  BY AbandonedKept DEF Kill, RunInv, HandleInv, TypeInv
<1>2. pc' = "checks"
  BY DEF NextCheck, Goto
<1> QED BY <1>1, <1>2 DEF HandleInv

\* The end of the process: its threads are gone.
LEMMA StopHandle ==
    ASSUME NEW code, Stop(code)
    PROVE  HandleInv'
BY DEF HandleInv, Stop, Goto, SimdPcs, CheckPcs, RuntimePcs

\* A step that stays with the runtime, or outside of it.
LEMMA MoveHandle ==
    ASSUME RunInv, NEW l, Goto(l),
           l \in RuntimePcs <=> pc \in RuntimePcs,
           l \notin {"start", "e2eStart"},
           l \in SimdPcs => pc \in SimdPcs,
           UNCHANGED <<network, cur, handle, live, results>>
    PROVE  HandleInv'
<1>1. \A s : Abandoned(s)' <=> Abandoned(s)
  BY AbandonedUnchanged
<1> QED BY <1>1 DEF RunInv, HandleInv, Goto

LEMMA RunInvInit == Init => RunInv
BY TypeInvInit DEF Init, RunInv, HandleInv, RuntimePcs, SimdPcs, CheckPcs

LEMMA RunInvNext == RunInv /\ [Next]_vars => RunInv'
<1> SUFFICES ASSUME RunInv, [Next]_vars PROVE HandleInv'
  BY TypeInvNext DEF RunInv
<1> USE DEF SimdPcs, CheckPcs, RuntimePcs
<1>0. ASSUME Abort PROVE HandleInv'
  BY <1>0, StopHandle DEF Abort
<1>1. CASE Startup
  <2>1. CASE Stop("success")
    BY <2>1, StopHandle
  <2>2. CASE pc = "startup" /\ Goto("simds") /\ UNCHANGED <<inputs, cur, handle, live, results>>
    BY <2>2, MoveHandle DEF inputs
  <2> QED BY <1>1, <1>0, <2>1, <2>2 DEF Startup
<1>2. ASSUME NEW s \in todo, TakeSimd(s) PROVE HandleInv'
  <2>1. handle = NoLabel /\ UNCHANGED <<network, handle, live>>
    BY <1>2 DEF TakeSimd, inputs, RunInv, HandleInv
  <2>2. CASE s \notin Registered
    <3>1. pc' = "simds" /\ cur' = cur
      BY <1>2, <2>2 DEF TakeSimd
    <3>2. \A x : Abandoned(x) => Abandoned(x)'
      BY <1>2, <2>2, AbandonedKept DEF TakeSimd, Push, RunInv, TypeInv
    <3> QED BY <2>1, <3>1, <3>2 DEF RunInv, HandleInv
  <2>3. CASE s \in Registered
    <3>1. /\ network = "localnet" => pc' = "start"
          /\ network # "localnet" => pc' = "program" /\ cur' = Label("simd", s, "live")
      BY <1>2, <2>3 DEF TakeSimd, Goto
    <3>2. \A x : Abandoned(x) => Abandoned(x)'
      BY <1>2, <2>3, AbandonedUnchanged DEF TakeSimd
    <3> QED BY <2>1, <3>1, <3>2 DEF RunInv, HandleInv, Label
  <2> QED BY <2>2, <2>3
<1>3. CASE SimdsDone
  BY <1>3, MoveHandle DEF SimdsDone, inputs
<1>4. CASE StartSurfnet
  <2>1. CASE /\ handle' = cur /\ live' = live \cup {cur} /\ Goto("airdrop")
             /\ UNCHANGED <<inputs, cur, results>>
    <3>1. cur \in Labels /\ cur # NoLabel
      BY <1>4, LabelSets, NoLabelFacts DEF StartSurfnet, RunInv, TypeInv, CurTyped
    <3>2. \A x : Abandoned(x) => Abandoned(x)'
      BY <2>1, AbandonedUnchanged
    <3>3. pc = "start" /\ handle = NoLabel /\ network = "localnet" /\ NoLabel \notin live
      BY <1>4, NoLabelFacts DEF StartSurfnet, RunInv, HandleInv, TypeInv, TypeOK
    <3> QED BY <2>1, <3>1, <3>2, <3>3 DEF RunInv, HandleInv, Goto, inputs
  <2> QED BY <1>4, <1>0, <2>1 DEF StartSurfnet
<1>5. CASE Airdrop
  BY <1>5, <1>0, MoveHandle DEF Airdrop, inputs
<1>6. CASE ResolveProgram
  <2>1. ASSUME NEW s, NEW c, EndPass(s, c) PROVE HandleInv'
    BY <1>6, <2>1, EndOfPassHandle DEF ResolveProgram, EndPass, Push, inputs
  <2> QED BY <1>6, <1>0, <2>1, MoveHandle DEF ResolveProgram, inputs
<1>7. CASE DeployProgram
  <2>1. ASSUME NEW s, NEW c, EndPass(s, c) PROVE HandleInv'
    BY <1>7, <2>1, EndOfPassHandle DEF DeployProgram, EndPass, Push, inputs
  <2> QED BY <1>7, <2>1, MoveHandle DEF DeployProgram, inputs
<1>8. CASE Detect
  BY <1>8, MoveHandle DEF Detect, inputs
<1>9. CASE RunSimd
  BY <1>9, <1>0, EndOfPassHandle DEF RunSimd, inputs
<1>10. ASSUME NEW c \in e2eTodo, TakeCheck(c) PROVE HandleInv'
  <2>1. handle = NoLabel /\ UNCHANGED <<network, handle, live>>
    BY <1>10 DEF TakeCheck, inputs, RunInv, HandleInv
  <2>2. CASE c \in Unresolved
    <3>1. pc' = "checks" /\ cur' = cur
      BY <1>10, <2>2 DEF TakeCheck
    <3>2. \A x : Abandoned(x) => Abandoned(x)'
      BY <1>10, <2>2, AbandonedKept DEF TakeCheck, Push, RunInv, TypeInv
    <3> QED BY <2>1, <3>1, <3>2 DEF RunInv, HandleInv
  <2>3. CASE c \notin Unresolved
    <3>1. /\ network = "localnet" => pc' = "e2eStart"
          /\ network # "localnet" => pc' = "requirements"
      BY <1>10, <2>3 DEF TakeCheck, Goto
    <3>2. \A x : Abandoned(x) => Abandoned(x)'
      BY <1>10, <2>3, AbandonedUnchanged DEF TakeCheck
    <3> QED BY <2>1, <3>1, <3>2 DEF RunInv, HandleInv
  <2> QED BY <2>2, <2>3
<1>11. CASE ChecksDone
  BY <1>11, MoveHandle DEF ChecksDone, inputs
<1>12. CASE E2eStartSurfnet
  <2>1. /\ cur \in Labels /\ cur # NoLabel /\ handle = NoLabel
        /\ network = "localnet" /\ network' = network
        /\ NoLabel \notin live
    BY <1>12, LabelSets, NoLabelFacts
       DEF E2eStartSurfnet, RunInv, HandleInv, TypeInv, TypeOK, CurTyped, inputs
  <2>2. CASE Push(cur, "fail", "start") /\ NextCheck /\ UNCHANGED handle
    <3>1. PICK r : r = Result(cur, "fail", "start", FALSE, NoActivation)
      OBVIOUS
    <3>2. PICK c : c = cur
      OBVIOUS
    <3>3. results' = Append(results, r) /\ r.label = c /\ r.cause = "start"
      BY <2>2, <3>1, <3>2 DEF Push, Result
    <3>4. Abandoned(c)' /\ \A x : Abandoned(x) => Abandoned(x)'
      BY <3>3, AbandonedKept DEF RunInv, TypeInv
    <3>5. pc' = "checks" /\ handle' = NoLabel
      BY <2>1, <2>2 DEF NextCheck, Goto
    <3>6. live' \subseteq live \cup {c}
      BY <1>12, <3>2 DEF E2eStartSurfnet
    <3>7. \A s \in live' : Abandoned(s)'
      BY <2>1, <3>4, <3>6 DEF RunInv, HandleInv
    <3> QED BY <3>5, <3>7 DEF HandleInv
  <2>3. CASE live' = live \cup {cur} /\ handle' = cur /\ Goto("e2eAirdrop") /\ UNCHANGED <<cur, results>>
    <3>1. \A x : Abandoned(x) => Abandoned(x)'
      BY <2>3, AbandonedUnchanged
    <3> QED BY <2>1, <2>3, <3>1 DEF RunInv, HandleInv, Goto
  <2> QED BY <1>12, <2>2, <2>3 DEF E2eStartSurfnet
<1>13. CASE E2eAirdrop
  <2>1. ASSUME NEW s, NEW c, EndCheck(s, c) PROVE HandleInv'
    BY <2>1, EndOfCheckHandle DEF EndCheck, Push
  <2> QED BY <1>13, <2>1, MoveHandle DEF E2eAirdrop, inputs
<1>14. CASE CheckRequirements
  <2>1. ASSUME NEW s, NEW c, EndCheck(s, c) PROVE HandleInv'
    BY <2>1, EndOfCheckHandle DEF EndCheck, Push
  <2> QED BY <1>14, <2>1, MoveHandle DEF CheckRequirements, inputs
<1>15. CASE RunCheck
  <2>1. ASSUME NEW s, NEW c, EndCheck(s, c) PROVE HandleInv'
    BY <2>1, EndOfCheckHandle DEF EndCheck, Push
  <2> QED BY <1>15, <2>1, EndOfCheckHandle DEF RunCheck
<1>16. CASE Output
  BY <1>16, <1>0, StopHandle DEF Output
<1>17. ASSUME NEW s \in live, SurfnetEnds(s) PROVE HandleInv'
  BY <1>17, AbandonedUnchanged DEF SurfnetEnds, RunInv, HandleInv, inputs
<1>18. CASE UNCHANGED vars
  BY <1>18, AbandonedUnchanged DEF vars, RunInv, HandleInv
<1> QED BY <1>1, <1>2, <1>3, <1>4, <1>5, <1>6, <1>7, <1>8, <1>9, <1>10, <1>11,
           <1>12, <1>13, <1>14, <1>15, <1>16, <1>17, <1>18 DEF Next, Main

LEMMA RunInvariance == Spec => []RunInv
BY RunInvInit, RunInvNext, PTL DEF Spec

\* Every exit from a pass kills its surfnet: on localnet each pass and check
\* runs on a surfnet of its own, for any manifest, registry and selection, and
\* whichever calls fail.
THEOREM SurfnetPerPassHolds == Spec => []SurfnetPerPass
<1>1. RunInv => SurfnetPerPass
  BY DEF RunInv, HandleInv, SurfnetPerPass, Abandoned
<1> QED BY <1>1, RunInvariance, PTL

-----------------------------------------------------------------------------
(* Labels and their order.                                                 *)

\* The labels of a SIMD are its own, and so is the label of a check.
LEMMA LabelFacts ==
    /\ \A s \in Simds : \A l \in SimdLabels(s) :
          l \in SimdLabelSet /\ l.kind = "simd" /\ l.id = s
    /\ \A c \in Checks : CheckLabel(c).kind = "e2e" /\ CheckLabel(c).id = c
    /\ \A l \in SimdLabelSet : l \in Labels /\ l.kind = "simd" /\ l.id \in Simds
    /\ \A l \in CheckLabelSet : l \in Labels /\ l.kind = "e2e" /\ l.id \in Checks
    /\ \A l \in Labels : l.id \in Nat /\ l # NoLabel
<1> USE DEF Label, SimdLabelSet, CheckLabelSet, Labels
<1>1. ASSUME NEW s \in Simds, NEW l \in SimdLabels(s)
      PROVE  l \in SimdLabelSet /\ l.kind = "simd" /\ l.id = s
  BY <1>1 DEF SimdLabels, Passes
<1>2. ASSUME NEW c \in Checks PROVE CheckLabel(c).kind = "e2e" /\ CheckLabel(c).id = c
  BY DEF CheckLabel
<1>3. ASSUME NEW l \in SimdLabelSet PROVE l \in Labels /\ l.kind = "simd" /\ l.id \in Simds
  OBVIOUS
<1>4. ASSUME NEW l \in CheckLabelSet PROVE l \in Labels /\ l.kind = "e2e" /\ l.id \in Checks
  BY DEF Passes
<1>5. ASSUME NEW l \in Labels PROVE l.id \in Nat /\ l # NoLabel
  <2>1. l.id \in Simds \cup Checks
    OBVIOUS
  <2>2. l # NoLabel
    BY NoLabelFacts
  <2> QED BY <2>1, <2>2, SimdsAssumption, ChecksAssumption
<1> QED BY <1>1, <1>2, <1>3, <1>4, <1>5

\* No label comes before itself.
LEMMA BeforeIrreflexive == \A l \in Labels : ~Before(l, l)
BY LabelFacts DEF Before

\* What Outstanding consists of, now and after a step.
LEMMA OutstandingFacts ==
    /\ \A l : l \in Outstanding <=>
                \/ \E s \in todo : l \in SimdLabels(s)
                \/ \E c \in e2eTodo : l = CheckLabel(c)
                \/ l \in CurrentLabels
    /\ \A l : l \in Outstanding' <=>
                \/ \E s \in todo' : l \in SimdLabels(s)'
                \/ \E c \in e2eTodo' : l = CheckLabel(c)
                \/ l \in CurrentLabels'
BY DEF Outstanding

-----------------------------------------------------------------------------
(* The loops.                                                              *)

\* Where main() is in its loops: the label it works on comes before what it has
\* not reached, the checks come after the SIMDs, the output after the checks,
\* and only the output delivers.
LoopInv ==
    /\ pc = "startup" => todo = entries /\ e2eTodo = e2eEntries /\ results = <<>>
    /\ pc \in {"startup", "simds", "checks", "output"} => cur = NoLabel
    /\ pc \in SimdPcs => \A s \in todo : cur.id < s
    /\ pc \in CheckPcs \cup {"checks", "output"} => todo = {}
    /\ pc \in CheckPcs => \A c \in e2eTodo : cur.id < c
    /\ pc = "output" => e2eTodo = {}
    /\ exit = "running" <=> pc # "stopped"
    /\ delivered => pc = "stopped"

Inv == TypeInv /\ LoopInv

\* The first label without a result receives one.
Judged ==
    /\ exit = "running"
    /\ \E x \in Results :
          /\ results' = Append(results, x)
          /\ x.label \in Outstanding /\ Outstanding' = Outstanding \ {x.label}
          /\ \A l \in Outstanding' : Before(x.label, l)

Quiet == results' = results /\ Outstanding' = Outstanding

\* The process ends: main() fails, with a SIMD in work, at the start or in the
\* output; or it has written the report; or nothing was selected.
Ending ==
    /\ Quiet /\ exit = "running" /\ pc' = "stopped"
    /\ \/ /\ exit' = "failure" /\ ~delivered'
          /\ \/ results = <<>> \/ Outstanding = {}
             \/ \E l \in Outstanding : l.kind = "simd"
       \/ exit' = ExitCode /\ delivered' /\ Outstanding = {}
       \/ exit' = "success" /\ ~delivered' /\ results = <<>> /\ Outstanding = {}

\* What any step does to the report and to what is still to come.
Progress ==
    \/ (Judged \/ Quiet) /\ UNCHANGED <<exit, delivered>>
    \/ Ending

\* A pass, and a check, ends with a result under its label.
LEMMA EndOfPass ==
    ASSUME Inv, pc \in SimdPcs, NEW x \in Results, x.label = cur,
           results' = Append(results, x), NextPass,
           UNCHANGED <<inputs, todo, e2eTodo, exit, delivered>>
    PROVE  Judged /\ LoopInv'
<1>1. cur \in SimdLabelSet /\ cur # NoLabel /\ todo \subseteq Simds /\ e2eTodo \subseteq Checks
  BY LabelFacts DEF Inv, TypeInv, TypeOK, CurTyped
<1>2. /\ \A s : SimdLabels(s)' = SimdLabels(s)
  BY DEF SimdLabels, inputs
<1>3. /\ CurrentLabels' = CurrentLabels \ {cur} /\ cur \in CurrentLabels
      /\ \A l \in CurrentLabels' : Before(cur, l)
  <2>1. CASE cur.pass = "deactivated"
    BY <1>1, <2>1 DEF CurrentLabels, NextPass, Label, NoLabel, SimdLabelSet, Before
  <2>2. CASE cur.pass # "deactivated"
    BY <1>1, <2>2 DEF CurrentLabels, NextPass
  <2> QED BY <2>1, <2>2
<1>4. \A s \in todo : \A l \in SimdLabels(s) : Before(cur, l)
  BY <1>1, LabelFacts DEF Inv, LoopInv, Before
<1>5. \A c \in e2eTodo : Before(cur, CheckLabel(c))
  BY <1>1, LabelFacts DEF Before
<1>6. ~Before(cur, cur)
  BY <1>1, LabelFacts, BeforeIrreflexive
<1>7. \A l \in Outstanding' : Before(cur, l)
  BY <1>2, <1>3, <1>4, <1>5, OutstandingFacts
<1>8. cur \in Outstanding /\ Outstanding' = Outstanding \ {cur}
  BY <1>2, <1>3, <1>4, <1>5, <1>6, OutstandingFacts
<1>9. LoopInv'
  BY <1>1 DEF Inv, LoopInv, NextPass, Goto, Label, SimdPcs, CheckPcs
<1>10. exit = "running"
  BY DEF Inv, LoopInv, SimdPcs
<1> QED BY <1>7, <1>8, <1>9, <1>10 DEF Judged

LEMMA EndOfCheck ==
    ASSUME Inv, pc \in CheckPcs, NEW x \in Results, x.label = cur,
           results' = Append(results, x), NextCheck,
           UNCHANGED <<inputs, todo, e2eTodo, exit, delivered>>
    PROVE  Judged /\ LoopInv'
<1>1. cur \in CheckLabelSet /\ cur # NoLabel /\ todo = {} /\ e2eTodo \subseteq Checks
  BY LabelFacts DEF Inv, LoopInv, TypeInv, TypeOK, CurTyped
<1>2. CurrentLabels = {cur} /\ CurrentLabels' = {}
  BY <1>1 DEF CurrentLabels, NextCheck, CheckLabelSet
<1>3. \A c \in e2eTodo : Before(cur, CheckLabel(c))
  BY <1>1, LabelFacts DEF Inv, LoopInv, Before
<1>4. ~Before(cur, cur)
  BY <1>1, LabelFacts, BeforeIrreflexive
<1>5. \A l \in Outstanding' : Before(cur, l)
  BY <1>1, <1>2, <1>3, OutstandingFacts
<1>6. cur \in Outstanding /\ Outstanding' = Outstanding \ {cur}
  BY <1>1, <1>2, <1>3, <1>4, OutstandingFacts
<1>7. LoopInv'
  BY <1>1 DEF Inv, LoopInv, NextCheck, Goto, SimdPcs, CheckPcs
<1>8. exit = "running"
  BY DEF Inv, LoopInv, CheckPcs
<1> QED BY <1>5, <1>6, <1>7, <1>8 DEF Judged

\* A step that moves on within a pass or a check, or out of the startup.
LEMMA MoveProgress ==
    ASSUME UNCHANGED <<inputs, todo, e2eTodo, cur, results, exit, delivered>>
    PROVE  Quiet /\ Progress
BY DEF Progress, Quiet, Outstanding, SimdLabels, CurrentLabels, inputs

\* The process ends with the report as it is.
LEMMA StopProgress ==
    ASSUME NEW code, Stop(code)
    PROVE  Quiet /\ pc' = "stopped" /\ exit' = code
BY DEF Stop, Goto, Quiet, Outstanding, SimdLabels, CurrentLabels, inputs

\* It may be lost while a SIMD is in work.
LEMMA AbortProgress ==
    ASSUME Inv, Abort,
           pc \in SimdPcs \/ results = <<>> \/ Outstanding = {}, pc # "stopped"
    PROVE  Progress /\ LoopInv'
<1>1. Quiet /\ pc' = "stopped" /\ exit' = "failure" /\ ~delivered'
  BY StopProgress DEF Abort, Inv, LoopInv
<1>2. pc \in SimdPcs => cur \in Outstanding /\ cur.kind = "simd"
  BY LabelFacts, OutstandingFacts DEF Inv, TypeInv, CurTyped, CurrentLabels
<1>3. exit = "running"
  BY DEF Inv, LoopInv
<1>4. LoopInv'
  BY <1>1 DEF LoopInv, SimdPcs, CheckPcs
<1> QED BY <1>1, <1>2, <1>3, <1>4 DEF Progress, Ending

\* A pass, and a check, that ends early.
LEMMA EndPassProgress ==
    ASSUME Inv, pc \in SimdPcs, NEW s \in Statuses, NEW c \in Causes, EndPass(s, c)
    PROVE  Progress /\ LoopInv'
<1>1. NoActivation \in Activations
  BY DEF NoActivation, Activations
<1>2. cur \in Labels
  BY LabelFacts DEF Inv, TypeInv, CurTyped
<1>3. PICK x : x = Result(cur, s, c, FALSE, NoActivation)
  OBVIOUS
<1>4. x \in Results /\ x.label = cur /\ results' = Append(results, x)
  BY <1>1, <1>2, <1>3, ResultType DEF Result, EndPass, Push
<1>5. NextPass /\ UNCHANGED <<inputs, todo, e2eTodo, exit, delivered>>
  BY DEF EndPass
<1> QED BY <1>4, <1>5, EndOfPass DEF Progress

LEMMA EndCheckProgress ==
    ASSUME Inv, pc \in CheckPcs, NEW s \in Statuses, NEW c \in Causes, EndCheck(s, c)
    PROVE  Progress /\ LoopInv'
<1>1. NoActivation \in Activations
  BY DEF NoActivation, Activations
<1>2. cur \in Labels
  BY LabelFacts DEF Inv, TypeInv, CurTyped
<1>3. PICK x : x = Result(cur, s, c, FALSE, NoActivation)
  OBVIOUS
<1>4. x \in Results /\ x.label = cur /\ results' = Append(results, x)
  BY <1>1, <1>2, <1>3, ResultType DEF Result, EndCheck, Push
<1>5. NextCheck /\ UNCHANGED <<inputs, todo, e2eTodo, exit, delivered>>
  BY DEF EndCheck
<1> QED BY <1>4, <1>5, EndOfCheck DEF Progress

\* The loop over the SIMDs takes the first one it has not reached.
LEMMA TakeSimdProgress ==
    ASSUME Inv, NEW s \in todo, TakeSimd(s)
    PROVE  Progress /\ LoopInv'
<1>1. /\ pc = "simds" /\ cur = NoLabel /\ todo \subseteq Simds /\ e2eTodo \subseteq Checks
      /\ s \in Simds /\ todo' = todo \ {s} /\ \A t \in todo' : s < t
      /\ UNCHANGED <<inputs, e2eTodo, exit, delivered>> /\ exit = "running"
  BY SimdsAssumption DEF TakeSimd, IsFirst, Inv, LoopInv, TypeInv, TypeOK
<1>2. \A t : SimdLabels(t)' = SimdLabels(t)
  BY <1>1 DEF SimdLabels, inputs
<1>3. CurrentLabels = {}
  BY <1>1 DEF CurrentLabels
<1>4. CASE s \notin Registered
  <2> DEFINE l == Label("simd", s, "none")
  <2>1. SimdLabels(s) = {l} /\ l \in Labels /\ l.kind = "simd" /\ l.id = s
    BY <1>1, <1>4, LabelFacts DEF SimdLabels
  <2>2. CurrentLabels' = {}
    BY <1>3, <1>4 DEF TakeSimd, CurrentLabels
  <2>3. \A m \in Outstanding' : Before(l, m)
    <3>1. \A t \in todo' : \A m \in SimdLabels(t) : Before(l, m)
      BY <1>1, <2>1, LabelFacts DEF Before
    <3>2. \A c \in e2eTodo : Before(l, CheckLabel(c))
      BY <1>1, <2>1, LabelFacts DEF Before
    <3> QED BY <1>1, <1>2, <2>2, <3>1, <3>2, OutstandingFacts
  <2>4. l \in Outstanding /\ Outstanding' = Outstanding \ {l}
    <3>1. l \notin Outstanding'
      BY <2>1, <2>3, BeforeIrreflexive
    <3> QED BY <1>1, <1>2, <1>3, <2>1, <2>2, <3>1, OutstandingFacts
  <2>5. PICK x : x = Result(l, "skip", "noImpl", FALSE, NoActivation)
    OBVIOUS
  <2>6. x \in Results /\ x.label = l /\ results' = Append(results, x)
    BY <1>4, <2>1, <2>5, ResultType
       DEF Result, TakeSimd, Push, Statuses, Causes, NoActivation, Activations
  <2>7. LoopInv'
    BY <1>1, <1>4 DEF TakeSimd, Inv, LoopInv, SimdPcs, CheckPcs
  <2> QED BY <1>1, <2>3, <2>4, <2>6, <2>7 DEF Progress, Judged
<1>5. CASE s \in Registered
  <2>1. CurrentLabels' = SimdLabels(s)
    BY <1>1, <1>5 DEF TakeSimd, CurrentLabels, SimdLabels, Label, NoLabel
  <2>2. Outstanding' = Outstanding
    BY <1>1, <1>2, <1>3, <2>1, OutstandingFacts
  <2>3. LoopInv'
    BY <1>1, <1>5 DEF TakeSimd, Inv, LoopInv, Goto, Label, SimdPcs, CheckPcs
  <2> QED BY <1>1, <1>5, <2>2, <2>3 DEF TakeSimd, Progress, Quiet
<1> QED BY <1>4, <1>5

\* So does the loop over the checks.
LEMMA TakeCheckProgress ==
    ASSUME Inv, NEW c \in e2eTodo, TakeCheck(c)
    PROVE  Progress /\ LoopInv'
<1>1. /\ pc = "checks" /\ cur = NoLabel /\ todo = {} /\ e2eTodo \subseteq Checks
      /\ c \in Checks /\ e2eTodo' = e2eTodo \ {c} /\ \A d \in e2eTodo' : c < d
      /\ UNCHANGED <<inputs, todo, exit, delivered>> /\ exit = "running"
  BY ChecksAssumption DEF TakeCheck, IsFirst, Inv, LoopInv, TypeInv, TypeOK
<1>2. CurrentLabels = {}
  BY <1>1 DEF CurrentLabels
<1>3. CheckLabel(c) \in Labels /\ CheckLabel(c).kind = "e2e" /\ CheckLabel(c).id = c
  BY <1>1, LabelFacts, LabelSets
<1>4. CASE c \in Unresolved
  <2>1. CurrentLabels' = {}
    BY <1>2, <1>4 DEF TakeCheck, CurrentLabels
  <2>2. \A m \in Outstanding' : Before(CheckLabel(c), m)
    <3>1. \A d \in e2eTodo' : Before(CheckLabel(c), CheckLabel(d))
      BY <1>1, <1>3, LabelFacts DEF Before
    <3> QED BY <1>1, <2>1, <3>1, OutstandingFacts
  <2>3. CheckLabel(c) \in Outstanding /\ Outstanding' = Outstanding \ {CheckLabel(c)}
    <3>1. CheckLabel(c) \notin Outstanding'
      BY <1>3, <2>2, BeforeIrreflexive
    <3> QED BY <1>1, <1>2, <2>1, <3>1, OutstandingFacts
  <2>4. PICK x : x = Result(CheckLabel(c), "fail", "gates", FALSE, NoActivation)
    OBVIOUS
  <2>5. x \in Results /\ x.label = CheckLabel(c) /\ results' = Append(results, x)
    BY <1>3, <1>4, <2>4, ResultType
       DEF Result, TakeCheck, Push, Statuses, Causes, NoActivation, Activations
  <2>6. LoopInv'
    BY <1>1, <1>4 DEF TakeCheck, Inv, LoopInv, SimdPcs, CheckPcs
  <2> QED BY <1>1, <2>2, <2>3, <2>5, <2>6 DEF Progress, Judged
<1>5. CASE c \notin Unresolved
  <2>1. CurrentLabels' = {CheckLabel(c)}
    BY <1>1, <1>5 DEF TakeCheck, CurrentLabels, CheckLabel, Label, NoLabel
  <2>2. Outstanding' = Outstanding
    BY <1>1, <1>2, <2>1, OutstandingFacts
  <2>3. LoopInv'
    BY <1>1, <1>3, <1>5 DEF TakeCheck, Inv, LoopInv, Goto, SimdPcs, CheckPcs
  <2> QED BY <1>1, <1>5, <2>2, <2>3 DEF TakeCheck, Progress, Quiet
<1> QED BY <1>4, <1>5

\* Every step judges the first label, leaves the report alone, or ends the run.
LEMMA StepProgress == Inv /\ [Next]_vars => Progress /\ LoopInv'
<1> SUFFICES ASSUME Inv, [Next]_vars PROVE Progress /\ LoopInv'
  OBVIOUS
<1> USE DEF SimdPcs, CheckPcs
<1>0. /\ {"fail", "skip", "pending"} \subseteq Statuses
      /\ {"keypair", "noProgram", "deploy", "notDeployed", "airdrop", "unmet",
          "noImpl", "start"} \subseteq Causes
  BY DEF Statuses, Causes
<1>1. CASE Startup
  <2>1. CASE Abort
    BY <1>1, <2>1, AbortProgress DEF Startup, Inv, LoopInv
  <2>2. CASE entries = {} /\ e2eEntries = {} /\ Stop("success") /\ UNCHANGED delivered
    <3>1. /\ results = <<>> /\ todo = {} /\ e2eTodo = {} /\ cur = NoLabel
          /\ exit = "running" /\ ~delivered
      BY <1>1, <2>2 DEF Startup, Inv, LoopInv
    <3>2. Outstanding = {}
      BY <3>1, OutstandingFacts DEF CurrentLabels
    <3>3. Quiet /\ pc' = "stopped" /\ exit' = "success" /\ ~delivered'
      BY <2>2, <3>1, StopProgress
    <3>4. LoopInv'
      BY <3>3 DEF LoopInv
    <3> QED BY <3>1, <3>2, <3>3, <3>4 DEF Progress, Ending
  <2>3. CASE /\ Goto("simds")
             /\ UNCHANGED <<inputs, todo, e2eTodo, cur, handle, live, detected,
                            unmet, results, delivered, exit>>
    <3>1. LoopInv'
      BY <1>1, <2>3 DEF Startup, Inv, LoopInv, Goto
    <3> QED BY <2>3, <3>1, MoveProgress
  <2> QED BY <1>1, <2>1, <2>2, <2>3 DEF Startup
<1>2. ASSUME NEW s \in todo, TakeSimd(s) PROVE Progress /\ LoopInv'
  BY <1>2, TakeSimdProgress
<1>3. CASE SimdsDone
  <2>1. LoopInv'
    BY <1>3 DEF SimdsDone, Inv, LoopInv, Goto
  <2> QED BY <1>3, <2>1, MoveProgress DEF SimdsDone
<1>4. ASSUME pc \in SimdPcs \cup CheckPcs, NEW l \in SimdPcs \cup CheckPcs, Goto(l),
             pc \in SimdPcs <=> l \in SimdPcs,
             UNCHANGED <<inputs, todo, e2eTodo, cur, results, delivered, exit>>
      PROVE  Progress /\ LoopInv'
  <2>1. LoopInv'
    BY <1>4 DEF Inv, LoopInv, Goto
  <2> QED BY <1>4, <2>1, MoveProgress
<1>5. CASE StartSurfnet
  BY <1>4, <1>5, AbortProgress DEF StartSurfnet
<1>6. CASE Airdrop
  BY <1>4, <1>6, AbortProgress DEF Airdrop
<1>7. CASE ResolveProgram
  <2>1. CASE Abort
    BY <1>7, <2>1, AbortProgress DEF ResolveProgram
  <2>2. CASE EndPass("fail", "keypair")
    BY <1>0, <1>7, <2>2, EndPassProgress DEF ResolveProgram
  <2> QED BY <1>4, <1>7, <2>1, <2>2 DEF ResolveProgram
<1>8. CASE DeployProgram
  <2>1. ASSUME NEW s \in Statuses, NEW c \in Causes, EndPass(s, c)
        PROVE  Progress /\ LoopInv'
    BY <1>8, <2>1, EndPassProgress DEF DeployProgram
  <2> QED BY <1>0, <1>4, <1>8, <2>1 DEF DeployProgram
<1>9. CASE Detect
  BY <1>4, <1>9 DEF Detect
<1>10. CASE RunSimd
  <2>1. CASE Abort
    BY <1>10, <2>1, AbortProgress DEF RunSimd
  <2>2. CASE ~Abort
    <3>1. PICK status \in {"pass", "fail"}, sigs \in BOOLEAN :
             results' = Append(results, Result(cur, status, "ran", sigs,
                    [expected |-> expectActivated, known |-> TRUE,
                     detected |-> detected]))
      BY <1>10, <2>2 DEF RunSimd
    <3>2. [expected |-> expectActivated, known |-> TRUE, detected |-> detected]
             \in Activations
      BY DEF Activations, expectActivated, Inv, TypeInv, TypeOK
    <3>3. cur \in Labels
      BY <1>10, LabelFacts DEF RunSimd, Inv, TypeInv, CurTyped
    <3>4. PICK x : x = Result(cur, status, "ran", sigs,
                    [expected |-> expectActivated, known |-> TRUE, detected |-> detected])
      OBVIOUS
    <3>5. x \in Results /\ x.label = cur /\ results' = Append(results, x)
      BY <3>1, <3>2, <3>3, <3>4, ResultType DEF Result, Statuses, Causes
    <3>6. /\ pc \in SimdPcs /\ NextPass
          /\ UNCHANGED <<inputs, todo, e2eTodo, exit, delivered>>
      BY <1>10, <2>2 DEF RunSimd
    <3> QED BY <3>5, <3>6, EndOfPass DEF Progress
  <2> QED BY <2>1, <2>2
<1>11. ASSUME NEW c \in e2eTodo, TakeCheck(c) PROVE Progress /\ LoopInv'
  BY <1>11, TakeCheckProgress
<1>12. CASE ChecksDone
  <2>1. LoopInv'
    BY <1>12 DEF ChecksDone, Inv, LoopInv, Goto
  <2> QED BY <1>12, <2>1, MoveProgress DEF ChecksDone
<1>13. CASE E2eStartSurfnet
  <2>1. CASE Push(cur, "fail", "start") /\ NextCheck
    <3>1. cur \in Labels
      BY <1>13, LabelFacts DEF E2eStartSurfnet, Inv, TypeInv, CurTyped
    <3>2. PICK x : x = Result(cur, "fail", "start", FALSE, NoActivation)
      OBVIOUS
    <3>3. x \in Results /\ x.label = cur /\ results' = Append(results, x)
      BY <1>0, <2>1, <3>1, <3>2, ResultType DEF Result, Push, NoActivation, Activations
    <3>4. /\ pc \in CheckPcs /\ NextCheck
          /\ UNCHANGED <<inputs, todo, e2eTodo, exit, delivered>>
      BY <1>13, <2>1 DEF E2eStartSurfnet
    <3> QED BY <3>3, <3>4, EndOfCheck DEF Progress
  <2> QED BY <1>4, <1>13, <2>1 DEF E2eStartSurfnet
<1>14. ASSUME NEW s \in Statuses, NEW c \in Causes, EndCheck(s, c), pc \in CheckPcs
       PROVE  Progress /\ LoopInv'
  BY <1>14, EndCheckProgress
<1>15. CASE E2eAirdrop
  BY <1>0, <1>4, <1>14, <1>15 DEF E2eAirdrop
<1>16. CASE CheckRequirements
  BY <1>0, <1>4, <1>14, <1>16 DEF CheckRequirements
<1>17. CASE RunCheck
  <2>1. CASE EndCheck("skip", "noImpl")
    BY <1>0, <1>14, <1>17, <2>1 DEF RunCheck
  <2>2. CASE ~EndCheck("skip", "noImpl")
    <3>1. PICK outcome \in E2eOutcomes, sigs \in BOOLEAN :
             results' = Append(results,
                Result(cur, Reported(outcome), "ran", sigs, NoActivation))
      BY <1>17, <2>2 DEF RunCheck
    <3>2. Reported(outcome) \in Statuses /\ "ran" \in Causes
      BY OutcomesAssumption DEF Reported, Statuses, Causes
    <3>3. cur \in Labels
      BY <1>17, LabelFacts DEF RunCheck, Inv, TypeInv, CurTyped
    <3>4. PICK x : x = Result(cur, Reported(outcome), "ran", sigs, NoActivation)
      OBVIOUS
    <3>5. x \in Results /\ x.label = cur /\ results' = Append(results, x)
      BY <3>1, <3>2, <3>3, <3>4, ResultType DEF Result, NoActivation, Activations
    <3>6. /\ pc \in CheckPcs /\ NextCheck
          /\ UNCHANGED <<inputs, todo, e2eTodo, exit, delivered>>
      BY <1>17, <2>2 DEF RunCheck
    <3> QED BY <3>5, <3>6, EndOfCheck DEF Progress
  <2> QED BY <2>1, <2>2
<1>18. CASE Output
  <2>1. pc = "output" /\ exit = "running" /\ Outstanding = {}
    BY <1>18, OutstandingFacts DEF Output, Inv, LoopInv, CurrentLabels
  <2>2. CASE Abort
    BY <2>1, <2>2, AbortProgress
  <2>3. CASE delivered' = TRUE /\ Stop(ExitCode)
    <3>1. Quiet /\ pc' = "stopped" /\ exit' = ExitCode /\ delivered'
      BY <2>3, StopProgress
    <3>2. ExitCode # "running"
      BY DEF ExitCode
    <3>3. LoopInv'
      BY <3>1, <3>2 DEF LoopInv
    <3> QED BY <2>1, <3>1, <3>3 DEF Progress, Ending
  <2> QED BY <1>18, <2>2, <2>3 DEF Output
<1>19. ASSUME NEW s \in live, SurfnetEnds(s) PROVE Progress /\ LoopInv'
  <2>1. LoopInv'
    BY <1>19 DEF SurfnetEnds, Inv, LoopInv, inputs
  <2> QED BY <1>19, <2>1, MoveProgress DEF SurfnetEnds
<1>20. CASE UNCHANGED vars
  <2>1. LoopInv'
    BY <1>20 DEF vars, Inv, LoopInv
  <2> QED BY <1>20, <2>1, MoveProgress DEF vars, inputs
<1> QED BY <1>1, <1>2, <1>3, <1>5, <1>6, <1>7, <1>8, <1>9, <1>10, <1>11, <1>12,
           <1>13, <1>15, <1>16, <1>17, <1>18, <1>19, <1>20 DEF Next, Main

-----------------------------------------------------------------------------
(* The theorems.                                                           *)

\* The report and what is still to come make up the plan, in order; the exit
\* status is the verdict of what is in the report.
ReportInv ==
    /\ ReportInOrder
    /\ \A i \in 1..Len(results) : \A l \in Outstanding : Before(results[i].label, l)
    /\ {results[i].label : i \in 1..Len(results)} \cup Outstanding = Planned
    /\ delivered => Outstanding = {} /\ exit = ExitCode
    /\ exit = "success" /\ ~delivered => results = <<>> /\ Outstanding = {}

IReport == Inv /\ ReportInv

LEMMA IReportInit == Init => IReport
<1> SUFFICES ASSUME Init PROVE IReport
  OBVIOUS
<1>1. Inv
  BY TypeInvInit DEF Init, Inv, LoopInv, SimdPcs, CheckPcs
<1>2. Outstanding = Planned
  BY DEF Init, Outstanding, Planned, CurrentLabels
<1>3. ReportInv
  BY <1>2 DEF Init, ReportInv, ReportInOrder
<1> QED BY <1>1, <1>3 DEF IReport

\* A step that judges keeps it.
LEMMA JudgedReport ==
    ASSUME IReport, Inv', Judged, UNCHANGED <<exit, delivered, inputs>>
    PROVE  ReportInv'
<1> USE DEF IReport, ReportInv
<1>1. PICK x \in Results :
        /\ results' = Append(results, x)
        /\ x.label \in Outstanding /\ Outstanding' = Outstanding \ {x.label}
        /\ \A l \in Outstanding' : Before(x.label, l)
  BY DEF Judged
<1>2. /\ Len(results') = Len(results) + 1 /\ Len(results) \in Nat
      /\ \A i \in 1..Len(results) : results'[i] = results[i]
      /\ results'[Len(results) + 1] = x
  BY <1>1 DEF Inv, TypeInv, TypeOK
<1>3. ReportInOrder'
  BY <1>1, <1>2 DEF ReportInOrder
<1>4. (\A i \in 1..Len(results) : \A l \in Outstanding : Before(results[i].label, l))'
  BY <1>1, <1>2
<1>5. {results'[i].label : i \in 1..Len(results')} =
         {results[i].label : i \in 1..Len(results)} \cup {x.label}
  BY <1>2
<1>6. Planned' = Planned
  BY DEF Planned, SimdLabels, inputs
<1>7. ~delivered /\ exit # "success"
  BY DEF Inv, LoopInv, Judged
<1> QED BY <1>1, <1>3, <1>4, <1>5, <1>6, <1>7

\* So does one that leaves the report alone.
LEMMA QuietReport ==
    ASSUME IReport, Quiet, UNCHANGED inputs
    PROVE  /\ ReportInOrder'
           /\ (\A i \in 1..Len(results) : \A l \in Outstanding : Before(results[i].label, l))'
           /\ ({results[i].label : i \in 1..Len(results)} \cup Outstanding = Planned)'
           /\ ExitCode' = ExitCode
<1>1. Planned' = Planned
  BY DEF Planned, SimdLabels, inputs
<1> QED BY <1>1 DEF IReport, ReportInv, Quiet, ReportInOrder, ExitCode, Fails

LEMMA IReportNext == IReport /\ [Next]_vars => IReport'
<1> SUFFICES ASSUME IReport, [Next]_vars PROVE IReport'
  OBVIOUS
<1>1. Inv' /\ Progress
  BY TypeInvNext, StepProgress DEF IReport, Inv
<1>2. UNCHANGED inputs
  BY DEF Next, Main, vars, inputs, Startup, TakeSimd, SimdsDone, StartSurfnet, Airdrop,
         ResolveProgram, DeployProgram, Detect, RunSimd, TakeCheck, ChecksDone,
         E2eStartSurfnet, E2eAirdrop, CheckRequirements, RunCheck, Output,
         SurfnetEnds, EndPass, EndCheck, Abort, Stop
<1>3. CASE Quiet /\ UNCHANGED <<exit, delivered>>
  BY <1>1, <1>2, <1>3, QuietReport DEF IReport, ReportInv, Quiet
<1>4. CASE Judged /\ UNCHANGED <<exit, delivered>>
  BY <1>1, <1>2, <1>4, JudgedReport DEF IReport
<1>5. CASE Ending
  BY <1>1, <1>2, <1>5, QuietReport DEF IReport, ReportInv, Ending, Quiet
<1> QED BY <1>1, <1>3, <1>4, <1>5 DEF Progress

LEMMA ReportInvariance == Spec => []IReport
BY IReportInit, IReportNext, PTL DEF Spec

\* The report is sorted and names no label twice, whatever order the HashMap of
\* the manifest is iterated in.
THEOREM ReportSorted == Spec => []ReportInOrder
<1>1. IReport => ReportInOrder
  BY DEF IReport, ReportInv
<1> QED BY <1>1, ReportInvariance, PTL

\* No `continue` and no early end of a pass or check loses a label or judges it
\* twice.
THEOREM NothingIsLost == Spec => []NothingLost
<1>1. IReport => NothingLost
  <2> SUFFICES ASSUME IReport PROVE NothingLost
    OBVIOUS
  <2> DEFINE done == {results[i].label : i \in 1..Len(results)}
  <2>1. done \cup Outstanding = Planned /\ (delivered => Outstanding = {})
    BY DEF IReport, ReportInv
  <2>2. ASSUME NEW i \in 1..Len(results), results[i].label \in Outstanding PROVE FALSE
    <3>1. results[i].label \in Labels
      <4>1. results \in Seq(Results)
        BY DEF IReport, Inv, TypeInv, TypeOK
      <4>2. results[i] \in Results
        BY <2>2, <4>1
      <4> QED BY <4>2 DEF Results
    <3> QED BY <2>2, <3>1, BeforeIrreflexive DEF IReport, ReportInv
  <2>3. done \cap Outstanding = {}
    BY <2>2
  <2> QED BY <2>1, <2>3 DEF NothingLost
<1> QED BY <1>1, ReportInvariance, PTL

\* The exit status says what the report says, and is not a success when the
\* report was lost.
THEOREM ExitStatus == Spec => []ExitIsVerdict
<1>1. IReport => ExitIsVerdict
  <2> SUFFICES ASSUME IReport PROVE ExitIsVerdict
    OBVIOUS
  <2>1. results = <<>> => Fails(results) = {}
    BY DEF Fails
  <2>2. results = <<>> /\ Outstanding = {} => Planned = {}
    BY DEF IReport, ReportInv
  <2>3. delivered => exit = ExitCode
    BY DEF IReport, ReportInv
  <2> QED BY <2>1, <2>2, <2>3 DEF IReport, ReportInv, ExitIsVerdict, ExitCode
<1> QED BY <1>1, ReportInvariance, PTL

\* No step of a check stops the process.
LEMMA CheckGoesOn ==
    ASSUME pc \in CheckPcs, [Next]_vars
    PROVE  pc' # "stopped"
<1> USE DEF CheckPcs
<1>1. CASE E2eStartSurfnet \/ E2eAirdrop
  BY <1>1 DEF E2eStartSurfnet, E2eAirdrop, EndCheck, NextCheck, Goto
<1>2. CASE CheckRequirements \/ RunCheck
  BY <1>2 DEF CheckRequirements, RunCheck, EndCheck, NextCheck, Goto
<1>3. CASE UNCHANGED vars \/ \E s \in live : SurfnetEnds(s)
  BY <1>3 DEF vars, SurfnetEnds
<1> QED BY <1>1, <1>2, <1>3
        DEF Next, Main, Startup, TakeSimd, SimdsDone, StartSurfnet, Airdrop, ResolveProgram,
            DeployProgram, Detect, RunSimd, TakeCheck, ChecksDone, Output

\* Whatever happens to one check stays with it: no step of a check ends the run
\* or touches a result pushed before (the loop over e2e_entries of main()).
THEOREM ChecksAreIsolated == Spec => E2eIsolation
<1>1. IReport /\ IReport' /\ [Next]_vars =>
        [(pc \in CheckPcs =>
             /\ exit' = "running"
             /\ SubSeq(results', 1, Len(results)) = results)]_vars
  <2> SUFFICES ASSUME IReport, IReport', [Next]_vars, pc \in CheckPcs
               PROVE  exit' = "running" /\ SubSeq(results', 1, Len(results)) = results
    OBVIOUS
  <2>1. pc' # "stopped"
    BY CheckGoesOn
  <2>2. exit' = "running"
    BY <2>1 DEF IReport, Inv, LoopInv
  <2>3. Judged \/ Quiet
    BY <2>1, StepProgress DEF IReport, Progress, Ending
  <2>4. results \in Seq(Results) /\ results' \in Seq(Results)
    BY DEF IReport, Inv, TypeInv, TypeOK
  <2>5. /\ Len(results) \in Nat /\ Len(results') \in Nat /\ Len(results) <= Len(results')
        /\ \A i \in 1..Len(results) : results'[i] = results[i]
    BY <2>3, <2>4 DEF Judged, Quiet
  <2>6. SubSeq(results', 1, Len(results)) = results
    BY <2>4, <2>5
  <2> QED BY <2>2, <2>6
<1> QED BY <1>1, ReportInvariance, PTL DEF Spec, E2eIsolation

-----------------------------------------------------------------------------
(* The refinement.                                                         *)

\* The verdicts Campaign sees, and what a push adds to them.
Verdicts == [i \in DOMAIN results |->
                [label |-> results[i].label, status |-> results[i].status]]

LEMMA VerdictFacts ==
    ASSUME TypeOK
    PROVE  /\ Verdicts \in Seq([label : Labels, status : Statuses])
           /\ Len(Verdicts) = Len(results)
           /\ \A i \in 1..Len(results) : Verdicts[i].status = results[i].status
           /\ results = <<>> => Verdicts = <<>>
<1> USE DEF Verdicts
<1>1. Len(results) \in Nat /\ DOMAIN results = 1..Len(results)
  BY DEF TypeOK
<1>2. \A i \in 1..Len(results) : results[i] \in Results
  BY <1>1 DEF TypeOK
<1>3. Verdicts \in [1..Len(results) -> [label : Labels, status : Statuses]]
  BY <1>1, <1>2 DEF Results
<1>4. Verdicts \in Seq([label : Labels, status : Statuses])
  BY <1>1, <1>3, SeqDef
<1>5. Len(Verdicts) = Len(results)
  BY <1>1, <1>4, LenProperties
<1>6. results = <<>> => Verdicts = <<>>
  BY <1>4, <1>5, EmptySeq
<1> QED BY <1>1, <1>4, <1>5, <1>6

LEMMA VerdictPushed ==
    ASSUME TypeOK, TypeOK', NEW x \in Results, results' = Append(results, x)
    PROVE  Verdicts' = Append(Verdicts, [label |-> x.label, status |-> x.status])
<1> DEFINE e == [label |-> x.label, status |-> x.status]
<1> DEFINE T == [label : Labels, status : Statuses]
<1>1. Verdicts \in Seq(T) /\ Len(Verdicts) = Len(results) /\ Len(results) \in Nat
  BY VerdictFacts DEF TypeOK
<1>2. Verdicts' \in Seq(T) /\ Len(Verdicts') = Len(results')
  <2>1. (Verdicts \in Seq(T) /\ Len(Verdicts) = Len(results))'
    BY VerdictFacts, PTL
  <2> QED BY <2>1
<1>3. e \in T
  BY DEF Results
<1>4. /\ Len(results') = Len(results) + 1
      /\ \A i \in 1..Len(results) : results'[i] = results[i]
      /\ results'[Len(results) + 1] = x
      /\ DOMAIN results = 1..Len(results) /\ DOMAIN results' = 1..Len(results')
  BY DEF TypeOK
<1>5. /\ Append(Verdicts, e) \in Seq(T) /\ Len(Append(Verdicts, e)) = Len(Verdicts) + 1
      /\ \A i \in 1..Len(Verdicts) : Append(Verdicts, e)[i] = Verdicts[i]
      /\ Append(Verdicts, e)[Len(Verdicts) + 1] = e
  BY <1>1, <1>3, AppendProperties
<1>6. \A i \in 1..Len(results') : Verdicts'[i] = Append(Verdicts, e)[i]
  <2> SUFFICES ASSUME NEW i \in 1..Len(results') PROVE Verdicts'[i] = Append(Verdicts, e)[i]
    OBVIOUS
  <2>1. Verdicts'[i] = [label |-> results'[i].label, status |-> results'[i].status]
    BY <1>4 DEF Verdicts
  <2>2. CASE i \in 1..Len(results)
    BY <1>1, <1>4, <1>5, <2>1, <2>2 DEF Verdicts
  <2>3. CASE i = Len(results) + 1
    BY <1>1, <1>4, <1>5, <2>1, <2>3
  <2> QED BY <1>1, <1>4, <2>2, <2>3
<1> QED BY <1>1, <1>2, <1>4, <1>5, <1>6, SeqEqual

\* The selection is a plan.
LEMMA CampaignInit == Init => Promise!Init
<1> SUFFICES ASSUME Init PROVE Promise!Init
  OBVIOUS
<1>1. TypeOK /\ Outstanding \subseteq Labels
  <2>1. TypeInv /\ todo \subseteq Simds /\ e2eTodo \subseteq Checks /\ cur = NoLabel
    BY TypeInvInit DEF Init
  <2> QED BY <2>1, LabelFacts, LabelSets, OutstandingFacts DEF TypeInv, CurrentLabels
<1>2. Verdicts = <<>>
  BY <1>1, VerdictFacts DEF Init
<1> QED BY <1>1, <1>2 DEF Init, Promise!Init, Verdicts

\* Every step of the runner is one of Campaign's, or none.
LEMMA CampaignNext ==
    IReport /\ IReport' /\ [Next]_vars => [Promise!Next]_Promise!vars
<1> SUFFICES ASSUME IReport, IReport', [Next]_vars
             PROVE  [Promise!Next]_Promise!vars
  OBVIOUS
<1>1. Progress /\ TypeOK /\ TypeOK'
  BY StepProgress DEF IReport, Inv, TypeInv
<1>2. CASE Quiet /\ UNCHANGED exit
  BY <1>2 DEF Promise!vars, Quiet
<1>3. CASE Judged /\ UNCHANGED exit
  <2>1. PICK x \in Results :
          /\ results' = Append(results, x)
          /\ x.label \in Outstanding /\ Outstanding' = Outstanding \ {x.label}
          /\ \A l \in Outstanding' : Before(x.label, l)
    BY <1>3 DEF Judged
  <2>2. Verdicts' = Append(Verdicts, [label |-> x.label, status |-> x.status])
    BY <1>1, <2>1, VerdictPushed
  <2>3. x.status \in {"pass", "fail", "skip", "pending"}
    BY DEF Results, Statuses
  <2>4. Promise!Judge(x.label)
    BY <1>3, <2>1, <2>2, <2>3 DEF Judged, Promise!Judge, Verdicts
  <2> QED BY <2>1, <2>4 DEF Promise!Next
<1>4. CASE Ending
  <2>1. UNCHANGED <<Outstanding, results>> /\ exit = "running"
    BY <1>4 DEF Ending, Quiet
  <2>2. CASE /\ exit' = "failure"
             /\ \/ results = <<>> \/ Outstanding = {}
                \/ \E l \in Outstanding : l.kind = "simd"
    <3>1. Promise!Abort
      BY <1>1, <2>1, <2>2, VerdictFacts DEF Promise!Abort, Verdicts
    <3> QED BY <3>1 DEF Promise!Next
  <2>3. CASE exit' = ExitCode /\ Outstanding = {}
    <3>1. (\E i \in 1..Len(Verdicts) : Verdicts[i].status = "fail") <=> Fails(results) # {}
      BY <1>1, VerdictFacts DEF Fails
    <3>2. Promise!Finish
      BY <2>1, <2>3, <3>1 DEF Promise!Finish, ExitCode, Verdicts
    <3> QED BY <3>2 DEF Promise!Next
  <2>4. CASE exit' = "success" /\ results = <<>> /\ Outstanding = {}
    <3>1. Len(Verdicts) = 0
      BY <1>1, <2>4, VerdictFacts
    <3>2. Promise!Finish
      BY <2>1, <2>4, <3>1 DEF Promise!Finish, Verdicts
    <3> QED BY <3>2 DEF Promise!Next
  <2> QED BY <1>4, <2>2, <2>3, <2>4 DEF Ending
<1> QED BY <1>1, <1>2, <1>3, <1>4 DEF Progress

\* The runner implements Campaign, but for its fairness: the labels of the
\* selection are judged one by one in the order of the report, and only the
\* startup, a SIMD or the output can cost the whole report.
THEOREM ImplementsCampaignSafety ==
    Spec => Promise!Init /\ [][Promise!Next]_(Promise!vars)
BY CampaignInit, CampaignNext, ReportInvariance, PTL DEF Spec

-----------------------------------------------------------------------------
(* Unmet requirements.                                                     *)

\* A check that is unmet has been looked at, and its body runs with the flag.
UnmetLoop ==
    /\ \A c \in e2eTodo : c \notin unmet
    /\ pc \in {"e2eStart", "e2eAirdrop", "requirements"} => cur.id \notin unmet
    /\ pc = "e2eRun" /\ cur.id \in unmet => runPending

\* What UnmetNeverJudged says of one result.
Fit(r) ==
    /\ r.label.kind = "e2e" /\ r.label.id \in unmet =>
          /\ r.status \in {"pending", "skip"}
          /\ r.cause = "ran" \/ r.status = "skip" => runPending
    /\ r.status = "pending" => r.label.id \in unmet

IUnmet == IReport /\ UnmetLoop /\ UnmetNeverJudged

\* A check that turns out unmet has no result yet.
LEMMA CurHasNoResult ==
    ASSUME IReport, pc = "requirements", NEW i \in 1..Len(results),
           results[i].label.kind = "e2e"
    PROVE  results[i].label.id # cur.id
<1>1. cur \in CheckLabelSet /\ cur \in Outstanding
  BY LabelFacts, OutstandingFacts
     DEF IReport, Inv, TypeInv, CurTyped, CheckPcs, CurrentLabels, CheckLabelSet
<1>2. Before(results[i].label, cur)
  BY <1>1 DEF IReport, ReportInv
<1>3. cur.id \in Nat /\ cur.kind = "e2e" /\ cur.pass = "none"
  BY <1>1, LabelFacts DEF CheckLabelSet
<1> QED BY <1>2, <1>3 DEF Before

\* The results stay fit when the list of unmet checks grows.
LEMMA FitKept ==
    ASSUME IUnmet, UNCHANGED runPending,
           \/ unmet' = unmet
           \/ pc = "requirements" /\ unmet' = unmet \cup {cur.id},
           NEW r, NEW i \in 1..Len(results), r = results[i]
    PROVE  Fit(r)'
<1>1. Fit(r)
  BY DEF IUnmet, UnmetNeverJudged, Fit
<1>2. r.label.kind = "e2e" /\ r.label.id \in unmet' => r.label.id \in unmet
  BY CurHasNoResult DEF IUnmet
<1>3. unmet \subseteq unmet'
  OBVIOUS
<1> QED BY <1>1, <1>2, <1>3 DEF Fit

LEMMA FitPushed ==
    ASSUME IUnmet, UNCHANGED runPending,
           \/ unmet' = unmet
           \/ pc = "requirements" /\ unmet' = unmet \cup {cur.id},
           NEW x, results' = Append(results, x), Fit(x)'
    PROVE  UnmetNeverJudged'
<1>1. /\ Len(results') = Len(results) + 1 /\ Len(results) \in Nat
      /\ \A i \in 1..Len(results) : results'[i] = results[i]
      /\ results'[Len(results) + 1] = x
  BY DEF IUnmet, IReport, Inv, TypeInv, TypeOK
<1>2. ASSUME NEW i \in 1..Len(results') PROVE Fit(results[i])'
  <2>1. PICK r : r = results'[i]
    OBVIOUS
  <2>2. CASE i \in 1..Len(results)
    <3>1. r = results[i]
      BY <1>1, <2>1, <2>2
    <3>2. Fit(r)'
      BY <2>2, <3>1, FitKept
    <3> QED BY <2>1, <3>2 DEF Fit
  <2>3. CASE i = Len(results) + 1
    BY <1>1, <2>3 DEF Fit
  <2> QED BY <1>1, <2>2, <2>3
<1> QED BY <1>2 DEF UnmetNeverJudged, Fit

\* A step without a result.
LEMMA FitUnpushed ==
    ASSUME IUnmet, UNCHANGED <<runPending, results>>,
           \/ unmet' = unmet
           \/ pc = "requirements" /\ unmet' = unmet \cup {cur.id}
    PROVE  UnmetNeverJudged'
<1>1. ASSUME NEW i \in 1..Len(results') PROVE Fit(results[i])'
  <2>1. PICK r : r = results[i]
    OBVIOUS
  <2>2. Fit(r)'
    BY <2>1, FitKept
  <2> QED BY <2>1, <2>2 DEF Fit
<1> QED BY <1>1 DEF UnmetNeverJudged, Fit

\* A step of the SIMDs, with or without a result of theirs.
LEMMA SimdStepUnmet ==
    ASSUME IUnmet, UNCHANGED <<runPending, e2eTodo, unmet>>, pc' \notin CheckPcs,
           \/ UNCHANGED results
           \/ \E x : /\ results' = Append(results, x) /\ x.label.kind = "simd"
                    /\ x.status # "pending"
    PROVE  UnmetLoop' /\ UnmetNeverJudged'
<1>1. UnmetLoop'
  BY DEF IUnmet, UnmetLoop, CheckPcs
<1>2. UnmetNeverJudged'
  BY FitPushed, FitUnpushed DEF Fit
<1> QED BY <1>1, <1>2

LEMMA EndPassUnmet ==
    ASSUME IUnmet, pc \in SimdPcs, NEW s, NEW c, EndPass(s, c), s # "pending"
    PROVE  UnmetLoop' /\ UnmetNeverJudged'
<1>1. cur.kind = "simd"
  BY LabelFacts DEF IUnmet, IReport, Inv, TypeInv, CurTyped
<1>2. PICK x : x = Result(cur, s, c, FALSE, NoActivation)
  OBVIOUS
<1>3. results' = Append(results, x) /\ x.label.kind = "simd" /\ x.status # "pending"
  BY <1>1, <1>2 DEF EndPass, Push, Result
<1>4. UNCHANGED <<runPending, e2eTodo, unmet>> /\ pc' \notin CheckPcs
  BY DEF EndPass, NextPass, Goto, inputs, CheckPcs
<1> QED BY <1>3, <1>4, SimdStepUnmet

\* A check ends with a result that fits it.
LEMMA EndCheckUnmet ==
    ASSUME IUnmet, pc \in CheckPcs, NEW x, results' = Append(results, x), x.label = cur,
           \/ unmet' = unmet
           \/ pc = "requirements" /\ unmet' = unmet \cup {cur.id},
           NextCheck, UNCHANGED <<runPending, e2eTodo>>,
           IF cur.id \in unmet'
           THEN \/ x.status = "pending" /\ (x.cause = "ran" => runPending)
                \/ x.status = "skip" /\ runPending
           ELSE x.status # "pending"
    PROVE  UnmetLoop' /\ UnmetNeverJudged'
<1>1. Fit(x)'
  BY DEF Fit
<1>2. UnmetNeverJudged'
  BY <1>1, FitPushed
<1>3. cur.id \in Nat /\ e2eTodo \subseteq Nat /\ \A c \in e2eTodo : cur.id < c
  BY LabelFacts, ChecksAssumption
     DEF IUnmet, IReport, Inv, LoopInv, TypeInv, TypeOK, CurTyped
<1>4. UnmetLoop'
  BY <1>3 DEF IUnmet, UnmetLoop, NextCheck, Goto
<1> QED BY <1>2, <1>4

LEMMA IUnmetNext == IUnmet /\ [Next]_vars => IUnmet'
<1> SUFFICES ASSUME IUnmet, [Next]_vars PROVE UnmetLoop' /\ UnmetNeverJudged'
  BY IReportNext DEF IUnmet
<1> USE DEF SimdPcs, CheckPcs
<1>1. ASSUME NEW code, Stop(code) PROVE UnmetLoop' /\ UnmetNeverJudged'
  BY <1>1, SimdStepUnmet DEF Stop, Goto, inputs
<1>2. CASE Startup
  BY <1>1, <1>2, SimdStepUnmet DEF Startup, Abort, Goto, inputs
<1>3. ASSUME NEW s \in todo, TakeSimd(s) PROVE UnmetLoop' /\ UnmetNeverJudged'
  <2>1. UNCHANGED <<runPending, e2eTodo, unmet>>
    BY <1>3 DEF TakeSimd, inputs
  <2>2. CASE s \in Registered
    BY <1>3, <2>1, <2>2, SimdStepUnmet DEF TakeSimd, Goto
  <2>3. CASE s \notin Registered
    <3>1. PICK x : x = Result(Label("simd", s, "none"), "skip", "noImpl", FALSE, NoActivation)
      OBVIOUS
    <3>2. results' = Append(results, x) /\ x.label.kind = "simd" /\ x.status # "pending"
      BY <1>3, <2>3, <3>1 DEF TakeSimd, Push, Result, Label
    <3>3. pc' = "simds"
      BY <1>3, <2>3 DEF TakeSimd
    <3> QED BY <2>1, <3>2, <3>3, SimdStepUnmet
  <2> QED BY <2>2, <2>3
<1>4. CASE SimdsDone \/ StartSurfnet \/ Airdrop \/ Detect
  BY <1>1, <1>4, SimdStepUnmet
     DEF SimdsDone, StartSurfnet, Airdrop, Detect, Abort, Goto, inputs
<1>5. CASE ResolveProgram
  <2>1. CASE EndPass("fail", "keypair")
    BY <1>5, <2>1, EndPassUnmet DEF ResolveProgram
  <2> QED BY <1>1, <1>5, <2>1, SimdStepUnmet DEF ResolveProgram, Abort, Goto, inputs
<1>6. CASE DeployProgram
  <2>1. ASSUME NEW s \in {"fail", "skip"}, NEW c, EndPass(s, c)
        PROVE  UnmetLoop' /\ UnmetNeverJudged'
    BY <1>6, <2>1, EndPassUnmet DEF DeployProgram
  <2> QED BY <1>6, <2>1, SimdStepUnmet DEF DeployProgram, Goto, inputs
<1>7. CASE RunSimd
  <2>1. CASE ~Abort
    <3>1. PICK status \in {"pass", "fail"}, sigs \in BOOLEAN :
             results' = Append(results, Result(cur, status, "ran", sigs,
                    [expected |-> expectActivated, known |-> TRUE,
                     detected |-> detected]))
      BY <1>7, <2>1 DEF RunSimd
    <3>2. PICK x : x = Result(cur, status, "ran", sigs,
                    [expected |-> expectActivated, known |-> TRUE, detected |-> detected])
      OBVIOUS
    <3>3. cur.kind = "simd"
      BY <1>7, LabelFacts DEF RunSimd, IUnmet, IReport, Inv, TypeInv, CurTyped
    <3>4. results' = Append(results, x) /\ x.label.kind = "simd" /\ x.status # "pending"
      BY <3>1, <3>2, <3>3 DEF Result
    <3>5. UNCHANGED <<runPending, e2eTodo, unmet>> /\ pc' \notin CheckPcs
      BY <1>7, <2>1 DEF RunSimd, NextPass, Goto, inputs
    <3> QED BY <3>4, <3>5, SimdStepUnmet
  <2> QED BY <1>1, <2>1 DEF Abort
<1>8. ASSUME NEW c \in e2eTodo, TakeCheck(c) PROVE UnmetLoop' /\ UnmetNeverJudged'
  <2>1. /\ UNCHANGED <<runPending, unmet>> /\ e2eTodo' = e2eTodo \ {c}
        /\ c \notin unmet /\ CheckLabel(c).id = c /\ pc = "checks"
    BY <1>8, LabelFacts
       DEF TakeCheck, inputs, IUnmet, UnmetLoop, IReport, Inv, TypeInv, TypeOK
  <2>2. CASE c \in Unresolved
    <3>1. PICK x : x = Result(CheckLabel(c), "fail", "gates", FALSE, NoActivation)
      OBVIOUS
    <3>2. results' = Append(results, x) /\ x.label.id = c /\ x.status = "fail"
      BY <1>8, <2>1, <2>2, <3>1 DEF TakeCheck, Push, Result
    <3>3. Fit(x)'
      BY <2>1, <3>2 DEF Fit
    <3>4. pc' = "checks"
      BY <1>8, <2>1, <2>2 DEF TakeCheck
    <3>5. UnmetLoop'
      BY <2>1, <3>4 DEF IUnmet, UnmetLoop
    <3> QED BY <2>1, <3>2, <3>3, <3>5, FitPushed
  <2>3. CASE c \notin Unresolved
    <3>1. cur'.id = c /\ pc' \in {"e2eStart", "requirements"} /\ results' = results
      BY <1>8, <2>1, <2>3 DEF TakeCheck, Goto
    <3>2. UnmetLoop'
      BY <2>1, <3>1 DEF IUnmet, UnmetLoop
    <3> QED BY <2>1, <3>1, <3>2, FitUnpushed
  <2> QED BY <2>2, <2>3
<1>9. CASE ChecksDone
  BY <1>9, SimdStepUnmet DEF ChecksDone, Goto, inputs
<1>10. CASE E2eStartSurfnet
  <2>1. cur.id \notin unmet /\ pc = "e2eStart" /\ UNCHANGED <<runPending, e2eTodo, unmet>>
    BY <1>10 DEF E2eStartSurfnet, inputs, IUnmet, UnmetLoop
  <2>2. CASE Push(cur, "fail", "start") /\ NextCheck
    <3>1. PICK x : x = Result(cur, "fail", "start", FALSE, NoActivation)
      OBVIOUS
    <3>2. results' = Append(results, x) /\ x.label = cur /\ x.status = "fail"
      BY <2>2, <3>1 DEF Push, Result
    <3> QED BY <2>1, <2>2, <3>2, EndCheckUnmet
  <2>3. CASE Goto("e2eAirdrop") /\ UNCHANGED <<cur, results>>
    <3>1. UnmetLoop'
      BY <2>1, <2>3 DEF IUnmet, UnmetLoop, Goto
    <3> QED BY <2>1, <2>3, <3>1, FitUnpushed
  <2> QED BY <1>10, <2>2, <2>3 DEF E2eStartSurfnet
<1>11. CASE E2eAirdrop
  <2>1. cur.id \notin unmet /\ pc = "e2eAirdrop" /\ UNCHANGED unmet
    BY <1>11 DEF E2eAirdrop, IUnmet, UnmetLoop
  <2>2. CASE EndCheck("fail", "airdrop")
    <3>1. PICK x : x = Result(cur, "fail", "airdrop", FALSE, NoActivation)
      OBVIOUS
    <3>2. results' = Append(results, x) /\ x.label = cur /\ x.status = "fail"
      BY <2>2, <3>1 DEF EndCheck, Push, Result
    <3>3. NextCheck /\ UNCHANGED <<runPending, e2eTodo>>
      BY <2>2 DEF EndCheck, inputs
    <3> QED BY <2>1, <3>2, <3>3, EndCheckUnmet
  <2>3. CASE Goto("requirements") /\ UNCHANGED <<inputs, e2eTodo, cur, results>>
    <3>1. UnmetLoop'
      BY <2>1, <2>3 DEF IUnmet, UnmetLoop, Goto, inputs
    <3> QED BY <2>1, <2>3, <3>1, FitUnpushed DEF inputs
  <2> QED BY <1>11, <2>2, <2>3 DEF E2eAirdrop
<1>12. CASE CheckRequirements
  <2>1. /\ pc = "requirements" /\ unmet' \in {unmet, unmet \cup {cur.id}}
        /\ cur.id \notin unmet
    BY <1>12 DEF CheckRequirements, IUnmet, UnmetLoop
  <2>2. CASE cur.id \in unmet' /\ ~runPending
    <3>1. EndCheck("pending", "unmet")
      BY <1>12, <2>2 DEF CheckRequirements
    <3>2. PICK x : x = Result(cur, "pending", "unmet", FALSE, NoActivation)
      OBVIOUS
    <3>3. /\ results' = Append(results, x)
          /\ x.label = cur /\ x.status = "pending" /\ x.cause = "unmet"
      BY <3>1, <3>2 DEF EndCheck, Push, Result
    <3>4. NextCheck /\ UNCHANGED <<runPending, e2eTodo>>
      BY <3>1 DEF EndCheck, inputs
    <3> QED BY <2>1, <2>2, <3>3, <3>4, EndCheckUnmet
  <2>3. CASE ~(cur.id \in unmet' /\ ~runPending)
    <3>1. Goto("e2eRun") /\ UNCHANGED <<inputs, e2eTodo, cur, results>>
      BY <1>12, <2>3 DEF CheckRequirements
    <3>2. cur.id \in Nat /\ e2eTodo \subseteq Nat /\ \A c \in e2eTodo : cur.id < c
      BY <2>1, LabelFacts, ChecksAssumption
         DEF IUnmet, IReport, Inv, LoopInv, TypeInv, TypeOK, CurTyped
    <3>3. UnmetLoop'
      BY <2>1, <2>3, <3>1, <3>2 DEF IUnmet, UnmetLoop, Goto, inputs
    <3> QED BY <2>1, <3>1, <3>3, FitUnpushed DEF inputs
  <2> QED BY <2>2, <2>3
<1>13. CASE RunCheck
  <2>1. pc = "e2eRun" /\ (cur.id \in unmet => runPending) /\ UNCHANGED unmet
    BY <1>13 DEF RunCheck, IUnmet, UnmetLoop
  <2>2. CASE EndCheck("skip", "noImpl")
    <3>1. PICK x : x = Result(cur, "skip", "noImpl", FALSE, NoActivation)
      OBVIOUS
    <3>2. results' = Append(results, x) /\ x.label = cur /\ x.status = "skip"
      BY <2>2, <3>1 DEF EndCheck, Push, Result
    <3>3. NextCheck /\ UNCHANGED <<runPending, e2eTodo>>
      BY <2>2 DEF EndCheck, inputs
    <3> QED BY <2>1, <3>2, <3>3, EndCheckUnmet
  <2>3. CASE ~EndCheck("skip", "noImpl")
    <3>1. PICK outcome \in E2eOutcomes, sigs \in BOOLEAN :
             results' = Append(results,
                Result(cur, Reported(outcome), "ran", sigs, NoActivation))
      BY <1>13, <2>3 DEF RunCheck
    <3>2. PICK x : x = Result(cur, Reported(outcome), "ran", sigs, NoActivation)
      OBVIOUS
    <3>3. results' = Append(results, x) /\ x.label = cur /\ x.status = Reported(outcome)
      BY <3>1, <3>2 DEF Result
    <3>4. IF cur.id \in unmet THEN x.status = "pending" ELSE x.status # "pending"
      BY <3>3, OutcomesAssumption DEF Reported
    <3>5. NextCheck /\ UNCHANGED <<runPending, e2eTodo>>
      BY <1>13, <2>3 DEF RunCheck, inputs
    <3> QED BY <2>1, <3>3, <3>4, <3>5, EndCheckUnmet
  <2> QED BY <2>2, <2>3
<1>14. CASE Output
  BY <1>1, <1>14 DEF Output, Abort
<1>15. ASSUME NEW s \in live, SurfnetEnds(s) PROVE UnmetLoop' /\ UnmetNeverJudged'
  <2>1. UNCHANGED <<runPending, e2eTodo, unmet, pc, cur, results>>
    BY <1>15 DEF SurfnetEnds, inputs
  <2> QED BY <2>1, FitUnpushed DEF IUnmet, UnmetLoop
<1>16. CASE UNCHANGED vars
  BY <1>16, FitUnpushed DEF vars, IUnmet, UnmetLoop
<1> QED BY <1>2, <1>3, <1>4, <1>5, <1>6, <1>7, <1>8, <1>9, <1>10, <1>11, <1>12,
           <1>13, <1>14, <1>15, <1>16 DEF Next, Main

\* A check whose requirements are unmet is never reported as passed or failed,
\* whatever its body returns, and PENDING is reported of no other.
THEOREM UnmetIsPending == Spec => []UnmetNeverJudged
<1>1. Init => IUnmet
  BY IReportInit DEF Init, IUnmet, UnmetLoop, UnmetNeverJudged
<1>2. IUnmet => UnmetNeverJudged
  BY DEF IUnmet
<1> QED BY <1>1, <1>2, IUnmetNext, PTL DEF Spec

-----------------------------------------------------------------------------
(* The run goes on towards its end.                                        *)

\* How far main() is: which of its loops, and the calls that are left of the
\* passes of the current label.
Stage ==
    IF pc = "startup" THEN 4
    ELSE IF pc = "simds" \/ pc \in SimdPcs THEN 3
    ELSE IF pc = "checks" \/ pc \in CheckPcs THEN 2
    ELSE IF pc = "output" THEN 1 ELSE 0
CallsLeft ==
    CASE pc = "start" -> 6
      [] pc = "airdrop" -> 5
      [] pc = "program" -> 4
      [] pc = "deploy" -> 3
      [] pc = "detect" -> 2
      [] pc = "run" -> 1
      [] pc = "e2eStart" -> 4
      [] pc = "e2eAirdrop" -> 3
      [] pc = "requirements" -> 2
      [] pc = "e2eRun" -> 1
      [] OTHER -> 0
Left == IF cur.pass = "deactivated" THEN 6 + CallsLeft ELSE CallsLeft

\* The next loop of main(); or the same one, with less of the selection before
\* it, or with the same selection and fewer calls.
Advances ==
    /\ exit = "running"
    /\ \/ Stage' < Stage /\ UNCHANGED <<todo, e2eTodo>>
       \/ /\ Stage' = Stage
          /\ \/ \E s \in todo : todo' = todo \ {s} /\ UNCHANGED e2eTodo
             \/ \E c \in e2eTodo : e2eTodo' = e2eTodo \ {c} /\ UNCHANGED todo
             \/ Left' < Left /\ UNCHANGED <<todo, e2eTodo>>

\* The other thread: a surfnet ends by itself.
SurfnetGone ==
    /\ \E s \in live : live' = live \ {s}
    /\ UNCHANGED <<todo, e2eTodo, cur, pc, exit>>

\* The numbers are natural numbers, and a call of a pass or check is left as
\* long as the pass or check goes on.
LEMMA NumbersFacts ==
    /\ Stage \in 0..4 /\ CallsLeft \in 0..6 /\ Left \in 0..12
    /\ pc \in SimdPcs => Stage = 3 /\ CallsLeft >= 1
    /\ pc \in CheckPcs => Stage = 2 /\ CallsLeft >= 1
    /\ pc = "stopped" => Stage = 0
    /\ pc \in Pcs \ {"stopped"} => Stage >= 1
BY DEF Stage, CallsLeft, Left, SimdPcs, CheckPcs, Pcs

\* The end of the process is the last stage.
LEMMA StopAdvances ==
    ASSUME Inv, pc # "stopped", NEW code, Stop(code)
    PROVE  Advances
<1>1. exit = "running" /\ pc \in Pcs
  BY DEF Inv, TypeInv, TypeOK, LoopInv
<1>2. Stage' = 0 /\ Stage \in 0..4 /\ Stage >= 1
  BY <1>1, NumbersFacts DEF Stop, Goto, Stage, SimdPcs, CheckPcs
<1> QED BY <1>1, <1>2 DEF Advances, Stop

\* So does `continue` in the loop over passes: six calls of the second pass are
\* left, or none.
LEMMA NextPassAdvances ==
    ASSUME Inv, pc \in SimdPcs, NextPass, UNCHANGED <<todo, e2eTodo>>
    PROVE  Advances
<1>1. exit = "running"
  BY DEF Inv, LoopInv, SimdPcs
<1>2. Stage = 3 /\ CallsLeft >= 1 /\ CallsLeft \in 0..6
  BY NumbersFacts
<1>3. Stage' = 3
  <2>1. pc' \in {"start", "simds"}
    BY DEF NextPass, Goto
  <2> QED BY <2>1 DEF Stage, SimdPcs
<1>4. Left' < Left
  <2>1. CASE cur.pass = "deactivated"
    <3>1. CallsLeft' = 6 /\ cur'.pass = "activated"
      BY <2>1 DEF NextPass, Goto, CallsLeft, Label
    <3> QED BY <1>2, <2>1, <3>1 DEF Left
  <2>2. CASE cur.pass # "deactivated"
    <3>1. CallsLeft' = 0 /\ cur'.pass = "none"
      BY <2>2, NoLabelFacts DEF NextPass, Goto, CallsLeft
    <3> QED BY <1>2, <2>2, <3>1 DEF Left
  <2> QED BY <2>1, <2>2
<1> QED BY <1>1, <1>2, <1>3, <1>4 DEF Advances

\* And in the loop over the checks.
LEMMA NextCheckAdvances ==
    ASSUME Inv, pc \in CheckPcs, NextCheck, UNCHANGED <<todo, e2eTodo>>
    PROVE  Advances
<1>1. exit = "running"
  BY DEF Inv, LoopInv, CheckPcs
<1>2. Stage = 2 /\ CallsLeft >= 1 /\ CallsLeft \in 0..6
  BY NumbersFacts
<1>3. Stage' = 2 /\ CallsLeft' = 0 /\ cur'.pass = "none"
  BY NoLabelFacts DEF NextCheck, Goto, Stage, CallsLeft, SimdPcs, CheckPcs
<1>4. Left' < Left
  BY <1>2, <1>3 DEF Left
<1> QED BY <1>1, <1>2, <1>3, <1>4 DEF Advances

\* A call that returned, in the same pass or check.
LEMMA CallAdvances ==
    ASSUME Inv, UNCHANGED <<cur, todo, e2eTodo>>,
           \/ pc = "start" /\ Goto("airdrop")
           \/ pc = "airdrop" /\ Goto("program")
           \/ pc = "program" /\ Goto("deploy")
           \/ pc = "deploy" /\ Goto("detect")
           \/ pc = "detect" /\ Goto("run")
           \/ pc = "e2eStart" /\ Goto("e2eAirdrop")
           \/ pc = "e2eAirdrop" /\ Goto("requirements")
           \/ pc = "requirements" /\ Goto("e2eRun")
    PROVE  Advances
<1>1. exit = "running"
  BY DEF Inv, LoopInv
<1>2. Stage' = Stage /\ CallsLeft' < CallsLeft /\ CallsLeft \in 0..6 /\ CallsLeft' \in 0..6
  BY DEF Goto, Stage, CallsLeft, SimdPcs, CheckPcs
<1>3. Left' < Left
  <2>1. cur' = cur
    OBVIOUS
  <2>2. CASE cur.pass = "deactivated"
    <3>1. Left' = 6 + CallsLeft' /\ Left = 6 + CallsLeft
      BY <2>1, <2>2 DEF Left
    <3>2. \A a, b \in 0..6 : a < b => 6 + a < 6 + b
      OBVIOUS
    <3> QED BY <1>2, <3>1, <3>2
  <2>3. CASE cur.pass # "deactivated"
    BY <1>2, <2>1, <2>3 DEF Left
  <2> QED BY <2>2, <2>3
<1> QED BY <1>1, <1>2, <1>3 DEF Advances

\* A SIMD or a check is taken out of the selection.
LEMMA TakeAdvances ==
    ASSUME Inv,
           \/ \E s \in todo : TakeSimd(s)
           \/ \E c \in e2eTodo : TakeCheck(c)
    PROVE  Advances
<1>1. CASE \E s \in todo : TakeSimd(s)
  <2>1. PICK s \in todo : TakeSimd(s)
    BY <1>1
  <2>2. pc = "simds" /\ todo' = todo \ {s} /\ e2eTodo' = e2eTodo
        /\ pc' \in {"simds", "start", "program"}
    BY <2>1 DEF TakeSimd, Goto
  <2>3. exit = "running" /\ Stage = 3 /\ Stage' = 3
    BY <2>2 DEF Inv, LoopInv, Stage, SimdPcs
  <2> QED BY <2>2, <2>3 DEF Advances
<1>2. CASE \E c \in e2eTodo : TakeCheck(c)
  <2>1. PICK c \in e2eTodo : TakeCheck(c)
    BY <1>2
  <2>2. pc = "checks" /\ e2eTodo' = e2eTodo \ {c} /\ todo' = todo
        /\ pc' \in {"checks", "e2eStart", "requirements"}
    BY <2>1 DEF TakeCheck, Goto
  <2>3. exit = "running" /\ Stage = 2 /\ Stage' = 2
    BY <2>2 DEF Inv, LoopInv, Stage, SimdPcs, CheckPcs
  <2> QED BY <2>2, <2>3 DEF Advances
<1> QED BY <1>1, <1>2

\* Every step of main() advances.
LEMMA MainAdvances == Inv /\ Main => Advances
<1> SUFFICES ASSUME Inv, Main PROVE Advances
  OBVIOUS
<1>1. ASSUME Abort, pc # "stopped" PROVE Advances
  BY <1>1, StopAdvances DEF Abort
<1>2. ASSUME NEW s, NEW c, EndPass(s, c), pc \in SimdPcs PROVE Advances
  BY <1>2, NextPassAdvances DEF EndPass
<1>3. ASSUME NEW s, NEW c, EndCheck(s, c), pc \in CheckPcs PROVE Advances
  BY <1>3, NextCheckAdvances DEF EndCheck
<1>4. CASE Startup
  <2>1. pc = "startup" /\ exit = "running"
    BY <1>4 DEF Startup, Inv, LoopInv
  <2>2. CASE Goto("simds") /\ UNCHANGED <<todo, e2eTodo>>
    BY <2>1, <2>2 DEF Advances, Goto, Stage, SimdPcs
  <2> QED BY <1>1, <1>4, <2>1, <2>2, StopAdvances DEF Startup
<1>5. CASE \E s \in todo : TakeSimd(s)
  BY <1>5, TakeAdvances
<1>6. CASE SimdsDone \/ ChecksDone
  <2>1. UNCHANGED <<todo, e2eTodo>> /\ exit = "running"
        /\ <<pc, pc'>> \in {<<"simds", "checks">>, <<"checks", "output">>}
    BY <1>6 DEF SimdsDone, ChecksDone, Goto, Inv, LoopInv
  <2> QED BY <2>1 DEF Advances, Stage, SimdPcs, CheckPcs
<1>7. CASE StartSurfnet
  BY <1>1, <1>7, CallAdvances DEF StartSurfnet
<1>8. CASE Airdrop
  BY <1>1, <1>8, CallAdvances DEF Airdrop
<1>9. CASE ResolveProgram
  BY <1>1, <1>2, <1>9, CallAdvances DEF ResolveProgram, SimdPcs
<1>10. CASE DeployProgram
  BY <1>2, <1>10, CallAdvances DEF DeployProgram, SimdPcs
<1>11. CASE Detect
  BY <1>11, CallAdvances DEF Detect
<1>12. CASE RunSimd
  BY <1>1, <1>12, NextPassAdvances DEF RunSimd, SimdPcs
<1>13. CASE \E c \in e2eTodo : TakeCheck(c)
  BY <1>13, TakeAdvances
<1>14. CASE E2eStartSurfnet
  BY <1>14, NextCheckAdvances, CallAdvances DEF E2eStartSurfnet, CheckPcs
<1>15. CASE E2eAirdrop
  BY <1>3, <1>15, CallAdvances DEF E2eAirdrop, CheckPcs
<1>16. CASE CheckRequirements
  BY <1>3, <1>16, CallAdvances DEF CheckRequirements, CheckPcs
<1>17. CASE RunCheck
  BY <1>3, <1>17, NextCheckAdvances DEF RunCheck, CheckPcs
<1>18. CASE Output
  BY <1>1, <1>18, StopAdvances DEF Output
<1> QED BY <1>4, <1>5, <1>6, <1>7, <1>8, <1>9, <1>10, <1>11, <1>12, <1>13, <1>14,
           <1>15, <1>16, <1>17, <1>18 DEF Main

\* The safety half of Termination: whatever the calls answer and whichever
\* `continue` or `?` is taken, every step of main() (main.rs:96-540) brings the
\* run nearer to its end: it leaves a loop for a later one, takes a SIMD or a
\* check out of the selection, or has fewer calls left of the current label; and
\* no step is taken after the end.  As the selection is finite, main() ends when
\* its calls return; only a surfnet's own thread moves beside it.
THEOREM RunAdvances == Spec => [][Advances \/ SurfnetGone]_vars
<1>1. ASSUME NEW s \in live, SurfnetEnds(s) PROVE SurfnetGone
  BY <1>1 DEF SurfnetEnds, SurfnetGone
<1>2. Inv /\ [Next]_vars => [Advances \/ SurfnetGone]_vars
  BY <1>1, MainAdvances DEF Next
<1>3. Spec => []IReport
  BY ReportInvariance
<1>4. IReport => Inv
  BY DEF IReport
<1> QED BY <1>2, <1>3, <1>4, PTL DEF Spec

=============================================================================
