------------------------------ MODULE Campaign ------------------------------
(***************************************************************************)
(* What a run of the checker promises, with no surfnet, RPC or pass in it: *)
(* the labels of the selection receive one verdict each, in the order of   *)
(* the report; only a SIMD label, the start or the output can cost the     *)
(* whole report; and a finished campaign fails exactly when a verdict did. *)
(***************************************************************************)
EXTENDS Integers, Sequences

CONSTANTS
    Plans,          \* the sets of labels a selection may amount to
    Before(_, _)    \* the order of the report

VARIABLES
    plan,       \* the labels without a verdict
    verdicts,   \* the sequence of [label, status] given so far
    ended       \* "running", "success" or "failure"

vars == <<plan, verdicts, ended>>

Init ==
    /\ plan \in Plans
    /\ verdicts = <<>>
    /\ ended = "running"

\* The first label of the plan receives its verdict.
Judge(l) ==
    /\ ended = "running" /\ plan # {}
    /\ \A m \in plan \ {l} : Before(l, m)
    /\ \E status \in {"pass", "fail", "skip", "pending"} :
          verdicts' = Append(verdicts, [label |-> l, status |-> status])
    /\ plan' = plan \ {l}
    /\ UNCHANGED ended

\* The campaign is lost with every verdict it has given.
Abort ==
    /\ ended = "running"
    /\ \/ verdicts = <<>> \/ plan = {}
       \/ \E l \in plan : l.kind = "simd"
    /\ ended' = "failure"
    /\ UNCHANGED <<plan, verdicts>>

Finish ==
    /\ ended = "running" /\ plan = {}
    /\ ended' = IF \E i \in 1..Len(verdicts) : verdicts[i].status = "fail"
                THEN "failure" ELSE "success"
    /\ UNCHANGED <<plan, verdicts>>

Next == (\E l \in plan : Judge(l)) \/ Abort \/ Finish

Spec == Init /\ [][Next]_vars /\ WF_vars(Next)
=============================================================================
