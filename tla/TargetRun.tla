----------------------------- MODULE TargetRun -----------------------------
(***************************************************************************)
(* What the runs of joint targets promise whoever commands the arm: one    *)
(* run at a time plans and moves; a trajectory is executed only once its   *)
(* plan is validated, once, and a run is called a success only when its    *)
(* trajectory ended well and nothing went wrong before or after.           *)
(***************************************************************************)
CONSTANT Runs

VARIABLE stage   \* how far each run has come

vars == <<stage>>

Outcomes == {"failed", "plan_only_validated", "execution_succeeded"}

\* A run under way has the arm: it is the only one.
UnderWay == {"planning", "validated", "executing", "ended", "failing"}

Stages == {"before"} \cup UnderWay \cup Outcomes

Init == stage = [r \in Runs |-> "before"]

Alone(r) == \A other \in Runs \ {r} : stage[other] \notin UnderWay

Moves(r, from, to) ==
  /\ stage[r] \in from
  /\ Alone(r)
  /\ stage' = [stage EXCEPT ![r] = to]

Plan(r) == Moves(r, {"before"}, "planning")
PlanOnly(r) == Moves(r, {"planning"}, "plan_only_validated")
Validate(r) == Moves(r, {"planning"}, "validated")
Execute(r) == Moves(r, {"validated"}, "executing")
EndWell(r) == Moves(r, {"executing"}, "ended")
Succeed(r) == Moves(r, {"ended"}, "execution_succeeded")

\* Whatever goes wrong, there is no way back from it.
GoWrong(r) == Moves(r, {"before"} \cup (UnderWay \ {"failing"}), "failing")
Fail(r) == Moves(r, {"before"} \cup UnderWay, "failed")

Next ==
  \E r \in Runs :
    \/ Plan(r) \/ PlanOnly(r) \/ Validate(r) \/ Execute(r) \/ EndWell(r)
    \/ Succeed(r) \/ GoWrong(r) \/ Fail(r)

Spec == Init /\ [][Next]_vars
=============================================================================
