------------------------- MODULE JointTargetServer -------------------------
(***************************************************************************)
(* The joint-target action server: a client's goal is admitted by the busy *)
(* gate and realized by one execute_callback, which plans with MoveIt,     *)
(* checks the arm twice, sends at most one ExecuteTrajectory goal and      *)
(* waits for it with timeouts.  Executor threads interleave the callbacks; *)
(* MoveIt (external) answers when it likes, or never.                      *)
(*                                                                         *)
(* An arm reading is kept as its displacement from the goal's reference_q, *)
(* on one axis.  The waits that read nothing shared are part of the step   *)
(* that follows them, and any of them may time out or raise.               *)
(***************************************************************************)
EXTENDS Integers

CONSTANTS
  MaxGoals,      \* bound: goals offered
  RefTol,        \* reference_tolerance
  DriftTol       \* the tolerance of drift_check

ASSUME ServerAssumption ==
  /\ MaxGoals \in Nat
  /\ RefTol \in Nat
  /\ DriftTol \in Nat

VARIABLES
  ok,       \* rclpy.ok()
  busy,     \* BusyGate._busy
  pc,       \* where the goal and its execute_callback are
  ev,       \* evidence
  reply,    \* what the client has been told: the goal's terminal state
  result,   \* the outcome in the result the client gets
  moveit,   \* external: the ExecuteTrajectory goal
  rest      \* external: a sample of the arm at rest may still be fresh

vars == <<ok, busy, pc, ev, reply, result, moveit, rest>>

Goals == 1..MaxGoals

Pcs == {"new", "rejected", "queued", "planning", "plan", "execution", "send",
        "accept", "result", "cancel", "after", "final", "abort", "close", "reply", "done"}

Outcomes == {"failed", "plan_only_validated", "execution_succeeded"}

Within(q, tol) == (q - tol)..(q + tol)

Evidence == [
  execute   : BOOLEAN,                      \* server_settings
  start     : Within(0, RefTol),            \* planning_start_q
  here      : Within(0, RefTol + DriftTol), \* pre_execution_q
  attempts  : 0..1,                         \* execution_attempts
  accepted  : {"none", "no", "yes"},        \* execution_goal_accepted
  status    : {"none", "succeeded", "other"},  \* execution_action_status
  cancelled : BOOLEAN,                      \* cancellation_requested
  outcome   : Outcomes]

NewEvidence ==
  [execute |-> FALSE, start |-> 0, here |-> 0, attempts |-> 0,
   accepted |-> "none", status |-> "none", cancelled |-> FALSE,
   outcome |-> "failed"]

MoveitStates == {"none", "sent", "rejected", "executing", "succeeded", "failed"}

TypeOK ==
  /\ ok \in BOOLEAN
  /\ busy \in BOOLEAN
  /\ pc \in [Goals -> Pcs]
  /\ ev \in [Goals -> Evidence]
  /\ reply \in [Goals -> {"none", "succeeded", "aborted"}]
  /\ result \in [Goals -> {"none"} \cup Outcomes]
  /\ moveit \in [Goals -> MoveitStates]
  /\ rest \in BOOLEAN

Init ==
  /\ ok = TRUE
  /\ busy = FALSE
  /\ pc = [g \in Goals |-> "new"]
  /\ ev = [g \in Goals |-> NewEvidence]
  /\ reply = [g \in Goals |-> "none"]
  /\ result = [g \in Goals |-> "none"]
  /\ moveit = [g \in Goals |-> "none"]
  /\ rest = TRUE

GoTo(g, from, to) ==
  /\ pc[g] = from
  /\ pc' = [pc EXCEPT ![g] = to]

\* What the steps of a goal that only move on or write evidence leave alone.
Private == <<ok, busy, reply, result, rest>>

-----------------------------------------------------------------------------
(* The gate. *)

\* goal_callback: the request is invalid or stale, or the server is busy.
GoalReject(g) ==
  /\ ok
  /\ GoTo(g, "new", "rejected")
  /\ UNCHANGED <<Private, ev, moveit>>

\* Mutant: the gate is set and not tested.
GoalAcceptAnyway(g) ==
  /\ ok
  /\ GoTo(g, "new", "queued")
  /\ busy' = TRUE
  /\ UNCHANGED <<ok, ev, reply, result, moveit, rest>>

\* goal_callback: the gate is reserved under its lock.
GoalAccept(g) ==
  /\ ok
  /\ ~busy
  /\ GoTo(g, "new", "queued")
  /\ busy' = TRUE
  /\ UNCHANGED <<ok, ev, reply, result, moveit, rest>>

-----------------------------------------------------------------------------
(* execute_callback. *)

\* The request is still valid; the parameters, execute among them, are read as
\* they are set now.
Start(g) ==
  /\ ok
  /\ GoTo(g, "queued", "planning")
  /\ \E execute \in BOOLEAN : ev' = [ev EXCEPT ![g].execute = execute]
  /\ UNCHANGED <<Private, moveit>>

\* limits(), the planner's service, preflight('before_planning'),
\* reference_check and the position limits.
PlanningState(g) ==
  /\ ok
  /\ rest
  /\ GoTo(g, "planning", "plan")
  /\ \E q \in Within(0, RefTol) : ev' = [ev EXCEPT ![g].start = q]
  /\ UNCHANGED <<Private, moveit>>

\* GetMotionPlan answers and validate_plan passes; that is all without execute.
PlanOnly(g) ==
  /\ ok
  /\ ~ev[g].execute
  /\ GoTo(g, "plan", "final")
  /\ ev' = [ev EXCEPT ![g].outcome = "plan_only_validated"]
  /\ UNCHANGED <<Private, moveit>>

PlanToExecute(g) ==
  /\ ok
  /\ ev[g].execute
  /\ GoTo(g, "plan", "execution")
  /\ UNCHANGED <<Private, ev, moveit>>

\* Mutant: drift_check compares with reference_q and not with the plan's start.
ExecutionStateOfReference(g) ==
  /\ ok
  /\ rest
  /\ GoTo(g, "execution", "send")
  /\ \E q \in Within(0, DriftTol) : ev' = [ev EXCEPT ![g].here = q]
  /\ UNCHANGED <<Private, moveit>>

\* The action server, preflight('before_execution') and drift_check.
ExecutionState(g) ==
  /\ ok
  /\ rest
  /\ GoTo(g, "execution", "send")
  /\ \E q \in Within(ev[g].start, DriftTol) : ev' = [ev EXCEPT ![g].here = q]
  /\ UNCHANGED <<Private, moveit>>

\* Mutant: a send that raises is tried again.
SendRaisesRetries(g) ==
  /\ GoTo(g, "send", "send")
  /\ ev' = [ev EXCEPT ![g].attempts = @ + 1]
  /\ UNCHANGED <<Private, moveit>>

\* SingleExecution.send consumes the attempt and invokes the transport ...
Send(g) ==
  /\ ok
  /\ GoTo(g, "send", "accept")
  /\ ev[g].attempts = 0
  /\ ev' = [ev EXCEPT ![g].attempts = 1]
  /\ moveit' = [moveit EXCEPT ![g] = "sent"]
  /\ UNCHANGED Private

\* ... which raises; nothing is sent and there is no handle to cancel.
SendRaises(g) ==
  /\ GoTo(g, "send", "after")
  /\ ev' = [ev EXCEPT ![g].attempts = 1]
  /\ UNCHANGED <<Private, moveit>>

\* The goal response is in: rejected raises.
Accepted(g) ==
  /\ ok
  /\ moveit[g] \in {"executing", "succeeded", "failed"}
  /\ GoTo(g, "accept", "result")
  /\ ev' = [ev EXCEPT ![g].accepted = "yes"]
  /\ UNCHANGED <<Private, moveit>>

NotAccepted(g) ==
  /\ ok
  /\ moveit[g] = "rejected"
  /\ GoTo(g, "accept", "after")
  /\ ev' = [ev EXCEPT ![g].accepted = "no"]
  /\ UNCHANGED <<Private, moveit>>

\* No goal response in time, on its way or not: there is no handle to cancel.
AcceptTimesOut(g) ==
  /\ GoTo(g, "accept", "after")
  /\ UNCHANGED <<Private, ev, moveit>>

\* The result is in; any but success raises, and needs no cancellation.
Result(g) ==
  /\ ok
  /\ moveit[g] \in {"succeeded", "failed"}
  /\ GoTo(g, "result", "after")
  /\ ev' = [ev EXCEPT ![g].status =
              IF moveit[g] = "succeeded" THEN "succeeded" ELSE "other"]
  /\ UNCHANGED <<Private, moveit>>

\* Mutant: a timeout is handled like a result that is in.
ResultTimesOutQuietly(g) ==
  /\ GoTo(g, "result", "after")
  /\ UNCHANGED <<Private, ev, moveit>>

\* Mutant: the wait for the result has no deadline.
ResultTimesOutAtEnd(g) ==
  /\ moveit[g] \in {"succeeded", "failed"}
  /\ GoTo(g, "result", "cancel")
  /\ ev' = [ev EXCEPT ![g].cancelled = TRUE]
  /\ UNCHANGED <<Private, moveit>>

\* No result in time: the cancellation is recorded, then requested.
ResultTimesOut(g) ==
  /\ GoTo(g, "result", "cancel")
  /\ ev' = [ev EXCEPT ![g].cancelled = TRUE]
  /\ UNCHANGED <<Private, moveit>>

\* The cancel response is in, or late, or the request raised.
CancelWaited(g) ==
  /\ GoTo(g, "cancel", "after")
  /\ UNCHANGED <<Private, ev, moveit>>

\* Mutant: the finally block returns, and swallows what was raised.
AfterSwallows(g) ==
  /\ ok
  /\ GoTo(g, "after", "final")
  /\ ev' = [ev EXCEPT ![g].outcome = "execution_succeeded"]
  /\ UNCHANGED <<Private, moveit>>

\* Nothing was raised, and the final state, health and telemetry are sound.
After(g) ==
  /\ ok
  /\ ev[g].status = "succeeded"
  /\ GoTo(g, "after", "final")
  /\ ev' = [ev EXCEPT ![g].outcome = "execution_succeeded"]
  /\ UNCHANGED <<Private, moveit>>

\* The final state is at hand; feedback, and goal_handle.succeed().
Final(g) ==
  /\ ok
  /\ GoTo(g, "final", "close")
  /\ reply' = [reply EXCEPT ![g] = "succeeded"]
  /\ UNCHANGED <<ok, busy, ev, result, moveit, rest>>

\* Where an exception leads to the handler of execute_callback: any wait or
\* check before the goal is sent, what was raised meanwhile or a bad final state
\* after it, and the state that plan-only mode still has to read.
Raises(g) ==
  /\ \/ pc[g] \in {"queued", "planning", "plan", "execution", "after"}
     \/ pc[g] = "final" /\ (ev[g].outcome = "plan_only_validated" \/ ~ok)
  /\ pc[g] = "queued" => ok
  /\ pc' = [pc EXCEPT ![g] = "abort"]
  /\ UNCHANGED <<Private, ev, moveit>>

\* The handler; abort() itself raises when the context is gone.
Abort(g) ==
  /\ GoTo(g, "abort", "close")
  /\ ev' = [ev EXCEPT ![g].outcome = "failed"]
  /\ \/ reply' = [reply EXCEPT ![g] = "aborted"]
     \/ ~ok /\ UNCHANGED reply
  /\ UNCHANGED <<ok, busy, result, moveit, rest>>

\* worker.close(), then the gate is released: the next goal may be admitted ...
Close(g) ==
  /\ GoTo(g, "close", "reply")
  /\ busy' = FALSE
  /\ UNCHANGED <<ok, ev, reply, result, moveit, rest>>

\* ... while the result is still being filled.  fill_result raises, and the
\* client gets an empty result, when the settings in the evidence are not
\* finite: such a goal has failed before anything was sent.
Reply(g) ==
  /\ GoTo(g, "reply", "done")
  /\ \/ result' = [result EXCEPT ![g] = ev[g].outcome]
     \/ (~ok \/ (ev[g].outcome = "failed" /\ ev[g].attempts = 0)) /\ UNCHANGED result
  /\ UNCHANGED <<ok, busy, ev, reply, moveit, rest>>

-----------------------------------------------------------------------------
(* Around the server. *)

\* MoveIt (external) accepts or rejects a goal it has been sent, and ends one
\* it executes, cancelled or not.
MoveitAnswers(g) ==
  /\ moveit[g] = "sent"
  /\ \E s \in {"rejected", "executing"} : moveit' = [moveit EXCEPT ![g] = s]
  /\ UNCHANGED <<Private, pc, ev>>

MoveitEnds(g) ==
  /\ moveit[g] = "executing"
  /\ \E s \in {"succeeded", "failed"} : moveit' = [moveit EXCEPT ![g] = s]
  /\ UNCHANGED <<Private, pc, ev>>

\* Samples age: a motion shows after the freshness bound, not at once.
SamplesAge ==
  /\ rest' = \A g \in Goals : moveit[g] # "executing"
  /\ rest' # rest
  /\ UNCHANGED <<ok, busy, pc, ev, reply, result, moveit>>

\* The interrupt's handler shuts the context down; the callback that runs goes
\* on, but every wait ends and nothing more is started.
ShutDown ==
  /\ ok
  /\ ok' = FALSE
  /\ UNCHANGED <<busy, pc, ev, reply, result, moveit, rest>>

-----------------------------------------------------------------------------
Callback(g) ==
  \/ Start(g) \/ PlanningState(g) \/ PlanOnly(g) \/ PlanToExecute(g)
  \/ ExecutionState(g) \/ Send(g) \/ SendRaises(g) \/ Accepted(g)
  \/ NotAccepted(g) \/ AcceptTimesOut(g) \/ Result(g) \/ ResultTimesOut(g)
  \/ CancelWaited(g) \/ After(g) \/ Final(g) \/ Raises(g) \/ Abort(g)
  \/ Close(g) \/ Reply(g)

Next ==
  \/ \E g \in Goals : GoalReject(g) \/ GoalAccept(g)
  \/ \E g \in Goals : Callback(g)
  \/ \E g \in Goals : MoveitAnswers(g) \/ MoveitEnds(g)
  \/ SamplesAge \/ ShutDown

\* The thread that runs a callback goes on: every wait in it has a deadline.
Fairness == \A g \in Goals : WF_vars(Callback(g))

Spec == Init /\ [][Next]_vars

FairSpec == Spec /\ Fairness

-----------------------------------------------------------------------------
(* Properties. *)

\* The gate is reserved for the goal.
Holding(g) ==
  pc[g] \in {"queued", "planning", "plan", "execution", "send", "accept",
             "result", "cancel", "after", "final", "abort", "close"}

\* MoveIt still has the goal's trajectory to execute, or executes it.
Alive(g) == moveit[g] \in {"sent", "executing"}

\* The callback no longer waits for the trajectory.
Left(g) == pc[g] \in {"cancel", "after", "final", "abort", "close", "reply", "done"}

(***************************************************************************)
(* The gate is reserved exactly while one goal is between its admission    *)
(* and the end of its callback: no path of execute_callback leaks it, and  *)
(* none frees it under another goal.                                       *)
(***************************************************************************)
GateIsExact ==
  /\ \A g, h \in Goals : Holding(g) /\ Holding(h) => g = h
  /\ busy <=> \E g \in Goals : Holding(g)

(***************************************************************************)
(* A trajectory that outlives the callback that sent it is on record: the  *)
(* evidence has the attempt, no status, the outcome "failed", and the      *)
(* cancellation if the acceptance is known.  Only an answer that never     *)
(* came leaves a trajectory that nobody has tried to stop.                 *)
(***************************************************************************)
LeftBehindIsTold ==
  \A g \in Goals : Alive(g) /\ Left(g) =>
    /\ ev[g].attempts = 1
    /\ ev[g].status = "none"
    /\ ev[g].outcome = "failed"
    /\ result[g] \in {"none", "failed"}
    /\ ev[g].accepted = "yes" => ev[g].cancelled

(***************************************************************************)
(* The client is told of a success only after one: the goal's terminal     *)
(* state and the result's outcome agree, an execution that is said to have *)
(* succeeded has, uncancelled, and a plan-only outcome has sent nothing.   *)
(***************************************************************************)
SuccessIsEarned ==
  \A g \in Goals :
    /\ reply[g] = "aborted" => result[g] \in {"none", "failed"}
    /\ reply[g] = "succeeded" => result[g] # "failed"
    /\ ev[g].outcome = "execution_succeeded" =>
         moveit[g] = "succeeded" /\ ~ev[g].cancelled
    /\ ev[g].outcome = "plan_only_validated" => moveit[g] = "none"

(***************************************************************************)
(* Whatever has moved the arm since the client read it, a trajectory is    *)
(* sent only with the arm last read within the drift tolerance of the      *)
(* trajectory's start, and within both tolerances together of reference_q. *)
(***************************************************************************)
StartsNearPlan ==
  \A g \in Goals : moveit[g] # "none" =>
    /\ ev[g].here \in Within(ev[g].start, DriftTol)
    /\ ev[g].here \in Within(0, RefTol + DriftTol)

(***************************************************************************)
(* An admitted goal comes to its end, and the server is free again,        *)
(* whatever MoveIt does, unless the process is shut down.                  *)
(***************************************************************************)
GoalsEnd ==
  \A g \in Goals : pc[g] = "queued" ~> pc[g] = "done" \/ ~ok

(***************************************************************************)
(* The documentation: the persistent server permits at most one active     *)
(* target.  A trajectory whose acceptance is late, or whose cancellation   *)
(* is, is still active when the next one is sent.                          *)
(***************************************************************************)
OneActiveTarget ==
  \A g, h \in Goals : Alive(g) /\ Alive(h) => g = h

(***************************************************************************)
(* However the callbacks, the answers of MoveIt and the shutdown fall      *)
(* together, the goals keep the promise of TargetRun: one is planned and   *)
(* executed at a time, its trajectory is sent once and after its plan is   *)
(* validated, and none is called a success once something has gone wrong.  *)
(***************************************************************************)
RunStage(g) ==
  CASE pc[g] \in {"new", "rejected", "queued", "planning"} -> "before"
    [] pc[g] = "plan" -> "planning"
    [] pc[g] \in {"execution", "send"} -> "validated"
    [] pc[g] \in {"accept", "result"} -> "executing"
    [] pc[g] = "after" -> IF ev[g].status = "succeeded" THEN "ended" ELSE "failing"
    [] pc[g] = "final" ->
         IF ev[g].outcome = "execution_succeeded" THEN "ended" ELSE "planning"
    [] pc[g] \in {"cancel", "abort"} -> "failing"
    [] pc[g] \in {"close", "reply", "done"} -> ev[g].outcome

Run == INSTANCE TargetRun WITH
  Runs <- Goals,
  stage <- [g \in Goals |-> RunStage(g)]

RunsSpec == Run!Spec

(***************************************************************************)
(* What is left of the documentation's "at most one active target": of two *)
(* trajectories that MoveIt still has, one belongs to a goal whose callback *)
(* is over, which is on record as failed, and whose cancellation has been  *)
(* requested if MoveIt had accepted it in time.                            *)
(***************************************************************************)
ExtraTargetsAreTold ==
  \A g, h \in Goals : Alive(g) /\ Alive(h) /\ g # h =>
    \E x \in {g, h} :
      /\ pc[x] \in {"reply", "done"}
      /\ ev[x].outcome = "failed"
      /\ ev[x].accepted = "yes" => ev[x].cancelled

\* How many steps a callback has before it, at most.
Rank(g) ==
  CASE pc[g] \in {"new", "rejected", "done"} -> 0
    [] pc[g] = "reply" -> 1
    [] pc[g] = "close" -> 2
    [] pc[g] = "abort" -> 3
    [] pc[g] = "final" -> 4
    [] pc[g] = "after" -> 5
    [] pc[g] = "cancel" -> 6
    [] pc[g] = "result" -> 7
    [] pc[g] = "accept" -> 8
    [] pc[g] = "send" -> 9
    [] pc[g] = "execution" -> 10
    [] pc[g] = "plan" -> 11
    [] pc[g] = "planning" -> 12
    [] pc[g] = "queued" -> 13

(***************************************************************************)
(* A callback goes forward only: every step of it leaves fewer before it,  *)
(* no step of anything else sends it back, and one that is over, or was    *)
(* never admitted, is not begun again.  What is left to liveness is that   *)
(* each of its waits has a deadline.                                       *)
(***************************************************************************)
CallbacksGoForward ==
  [][\A g \in Goals :
       /\ Callback(g) => Rank(g)' < Rank(g)
       /\ pc'[g] # pc[g] => Rank(g)' < Rank(g) \/ pc[g] = "new"]_vars

-----------------------------------------------------------------------------
(* The inductive invariant: what is known of a goal at every step. *)

Unsent ==
  {"new", "rejected", "queued", "planning", "plan", "execution", "send"}

\* What the evidence says of the trajectory.
RecordInv(g) ==
  /\ Alive(g) =>
       ev[g].attempts = 1 /\ ev[g].status = "none" /\ ev[g].outcome = "failed"
  /\ ev[g].accepted = "yes" =>
       pc[g] = "result" \/ ev[g].cancelled \/ ev[g].status # "none"
  /\ ev[g].status = "succeeded" => moveit[g] = "succeeded" /\ ~ev[g].cancelled
  /\ ev[g].outcome = "execution_succeeded" => ev[g].status = "succeeded"
  /\ ev[g].outcome = "plan_only_validated" => moveit[g] = "none"
  /\ moveit[g] # "none" \/ pc[g] = "send" => ev[g].here \in Within(ev[g].start, DriftTol)

\* What is known from where the callback is.
StageInv(g) ==
  /\ pc[g] \in Unsent => moveit[g] = "none"
  /\ pc[g] \in Unsent \cup {"accept"} => ev[g].accepted = "none"
  /\ pc[g] \in Unsent \cup {"accept", "result", "cancel"} =>
       ev[g].status = "none"
  /\ pc[g] \in Unsent \cup {"accept", "result"} => ~ev[g].cancelled
  /\ ev[g].outcome # "failed" =>
       pc[g] \in {"final", "abort", "close", "reply", "done"}
  /\ pc[g] = "final" => ev[g].outcome # "failed"

\* What the client is told.
ToldInv(g) ==
  /\ reply[g] # "none" => pc[g] \in {"close", "reply", "done"}
  /\ reply[g] = "aborted" => ev[g].outcome = "failed"
  /\ reply[g] = "succeeded" => ev[g].outcome # "failed"
  /\ result[g] # "none" => pc[g] = "done" /\ result[g] = ev[g].outcome

GoalInv(g) == RecordInv(g) /\ StageInv(g) /\ ToldInv(g)

IInv == TypeOK /\ GateIsExact /\ \A g \in Goals : GoalInv(g)
=============================================================================
