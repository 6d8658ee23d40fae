---------------------------- MODULE RosTransport ----------------------------
(***************************************************************************)
(* The telemetry a joint-target execution is decided on: RosTransport.run  *)
(* with its two state topics, how old their samples may be, and when the   *)
(* node listens to them.  Messages are taken in only where the code spins; *)
(* elsewhere they wait in the subscription and are late when they come.    *)
(*                                                                         *)
(* The run is one thread.  Time passes and messages come while it waits.   *)
(* The ROS clock and the monotonic clock advance together (neither is      *)
(* stepped), so one reading serves for stamps and receipts.                *)
(***************************************************************************)
EXTENDS Integers

CONSTANTS
  Freshness,   \* args.freshness
  MaxTime      \* bound: the last clock reading

ASSUME TransportAssumption == Freshness \in Nat /\ MaxTime \in Nat \ {0}

VARIABLES
  now,         \* the clocks
  pc,          \* where run is
  samples,     \* samples: the last message of each kind, and its receipt
  fetched,     \* the kinds whose counts have grown since fresh() began
  monitoring,  \* monitoring
  watched,     \* measured['sample_count'] > 0
  errors,      \* measured['telemetry_errors'] is not empty
  raised,      \* the execution is being left by an exception
  outcome,     \* outcome
  current,     \* history: kinds received since the last answer waited for
  unseen       \* history: a stale joint sample came during the execution

vars == <<now, pc, samples, fetched, monitoring, watched, errors, raised,
          outcome, current, unseen>>

Kinds == {"joint", "franka"}
Times == 0..MaxTime

\* A message with stamp 0 is unstamped; one with a stamp past now is early.
Sample == [stamp : 0..(MaxTime + 1), receipt : Times]

Never == [stamp |-> 0, receipt |-> 0]

\* The waits of run, in order.  preflight is an ownership call, then fresh().
Pcs == {"limits", "planner", "ownership", "fresh", "discovery", "plan", "server",
        "ownership_again", "fresh_again", "execution", "final", "done"}

\* wait_for_service and wait_for_server do not spin the node.
Spinning == pc \in {"limits", "ownership", "fresh", "plan", "ownership_again",
                    "fresh_again", "execution", "final"}

Fetching == pc \in {"fresh", "fresh_again", "final"}

TypeOK ==
  /\ now \in Times
  /\ pc \in Pcs
  /\ samples \in [Kinds -> Sample]
  /\ fetched \subseteq Kinds
  /\ monitoring \in BOOLEAN /\ watched \in BOOLEAN /\ errors \in BOOLEAN
  /\ raised \in BOOLEAN
  /\ outcome \in {"none", "failed", "plan_only_validated", "execution_succeeded"}
  /\ current \subseteq Kinds
  /\ unseen \in BOOLEAN

Init ==
  /\ now = 1
  /\ pc = "limits"
  /\ samples = [k \in Kinds |-> Never]
  /\ fetched = {}
  /\ monitoring = FALSE /\ watched = FALSE /\ errors = FALSE
  /\ raised = FALSE
  /\ outcome = "none"
  /\ current = {}
  /\ unseen = FALSE

telemetry == <<now, samples, watched, errors, unseen>>

-----------------------------------------------------------------------------
(* Time and telemetry. *)

\* check_stamp: stamped, not from the future, not too old.
StampOk(stamp) == stamp > 0 /\ now - stamp \in 0..Freshness

Waiting == pc # "done"

Tick ==
  /\ Waiting
  /\ now < MaxTime
  /\ now' = now + 1
  /\ UNCHANGED <<pc, samples, fetched, monitoring, watched, errors, raised,
                 outcome, current, unseen>>

\* Mutant: monitoring looks at the joint state only.
GoodUnstamped(stamp, sound) == sound

\* What receive records as a sample and not as an error.
Good(stamp, sound) == StampOk(stamp) /\ sound

\* receive: the message is kept and counted and, while monitoring, checked
\* (sound: the joint state is well formed).
Receive(k, stamp, sound) ==
  /\ Spinning
  /\ samples' = [samples EXCEPT ![k] = [stamp |-> stamp, receipt |-> now]]
  /\ fetched' = fetched \cup {k}
  /\ current' = current \cup {k}
  /\ LET checked == monitoring /\ k = "joint"
     IN /\ watched' = (watched \/ (checked /\ Good(stamp, sound)))
        /\ errors' = (errors \/ (checked /\ ~Good(stamp, sound)))
  /\ unseen' = (unseen \/ (/\ pc = "execution" /\ k = "joint"
                           /\ ~(StampOk(stamp) /\ sound)))
  /\ UNCHANGED <<now, pc, monitoring, raised, outcome>>

-----------------------------------------------------------------------------
(* The stages of run. *)

\* A service answers: the call is over, and something it read is known now.
Answered(from, to) ==
  /\ pc = from
  /\ pc' = to
  /\ fetched' = {}
  /\ current' = {}
  /\ UNCHANGED <<telemetry, monitoring, raised, outcome>>

\* A service is discovered: nothing has been read, nothing was taken in.
Discovered(from, to) ==
  /\ pc = from
  /\ pc' = to
  /\ UNCHANGED <<telemetry, fetched, monitoring, raised, outcome, current>>

\* limits() and the controllers answer.
Limits == Answered("limits", "planner")
Ownership == Answered("ownership", "fresh")
OwnershipAgain == Answered("ownership_again", "fresh_again")

\* The planner is found before the start state is read, the action server
\* before the state is read again.
PlannerFound == Discovered("planner", "ownership")
ServerFound == Discovered("server", "ownership_again")

\* Every sample is fresh by its stamp and by its receipt.
AllFresh ==
  \A k \in Kinds : /\ StampOk(samples[k].stamp)
                   /\ now - samples[k].receipt <= Freshness

\* Mutant: any fresh sample will do, also one from before.
FreshSamplesOld == AllFresh

\* fresh(): a sample of each kind has come since it began, and all are fresh.
FreshSamples == fetched = Kinds /\ AllFresh

\* preflight('before_planning') passes its checks of health and rest.
PlanningState ==
  /\ FreshSamples
  /\ Discovered("fresh", "discovery")

\* call(planner): discovery must not have made the start state stale.
StillFresh == AllFresh

RequestPlan ==
  /\ StillFresh
  /\ Discovered("discovery", "plan")

\* The plan is in and valid.
PlanOnly ==
  /\ pc = "plan"
  /\ pc' = "done"
  /\ outcome' = "plan_only_validated"
  /\ UNCHANGED <<telemetry, fetched, monitoring, raised, current>>

PlanToExecute == Answered("plan", "server")

\* preflight('before_execution') and the drift pass; monitoring starts, and
\* the goal is sent.
Send ==
  /\ pc = "fresh_again"
  /\ FreshSamples
  /\ pc' = "execution"
  /\ monitoring' = TRUE
  /\ UNCHANGED <<telemetry, fetched, raised, outcome, current>>

\* The result is in, or an exception leaves the execution (its cancellation
\* included); the finally block begins to read the final state.
ExecutionEnds(exception) ==
  /\ pc = "execution"
  /\ pc' = "final"
  /\ monitoring' = FALSE
  /\ raised' = exception
  /\ fetched' = {}
  /\ current' = {}
  /\ UNCHANGED <<telemetry, outcome>>

\* Mutant: what the execution raised is lost in the finally block.
SucceedAnyway ==
  /\ pc = "final"
  /\ FreshSamples
  /\ watched /\ ~errors
  /\ pc' = "done"
  /\ outcome' = "execution_succeeded"
  /\ UNCHANGED <<telemetry, fetched, monitoring, raised, current>>

\* The final state is read and sound, and nothing was raised.
Succeed ==
  /\ pc = "final"
  /\ FreshSamples
  /\ ~raised /\ watched /\ ~errors
  /\ pc' = "done"
  /\ outcome' = "execution_succeeded"
  /\ UNCHANGED <<telemetry, fetched, monitoring, raised, current>>

\* Mutant: the outcome is the error.
FailWithError ==
  /\ pc \notin {"execution", "done"}
  /\ pc' = "done"
  /\ outcome' = "error"
  /\ UNCHANGED <<telemetry, fetched, monitoring, raised, current>>

\* A deadline passes or a check raises, wherever run is but in the execution.
Fail ==
  /\ pc \notin {"execution", "done"}
  /\ pc' = "done"
  /\ outcome' = "failed"
  /\ UNCHANGED <<telemetry, fetched, monitoring, raised, current>>

-----------------------------------------------------------------------------
Next ==
  \/ Tick
  \/ \E k \in Kinds, stamp \in 0..(now + 1), sound \in BOOLEAN :
       Receive(k, stamp, sound)
  \/ Limits \/ PlannerFound \/ Ownership \/ PlanningState \/ RequestPlan
  \/ PlanOnly \/ PlanToExecute \/ ServerFound \/ OwnershipAgain \/ Send
  \/ \E exception \in BOOLEAN : ExecutionEnds(exception)
  \/ Succeed \/ Fail

Spec == Init /\ [][Next]_vars

-----------------------------------------------------------------------------
(* Properties. *)

\* Every sample was measured, and received, at most Freshness ago.
Recent(k) == /\ now - samples[k].stamp \in 0..Freshness
             /\ now - samples[k].receipt \in 0..Freshness

(***************************************************************************)
(* The planner is asked for a plan, and a trajectory is sent, on a state   *)
(* that is recent when it is asked or sent, however long a service took to *)
(* be found, and that was received after the last look at the ownership of *)
(* the arm (and after the plan) had come in: what was checked is the arm   *)
(* as the plan left it, not a sample from before.                          *)
(***************************************************************************)
ActsOnRecent ==
  [][\/ pc = "discovery" /\ pc' = "plan"
     \/ pc = "fresh_again" /\ pc' = "execution"
     => current = Kinds /\ \A k \in Kinds : Recent(k)]_vars

(***************************************************************************)
(* An execution that is said to have succeeded was watched from before its *)
(* goal was sent until its result was in, without one stale or malformed   *)
(* joint sample, and its final state is recent and from after the result.  *)
(***************************************************************************)
SuccessIsWatched ==
  outcome = "execution_succeeded" =>
    /\ watched /\ ~unseen
    /\ current = Kinds
    /\ \A k \in Kinds : Recent(k)

(***************************************************************************)
(* The run keeps the promise of TargetRun whatever it hears: it executes   *)
(* only what was validated, and is no success once something went wrong.   *)
(***************************************************************************)
RunStage ==
  CASE pc \in {"limits", "planner", "ownership", "fresh", "discovery"} -> "before"
    [] pc = "plan" -> "planning"
    [] pc \in {"server", "ownership_again", "fresh_again"} -> "validated"
    [] pc = "execution" -> "executing"
    [] pc = "final" -> IF raised THEN "failing" ELSE "ended"
    [] pc = "done" -> outcome

Run == INSTANCE TargetRun WITH Runs <- {"run"}, stage <- [r \in {"run"} |-> RunStage]

RunsSpec == Run!Spec

-----------------------------------------------------------------------------
(* The inductive invariant. *)

\* The run listens to the joint states exactly while it executes, reads the
\* state from what came since the last answer, and counts what it should.
ListenInv ==
  /\ current = fetched
  /\ pc = "discovery" => current = Kinds
  /\ monitoring <=> pc = "execution"
  /\ unseen => errors
  /\ \A k \in Kinds : samples[k].receipt <= now
  /\ outcome = "execution_succeeded" => pc = "done"

TransportInv == TypeOK /\ ListenInv /\ SuccessIsWatched
=============================================================================
