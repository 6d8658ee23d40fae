----------------------------- MODULE FrankaHand -----------------------------
(***************************************************************************)
(* The asynchronous Move/Grasp client of the Franka Hand, with the gripper *)
(* server and the ROS transport it talks to (external).                    *)
(*                                                                         *)
(* The scheduler calls request and stop, the executor's timer calls tick;  *)
(* each holds the lock.  A tick is the sequence of its blocks, one step    *)
(* each, and the transport may complete a future between any two of them   *)
(* (a single-threaded executor completes them between ticks only).         *)
(* Requests are numbered from 1; 0 is None.  A future is "none" when its   *)
(* attribute is None, "pending" until it is done, and then names what      *)
(* result() gives; "raised" when result() raises.                          *)
(***************************************************************************)
EXTENDS Naturals, Sequences

CONSTANTS
  Moves,        \* the distinct Move commands a scheduler may request
  Grasps,       \* the distinct Grasp commands
  MaxRequests,  \* bound: requests recorded
  Raises        \* whether the transport and its futures may raise

ASSUME HandAssumption ==
  /\ Moves \cap Grasps = {}
  /\ MaxRequests \in Nat
  /\ Raises \in BOOLEAN

VARIABLES
  requests,      \* requests: command and disposition, by request id
  desired,       \* desired
  active,        \* active
  goal,          \* goal: the future of the goal response
  handle,        \* handle is not None
  result,        \* result: the future of the terminal result
  cancel,        \* cancel: the future of the cancel response
  cancelLogged,  \* cancel_logged
  stopFuture,    \* stop_future
  releaseStop,   \* release_stop_future
  holding,       \* holding_grasp
  deadline,      \* deadline: none, armed, or passed
  error,         \* error is not None
  stopping,      \* stopping
  stopSent,      \* _stop_sent
  pc,            \* the block of _tick to run next; "idle": lock is free
  server,        \* external: what the gripper has made of each request
  gripping,      \* external: the hand is holding something with force
  stopCalls,     \* history: terminal stop requests that left the client
  owed           \* history: 1 after a tick that raised, 2 from the tick after
                 \* it on, 0 once transport.stop() has been called

reqVars == <<requests, desired>>
goalVars == <<active, goal, handle, result, cancel, cancelLogged>>
stopVars == <<stopFuture, releaseStop, stopSent>>
failVars == <<error, stopping>>
extVars == <<server, gripping>>
histVars == <<stopCalls, owed>>

\* What only the client writes, but for the deadline and pc.
clientVars == <<reqVars, active, handle, cancelLogged, stopSent, holding,
                failVars, histVars>>

vars == <<reqVars, goalVars, stopVars, holding, deadline, failVars, pc, extVars,
          histVars>>

Commands == Moves \cup Grasps
Ids == 1..MaxRequests

Dispositions == {"queued", "duplicate", "superseded_before_issue", "issued",
                 "completed", "cancelled", "failed"}

Record == [cmd : Commands, disposition : Dispositions]

Blocks == {"idle", "deadline", "stop", "stop_result", "release", "goal",
           "cancel", "cancel_result", "result", "issue"}

\* Status 4 with success, status 5, and every other pair of the two.
Outcomes == {"succeeded", "canceled", "unsuccessful"}

BookTypes ==
  /\ requests \in Seq(Record)
  /\ desired \in 0..Len(requests)
  /\ active \in 0..Len(requests)
  /\ stopCalls \in 0..1
  /\ owed \in 0..2

FutureTypes ==
  /\ goal \in {"none", "pending", "accepted", "rejected", "raised"}
  /\ result \in {"none", "pending", "raised"} \cup Outcomes
  /\ cancel \in {"none", "pending", "answered", "raised"}
  /\ stopFuture \in {"none", "pending", "ok", "refused", "raised"}
  /\ releaseStop \in {"none", "pending", "ok", "refused", "raised"}
  /\ deadline \in {"none", "armed", "passed"}
  /\ pc \in Blocks
  /\ server \in [Ids -> {"none", "sent", "rejected", "executing"} \cup Outcomes]

FlagTypes ==
  /\ handle \in BOOLEAN
  /\ cancelLogged \in BOOLEAN
  /\ holding \in BOOLEAN
  /\ error \in BOOLEAN
  /\ stopping \in BOOLEAN
  /\ stopSent \in BOOLEAN
  /\ gripping \in BOOLEAN

TypeOK == BookTypes /\ FutureTypes /\ FlagTypes

Init ==
  /\ requests = <<>>
  /\ desired = 0 /\ active = 0
  /\ goal = "none" /\ result = "none" /\ cancel = "none"
  /\ stopFuture = "none" /\ releaseStop = "none"
  /\ handle = FALSE /\ cancelLogged = FALSE /\ holding = FALSE
  /\ deadline = "none"
  /\ error = FALSE /\ stopping = FALSE /\ stopSent = FALSE
  /\ pc = "idle"
  /\ server = [id \in Ids |-> "none"]
  /\ gripping = FALSE
  /\ stopCalls = 0 /\ owed = 0

Disposition(id) == requests[id].disposition

Queued == desired # 0 /\ Disposition(desired) = "queued"

\* Mutants: a desired request is never superseded, or whatever became of it.
SupersedingNever == FALSE
SupersedingAnything == desired # 0 /\ desired # active

\* Whether a new request supersedes the desired one.
Superseding == desired # active /\ Queued

Dispose(id, d) ==
  [requests EXCEPT ![id] = [cmd |-> requests[id].cmd, disposition |-> d]]

Done(future) == future \notin {"none", "pending"}

\* Mutant: the future of a refused stop is kept.
ClearedIfOk(future) == IF future = "ok" THEN "none" ELSE future

\* A future once its result has been read.
Cleared(future) == IF Done(future) THEN "none" ELSE future

\* Mutant: the stop is repeated while none is in flight.
StopOwedAgain == stopping /\ stopFuture = "none"

\* The terminal stop is tried once.
StopOwed == stopping /\ ~stopSent

\* Mutant: the result of a grasp is not taken in.
HoldingAfterForgets(success, expectedCancel) == holding /\ ~expectedCancel

\* holding_grasp after a terminal result.
HoldingAfter(success, expectedCancel) ==
  \/ success /\ requests[active].cmd \in Grasps
  \/ ~success /\ ~expectedCancel /\ holding

\* fail(): latch the error and give up every intent.
Fail ==
  /\ error' = TRUE
  /\ stopping' = TRUE
  /\ desired' = 0

\* tick() catches what _tick raised.
Raised ==
  /\ Fail
  /\ pc' = "idle"
  /\ owed' = 1

Go(block) == pc' = block

Continue(block) == Go(block) /\ UNCHANGED <<failVars, desired, owed>>

Skip(from, to) ==
  /\ pc = from
  /\ Go(to)
  /\ UNCHANGED <<reqVars, goalVars, stopVars, holding, deadline, failVars,
                 extVars, histVars>>

-----------------------------------------------------------------------------
(* The scheduler. *)

\* request_move and request_grasp, when check() lets them through.
Request(cmd) ==
  /\ pc = "idle"
  /\ ~error /\ ~stopping
  /\ Len(requests) < MaxRequests
  /\ LET duplicate == desired # 0 /\ requests[desired].cmd = cmd
         old == IF ~duplicate /\ Superseding
                THEN Dispose(desired, "superseded_before_issue")
                ELSE requests
         new == [cmd |-> cmd,
                 disposition |-> IF duplicate THEN "duplicate" ELSE "queued"]
     IN /\ requests' = Append(old, new)
        /\ desired' = IF duplicate THEN desired ELSE Len(requests) + 1
  /\ UNCHANGED <<goalVars, stopVars, holding, deadline, failVars, pc, extVars,
                 histVars>>

Stop ==
  /\ pc = "idle"
  /\ ~stopping
  /\ stopping' = TRUE
  /\ desired' = 0
  /\ UNCHANGED <<requests, goalVars, stopVars, holding, deadline, error, pc,
                 extVars, histVars>>

-----------------------------------------------------------------------------
(* The tick, block by block.  TickNo... is a block with nothing to do.     *)

Tick ==
  /\ pc = "idle"
  /\ Go("deadline")
  /\ owed' = IF owed = 1 THEN 2 ELSE owed
  /\ UNCHANGED <<reqVars, goalVars, stopVars, holding, deadline, failVars,
                 extVars, stopCalls>>

TickNoDeadline == deadline # "passed" /\ Skip("deadline", "stop")

TickDeadline ==
  /\ pc = "deadline"
  /\ deadline = "passed"
  /\ deadline' = "none"
  /\ Fail /\ Go("stop")
  /\ UNCHANGED <<requests, goalVars, stopVars, holding, extVars, histVars>>

TickNoStop == ~StopOwed /\ Skip("stop", "stop_result")

\* _stop_sent is set before the call, which may raise.
TickStop ==
  /\ pc = "stop"
  /\ StopOwed
  /\ stopSent' = TRUE
  /\ \/ /\ stopFuture' = "pending"
        /\ stopCalls' = stopCalls + 1
        /\ owed' = 0
        /\ Go("stop_result")
        /\ UNCHANGED <<failVars, desired>>
     \/ Raises /\ Raised /\ UNCHANGED <<stopFuture, stopCalls>>
  /\ UNCHANGED <<requests, goalVars, releaseStop, holding, deadline, extVars>>

TickNoStopResult == ~Done(stopFuture) /\ Skip("stop_result", "release")

\* A future that raises stays in its attribute.
TickStopResult ==
  /\ pc = "stop_result"
  /\ Done(stopFuture)
  /\ \/ stopFuture = "raised" /\ Raised /\ UNCHANGED stopFuture
     \/ /\ stopFuture # "raised"
        /\ stopFuture' = Cleared(stopFuture)
        /\ IF stopFuture = "refused" THEN Fail ELSE UNCHANGED <<failVars, desired>>
        /\ Go("release")
        /\ UNCHANGED owed
  /\ UNCHANGED <<requests, goalVars, releaseStop, stopSent, holding, deadline,
                 extVars, stopCalls>>

TickNoRelease == ~Done(releaseStop) /\ Skip("release", "goal")

\* A release stop that raises or was refused ends the tick.
TickReleaseFailed ==
  /\ pc = "release"
  /\ \/ releaseStop = "raised" /\ Raised /\ UNCHANGED releaseStop
     \/ /\ releaseStop = "refused"
        /\ releaseStop' = Cleared(releaseStop)
        /\ Fail /\ Go("idle")
        /\ UNCHANGED owed
  /\ UNCHANGED <<requests, goalVars, stopFuture, stopSent, holding, deadline,
                 extVars, stopCalls>>

TickReleased ==
  /\ pc = "release"
  /\ releaseStop = "ok"
  /\ releaseStop' = Cleared(releaseStop)
  /\ holding' = FALSE
  /\ deadline' = "none"
  /\ stopSent' = (stopSent \/ stopping)
  /\ Continue("goal")
  /\ UNCHANGED <<requests, goalVars, stopFuture, extVars, stopCalls>>

TickNoGoal == ~Done(goal) /\ Skip("goal", "cancel")

TickGoalRejected ==
  /\ pc = "goal"
  /\ goal = "rejected"
  /\ goal' = "none"
  /\ active' = 0
  /\ handle' = FALSE
  /\ deadline' = "none"
  /\ Fail /\ Go("cancel")
  /\ UNCHANGED <<requests, result, cancel, cancelLogged, stopVars, holding,
                 extVars, histVars>>

\* The response may raise; so may asking an accepted handle for the result.
TickGoal ==
  /\ pc = "goal"
  /\ goal \in {"accepted", "raised"}
  /\ goal' = "none"
  /\ handle' = (goal = "accepted")
  /\ \/ goal = "accepted" /\ result' = "pending" /\ Continue("cancel")
     \/ Raises /\ Raised /\ UNCHANGED result
  /\ UNCHANGED <<requests, active, cancel, cancelLogged, stopVars, holding,
                 deadline, extVars, stopCalls>>

Replacing == active # 0 /\ desired # active

MayCancel == Replacing /\ handle /\ cancel = "none"

TickNoCancel == ~MayCancel /\ Skip("cancel", "cancel_result")

TickCancel ==
  /\ pc = "cancel"
  /\ MayCancel
  /\ \/ cancel' = "pending" /\ deadline' = "armed" /\ Continue("cancel_result")
     \/ Raises /\ Raised /\ UNCHANGED <<cancel, deadline>>
  /\ UNCHANGED <<requests, active, goal, handle, result, cancelLogged, stopVars,
                 holding, extVars, stopCalls>>

TickNoCancelResult ==
  (~Done(cancel) \/ cancelLogged) /\ Skip("cancel_result", "result")

TickCancelResult ==
  /\ pc = "cancel_result"
  /\ Done(cancel)
  /\ ~cancelLogged
  /\ \/ cancel = "raised" /\ Raised /\ UNCHANGED cancelLogged
     \/ cancel = "answered" /\ cancelLogged' = TRUE /\ Continue("result")
  /\ UNCHANGED <<requests, active, goal, handle, result, cancel, stopVars,
                 holding, deadline, extVars, stopCalls>>

\* The slot is kept while the cancel is unanswered.
TickWait == Done(result) /\ cancel = "pending" /\ Skip("result", "idle")

TickNoResult == ~Done(result) /\ Skip("result", "issue")

TickResultRaised ==
  /\ pc = "result"
  /\ result = "raised"
  /\ cancel # "pending"
  /\ Raised
  /\ UNCHANGED <<requests, goalVars, stopVars, holding, deadline, extVars,
                 stopCalls>>

\* The terminal result: account for it and free the slot.
TickResult ==
  /\ pc = "result"
  /\ result \in Outcomes
  /\ cancel # "pending"
  /\ LET expectedCancel == cancel # "none" /\ result = "canceled"
         success == result = "succeeded"
     IN /\ holding' = HoldingAfter(success, expectedCancel)
        /\ IF ~success /\ ~expectedCancel /\ ~stopping
           THEN Fail
           ELSE UNCHANGED <<failVars, desired>>
        /\ requests' = Dispose(active, IF success THEN "completed"
                                       ELSE IF expectedCancel THEN "cancelled"
                                       ELSE "failed")
  /\ active' = 0
  /\ handle' = FALSE
  /\ result' = "none"
  /\ cancel' = "none"
  /\ cancelLogged' = FALSE
  /\ deadline' = "none"
  /\ Go("issue")
  /\ UNCHANGED <<goal, stopVars, extVars, histVars>>

TickNothing == (stopping \/ active # 0 \/ ~Queued) /\ Skip("issue", "idle")

\* Mutant: a goal is issued over the active one.
MayIssueOver == pc = "issue" /\ ~stopping /\ Queued

MayIssue == pc = "issue" /\ ~stopping /\ active = 0 /\ Queued

\* Mutants: only a Move needs the hand released; every Grasp needs it.
MustReleaseMoves == holding /\ requests[desired].cmd \in Moves
MustReleaseGrasps == holding \/ requests[desired].cmd \in Grasps

\* The hand has to be released before anything is issued.
MustRelease == holding

TickReleaseWait ==
  MayIssue /\ MustRelease /\ releaseStop # "none" /\ Skip("issue", "idle")

\* A held grasp is released by a nonterminal stop before anything is issued.
TickReleaseStop ==
  /\ MayIssue
  /\ MustRelease
  /\ releaseStop = "none"
  /\ \/ /\ releaseStop' = "pending"
        /\ deadline' = "armed"
        /\ owed' = 0
        /\ Go("idle")
        /\ UNCHANGED <<failVars, desired>>
     \/ Raises /\ Raised /\ UNCHANGED <<releaseStop, deadline>>
  /\ UNCHANGED <<requests, goalVars, stopFuture, stopSent, holding, extVars,
                 stopCalls>>

\* Issue the latest queued request.
TickIssue ==
  /\ MayIssue
  /\ ~MustRelease
  /\ active' = desired
  /\ requests' = Dispose(desired, "issued")
  /\ deadline' = "armed"
  /\ \/ /\ goal' = "pending"
        /\ server' = [server EXCEPT ![desired] = "sent"]
        /\ Continue("idle")
     \/ Raises /\ Raised /\ UNCHANGED <<goal, server>>
  /\ UNCHANGED <<handle, result, cancel, cancelLogged, stopVars, holding,
                 gripping, stopCalls>>

-----------------------------------------------------------------------------
(* External: the clock, the gripper server and the transport. *)

DeadlinePasses ==
  /\ deadline = "armed"
  /\ deadline' = "passed"
  /\ UNCHANGED <<clientVars, goal, result, cancel, stopFuture, releaseStop, pc,
                 extVars>>

ServerAnswersGoal(id) ==
  /\ server[id] = "sent"
  /\ \E st \in {"executing", "rejected"} : server' = [server EXCEPT ![id] = st]
  /\ UNCHANGED <<reqVars, goalVars, stopVars, holding, deadline, failVars, pc,
                 gripping, histVars>>

\* A goal ends.  It is "canceled" only when its cancellation was requested.  A
\* grasp that misses its width may still hold what it met.
ServerFinishes(id) ==
  /\ server[id] = "executing"
  /\ \E outcome \in Outcomes :
       /\ outcome = "canceled" => id = active /\ cancel # "none"
       /\ server' = [server EXCEPT ![id] = outcome]
       /\ IF requests[id].cmd \in Moves THEN UNCHANGED gripping
          ELSE \/ outcome # "canceled" /\ gripping' = TRUE
               \/ outcome # "succeeded" /\ gripping' = FALSE
  /\ UNCHANGED <<reqVars, goalVars, stopVars, holding, deadline, failVars, pc,
                 histVars>>

\* What the future of the goal response, or of the result, resolves to.
Resolves(value) == IF Raises THEN {value, "raised"} ELSE {value}

GoalResponseArrives ==
  /\ goal = "pending"
  /\ server[active] \notin {"none", "sent"}
  /\ goal' \in Resolves(IF server[active] = "rejected" THEN "rejected"
                        ELSE "accepted")
  /\ UNCHANGED <<clientVars, result, cancel, stopFuture, releaseStop, deadline,
                 pc, extVars>>

ResultArrives ==
  /\ result = "pending"
  /\ server[active] \in Outcomes
  /\ result' \in Resolves(server[active])
  /\ UNCHANGED <<clientVars, goal, cancel, stopFuture, releaseStop, deadline, pc,
                 extVars>>

\* The server's verdict on the cancellation is only logged.
CancelResponseArrives ==
  /\ cancel = "pending"
  /\ cancel' \in Resolves("answered")
  /\ UNCHANGED <<clientVars, goal, result, stopFuture, releaseStop, deadline, pc,
                 extVars>>

\* The stop service opens the grip, refuses, or is not heard of.
StopAnswer(future) ==
  /\ future = "pending"
  /\ future' \in {"ok", "refused"} \cup (IF Raises THEN {"raised"} ELSE {})
  /\ gripping' = (gripping /\ future' # "ok")
  /\ UNCHANGED <<clientVars, goal, result, cancel, deadline, pc, server>>

StopResponseArrives == StopAnswer(stopFuture) /\ UNCHANGED releaseStop

ReleaseResponseArrives == StopAnswer(releaseStop) /\ UNCHANGED stopFuture

-----------------------------------------------------------------------------
Scheduler == (\E cmd \in Commands : Request(cmd)) \/ Stop

TickBlocks ==
  \/ TickNoDeadline \/ TickDeadline \/ TickNoStop \/ TickStop
  \/ TickNoStopResult \/ TickStopResult
  \/ TickNoRelease \/ TickReleaseFailed \/ TickReleased
  \/ TickNoGoal \/ TickGoalRejected \/ TickGoal
  \/ TickNoCancel \/ TickCancel \/ TickNoCancelResult \/ TickCancelResult
  \/ TickWait \/ TickNoResult \/ TickResultRaised \/ TickResult
  \/ TickNothing \/ TickReleaseWait \/ TickReleaseStop \/ TickIssue

External ==
  \/ DeadlinePasses
  \/ \E id \in Ids : ServerAnswersGoal(id) \/ ServerFinishes(id)
  \/ GoalResponseArrives \/ ResultArrives \/ CancelResponseArrives
  \/ StopResponseArrives \/ ReleaseResponseArrives

Next == Scheduler \/ Tick \/ TickBlocks \/ External

\* The 5 ms timer keeps ticking.
TimerFairness == WF_vars(Tick) /\ WF_vars(TickBlocks)

\* A gripper that answers everything it is asked.
ServerFairness ==
  /\ \A id \in Ids : WF_vars(ServerAnswersGoal(id)) /\ WF_vars(ServerFinishes(id))
  /\ WF_vars(GoalResponseArrives)
  /\ WF_vars(ResultArrives)
  /\ WF_vars(CancelResponseArrives)
  /\ WF_vars(StopResponseArrives)
  /\ WF_vars(ReleaseResponseArrives)

Spec == Init /\ [][Next]_vars

FairSpec == Spec /\ TimerFairness /\ ServerFairness

\* Mutant: a taken slot does not count.
SettledWithSlot ==
  /\ goal = "none" /\ stopFuture = "none" /\ releaseStop = "none"
  /\ ~Queued
  /\ stopping => stopSent

\* settled, as the caller reads it.
Settled ==
  /\ active = 0
  /\ goal = "none" /\ stopFuture = "none" /\ releaseStop = "none"
  /\ ~Queued
  /\ stopping => stopSent

-----------------------------------------------------------------------------
(* Properties. *)

Live(id) == server[id] \in {"sent", "executing"}

(***************************************************************************)
(* The gripper is never given a goal while another of ours is alive there: *)
(* sending a goal is not preemption, so the client itself has to wait out  *)
(* acceptance, cancellation and the terminal result of the old one.        *)
(***************************************************************************)
OneLiveGoal == \A a, b \in Ids : Live(a) /\ Live(b) => a = b

(***************************************************************************)
(* A goal leaves the client only when it is the latest distinct request,   *)
(* no cancel, stop or release is under way, nothing has failed or asked to *)
(* stop, and the hand holds nothing.                                       *)
(***************************************************************************)
IssueIsSafe ==
  [][\A id \in Ids :
       server[id] = "none" /\ server'[id] = "sent" =>
         /\ ~stopping /\ ~error /\ ~gripping
         /\ cancel = "none" /\ stopFuture = "none" /\ releaseStop = "none"
         /\ \A later \in (id + 1)..Len(requests) :
              Disposition(later) = "duplicate"]_vars

(***************************************************************************)
(* The book is right: the request that holds the slot is "issued", and no  *)
(* other is unless the gripper rejected it; the only one "queued" is the   *)
(* desired one, until a shutdown leaves it queued for good.                *)
(***************************************************************************)
BookIsRight ==
  /\ active # 0 => Disposition(active) = "issued"
  /\ \A id \in 1..Len(requests) :
       /\ Disposition(id) = "issued" /\ id # active => server[id] = "rejected"
       /\ Disposition(id) = "queued" /\ ~stopping => id = desired

(***************************************************************************)
(* The outcome of a request is final, and says what the gripper did.       *)
(***************************************************************************)
OutcomeIsFinal ==
  [][\A id \in 1..Len(requests) :
       /\ Disposition(id) \notin {"queued", "issued"} =>
            requests'[id] = requests[id]
       /\ requests'[id].disposition = "completed" => server[id] = "succeeded"
       /\ requests'[id].disposition = "cancelled" => server[id] = "canceled"]_vars

(***************************************************************************)
(* When the client reports settled, nothing of it is alive at the gripper  *)
(* and the last word it had from it has been taken in.                     *)
(***************************************************************************)
SettledIsQuiet ==
  pc = "idle" /\ Settled =>
    /\ \A id \in Ids : ~Live(id)
    /\ cancel = "none" /\ result = "none"

(***************************************************************************)
(* The client never believes the hand empty while it holds something it    *)
(* has been told of: unless the grasp's result is still to be read, or the *)
(* client is stopping, holding_grasp covers the physical grip.             *)
(***************************************************************************)
GripIsKnown == gripping /\ active = 0 /\ ~stopping => holding

(***************************************************************************)
(* A shutdown settles, if the gripper answers and nothing raises.          *)
(***************************************************************************)
ShutdownSettles == stopping ~> Settled

(***************************************************************************)
(* A queued request is issued, superseded by a later one, or given up with *)
(* the whole client; a held grasp and a cancel that is refused are both on *)
(* the way.                                                                *)
(***************************************************************************)
IsQueued(id) == id <= Len(requests) /\ Disposition(id) = "queued"

QueuedIsServed == \A id \in Ids : IsQueued(id) ~> (stopping \/ ~IsQueued(id))

(***************************************************************************)
(* Comment of fr3_lab_stack_runtime/franka_hand.py:179, "Transport         *)
(* exceptions are latched for the scheduler, never lost in an executor     *)
(* callback. Next tick attempts the stop service": when the tick after one *)
(* that raised is over, a stop has been requested.                         *)
(***************************************************************************)
StopFollowsException == pc = "idle" /\ owed = 2 => stopCalls > 0

(***************************************************************************)
(* What is left of that comment: when the tick after one that raised is    *)
(* over, a stop has been tried.  The only way to miss it is that the call  *)
(* itself raises.                                                          *)
(***************************************************************************)
StopIsTried == pc = "idle" /\ owed = 2 => stopSent

(***************************************************************************)
(* The client keeps the promise of GripperClient, whatever is superseded,  *)
(* cancelled, released, rejected or raised on the way: goals are given in  *)
(* the order of the requests, each once, the latest one only, never two    *)
(* alive, and none once the client is stopping.                            *)
(***************************************************************************)
Client == INSTANCE GripperClient WITH
  asked <- Len(requests),
  wanted <- desired,
  given <- {id \in Ids : server[id] # "none"},
  alive <- {id \in Ids : Live(id)},
  stopped <- stopping

ClientSpec == Client!Spec

\* What a shutdown still has before it, at most.
PendingDebt(future) ==
  IF future = "pending" THEN 2 ELSE IF future = "none" THEN 0 ELSE 1

ServerDebt ==
  IF server[active] = "sent" THEN 2 ELSE IF server[active] = "executing" THEN 1 ELSE 0

CancelDebt ==
  IF cancel = "none" THEN 5 ELSE IF cancel = "pending" THEN 2
  ELSE IF cancelLogged THEN 0 ELSE 1

AnswerDebt == IF goal # "none" THEN 3 + PendingDebt(goal) ELSE 1 + PendingDebt(result)

SlotDebt == IF active = 0 THEN 0 ELSE ServerDebt + CancelDebt + AnswerDebt

StopDebt == (IF stopSent THEN 0 ELSE 3) + PendingDebt(stopFuture) + PendingDebt(releaseStop)

DeadlineDebt == IF deadline = "armed" THEN 2 ELSE IF deadline = "passed" THEN 1 ELSE 0

Debt == SlotDebt + StopDebt + DeadlineDebt

(***************************************************************************)
(* A shutdown winds down: every step of it, the gripper's included, brings *)
(* it nearer to its end or changes nothing but the place in the tick and   *)
(* the latched error, whatever raises; and at its end the client is        *)
(* settled.  So no more than some twenty steps of a shutdown have any      *)
(* effect, and only an answer that never comes can keep it from its end.   *)
(***************************************************************************)
ShutdownWindsDown ==
  [][stopping =>
       \/ Debt' < Debt
       \/ UNCHANGED <<reqVars, goalVars, stopVars, holding, deadline, extVars>>]_vars

NoDebtIsSettled == stopping /\ Debt = 0 => Settled

-----------------------------------------------------------------------------
(* The inductive invariant behind OneLiveGoal, GripIsKnown and IssueIsSafe. *)

\* The slot is taken as long as a goal of ours may be alive; the handle and the
\* future of the result follow the goal response, and the futures tell the
\* truth.
SlotInv ==
  /\ \A id \in Ids : Live(id) => id = active
  /\ active = 0 => goal = "none" /\ result = "none" /\ ~handle
  /\ result # "none" \/ handle => goal = "none"
  /\ cancel # "none" => handle
  /\ goal = "rejected" => server[active] = "rejected"
  /\ result \in Outcomes => server[active] = result

\* Every intent is given up with the client; one stop at most is sent then.
StopInv ==
  /\ stopping => desired = 0
  /\ error => stopping
  /\ stopFuture # "none" => stopping
  /\ stopCalls > 0 => stopSent

\* What is desired is the latest distinct request, and no goal is newer.
OrderInv ==
  /\ Len(requests) <= MaxRequests
  /\ active # 0 /\ ~stopping => desired # 0 /\ active <= desired
  /\ desired # 0 => \A id \in (desired + 1)..Len(requests) :
                      Disposition(id) = "duplicate"

\* A grip is one that holding_grasp knows of, or the outcome of a grasp that
\* still has the slot.  A release leaves the slot free.
GripInv ==
  /\ releaseStop # "none" => holding /\ active = 0
  /\ releaseStop = "ok" => ~gripping
  /\ gripping /\ ~stopping =>
       IF active = 0 THEN holding
       ELSE /\ requests[active].cmd \in Grasps
            /\ server[active] \in {"succeeded", "unsuccessful"}

HandInv == TypeOK /\ SlotInv /\ StopInv /\ OrderInv /\ GripInv

\* What the book says of an outcome, and what it leaves open, is so.
BookInv ==
  /\ BookIsRight
  /\ \A id \in 1..Len(requests) :
       /\ Disposition(id) = "completed" => server[id] = "succeeded"
       /\ Disposition(id) = "cancelled" => server[id] = "canceled"

\* A goal is given for the desired request or an earlier one, which is then no
\* longer queued.
GivenInv ==
  \A id \in Ids : server[id] # "none" =>
    /\ id <= Len(requests)
    /\ Disposition(id) # "queued"
    /\ stopping \/ id <= desired

\* A tick that raised has latched the error; the tick after it comes by its
\* stop block.
OwedInv ==
  /\ owed # 0 => stopping
  /\ owed = 1 => pc = "idle"
  /\ owed = 2 /\ pc \notin {"deadline", "stop"} => stopSent
=============================================================================
