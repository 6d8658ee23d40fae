# TLA+ models of fr3_lab_stack

This directory specifies, model-checks and proves the concurrent parts of
`fr3_lab_stack`: the streaming joint impedance controller (C++, ros2_control),
its timing evidence from the lock-free ring to the verdicts of the offline
analysis, the Franka Hand client, the target forwarder, and the joint-target
action server with its telemetry and the script that commissions it (Python, rclpy).
Paths below are relative to the repository.

## 1. The system

| Part | Code | State it keeps | Operations |
|---|---|---|---|
| Streaming controller | `src/streaming_joint_impedance_controller.cpp`, `include/fr3_lab_stack/streaming_joint_impedance_controller.hpp`, `..._core.hpp` | lifecycle, `core_` (active, `desired_q_`), `target_buffer_`, `activation_`, `accept_commands_`, `next_sequence_`, `last_applied_sequence_` | `on_configure`, `on_activate`, `on_deactivate`, `on_cleanup`, `update`, `target_callback` |
| Timing evidence | `include/fr3_lab_stack/timing_evidence.hpp`, `drain_evidence`, `publish_evidence` | the ring's cursors, slots and overflow counters; `evidence_id_`, `timing_publication_errors_` | `push`, `pop`, `install`, the drain |
| Franka Hand client | `fr3_lab_stack_runtime/franka_hand.py` | the book of requests, the desired and the active one, the futures of goal, result, cancel and the two stops, `holding_grasp`, deadline, error, shutdown flags | `request_move`, `request_grasp`, `stop`, `tick`, `settled` |
| Target forwarder | `fr3_lab_stack_runtime/streaming_joint_target_forwarder.py` | evidence that the controller is active, the outstanding request, status, counters | `poll`, `on_controllers`, `on_target` |
| Joint target execution | `fr3_lab_stack_runtime/joint_target.py` | latest samples, counts, one execution attempt, evidence | `receive`, `wait`, `fresh`, `preflight`, `run` |
| Joint target server | `fr3_lab_stack_runtime/joint_target_server.py` | the busy gate, the goal in execution | `goal_callback`, `execute_callback` |
| Timing analysis | `fr3_lab_stack_runtime/timing_evidence.py`, `streaming_timing_collector.py` | records of one run | `analyze`, collection |
| Regression script | `scripts/manual_joint_target_server_regression.py` | what the server answered about `execute`, the goal | `main` |
| Control law | `hybrid_impedance_math.hpp`, `compute` of the core | gains | floating-point functions |
| Launch, configuration, other scripts | `launch/`, `config/`, `rviz/`, `scripts/` | none | composition and manual tools |

How they interact:

* The forwarder asks the controller manager, over a service, whether the
  streaming controller is active, and republishes targets on the controller's
  topic while it has recent evidence of it.
* In the controller, three threads meet. The executor thread runs
  `target_callback` and the 20 ms drain (one callback at a time). The real-time
  thread runs `update` and the switches on and off. The controller manager's own
  thread runs `on_configure` and `on_cleanup`. They share atomics, a
  `RealtimeBuffer` whose real-time side only tries the mutex, and the lock-free
  evidence ring.
* The hand's client is called by a scheduler thread (`request`, `stop`) and by a
  5 ms timer (`tick`) under one lock; the ROS transport completes futures behind
  its back, and the physical gripper goes on by itself.
* The joint target server gives each accepted goal a worker of its own, which
  plans, checks and executes with MoveIt over services and an action. The worker
  takes telemetry in only while it spins, so what it decides on may be old.
* The controller publishes a record for each callback and for each drained batch
  of samples, from two threads and without a lock; a collector receives some of
  them; afterwards `analyze` says of each target whether it was applied.
* The regression script asks the server once whether it executes, decides on the
  answer, and sends a goal that the server treats by what the parameter is then.

What is hard to get right, and to test: an activation that races with callbacks
of the activation before; a command buffer that may return an old command;
sequence numbers that are reset while someone holds one; counters that are read
while they move; a cancel that races with a success; a stop that races with a
stop; futures that raise; replies that are late or never come. `PROJECT.json`
lists every such hazard at its line, with the property that watches it.

What makes each part correct:

* *Controller*: the equilibrium is the measured pose until a target arrives and
  then moves only to later, accepted targets; labels and telemetry tell the
  truth about it.
* *Evidence*: samples come out once, in order, and what is missing is counted;
  no verdict claims an application, or the lack of one, that the records that
  happened to arrive do not support.
* *Hand*: one goal at a time at the gripper, no goal into a held object or after
  a failure, an honest book, a shutdown that settles and leaves nothing alive.
* *Forwarder*: it fails closed, tells its state, and comes to know an active
  controller again.
* *Joint target server*: at most one execution, never retried, and an outcome
  that is not claimed without evidence; plans and motions that start from a
  recent state of the arm, and successes that were watched.
* *Script*: a pass that means what it says, and no motion that was not permitted.

## 2. Modules

| Module | What it is |
|---|---|
| `TargetRegister` | the promise of the controller without threads: a register that starts at the measured pose and moves forward to accepted targets |
| `StreamingController` | the controller; implements `TargetRegister` |
| `EvidenceQueue` | the promise of the evidence ring: a bounded queue that counts what it refuses |
| `TimingRing` | the evidence ring, the drain and the last drain; implements `EvidenceQueue` until two drains overlap |
| `EvidenceLog` | `StreamingController` composed with `publish_evidence`, a lossy collector and the verdict of `analyze` |
| `GripperClient` | the promise of the hand's client: one goal at a time, in the order asked, none after a stop |
| `FrankaHand` | the hand's client with transport and gripper; implements `GripperClient` |
| `TargetForwarder` | the gate with the controller manager and time |
| `TargetRun` | the promise of a joint-target run: one at a time has the arm, executed once and after validation, no success after anything went wrong |
| `JointTargetServer` | the busy gate, the callbacks of the goals and MoveIt; implements `TargetRun` for all goals |
| `RosTransport` | one execution's telemetry: samples, clocks, monitoring; implements `TargetRun` for one run |
| `RegressionClient` | `JointTargetServer` composed with the script and an operator |
| `MC<Module>` | the modules given to TLC, with their `.cfg` files |
| `<Module>Proofs` | theorems and their proofs |

Definitions that begin with a comment "Mutant:" are variants with a bug someone
could have written; each is there to show that one property notices it. They are
part of no behaviour.

### StreamingController

*State.* One variable per member of the class that the threads share, plus the
two slots and the flag of `RealtimeBuffer` and the callback in flight. A
`TargetCommand` is the number of the message it came from, its sequence, and
the activation its callback loaded at entry; the pose, stamp and clock readings
are abstracted. `activation_` is a clock reading that is unique to each
activation, so the activation's number stands for it.

*Steps.* `on_activate` is cut at every access to shared state: `ActivateStore`
(`core_.activate` and `activation_.store`), `ActivateHold` (the hold is written
to the buffer), `ActivateReset` (sequence numbers), `ActivateCommand` (effort
interfaces, then `accept_commands_`). `ActivateRefused` is every return before
the store. `target_callback` is cut the same way: `CallbackEnter` loads the
activation, `CallbackCheck` or `CallbackReject` decides, `CallbackSequence` takes
the number, `CallbackWrite` writes the buffer. `update` touches shared state at
one point, so it is one step, `Update` or `UpdateError`; `UpdateNoState` is its
early return. `readFromRT` (external) swaps in new data when it gets the mutex
and otherwise returns the last command; it may always fail to get it while a
callback is inside its write.

*Properties.* `RegisterSpec` (refinement of `TargetRegister`): within an
activation the equilibrium only moves forward, to accepted targets. `LabelSound`:
a target labelled with the activation that installed it was really accepted and
written in it. `TelemetryTruthful`: sequence 0 is reported exactly while the
equilibrium is the activation pose. `StarvationIsVisible`: an own target that was
read and not installed implies that a foreign one was installed. `OldTargetsShow`
(proved only) is what finding 1 leaves of the claim it refutes: a target in force
that was not written in this activation carries an older label. `TakesEffect`
(liveness): the last target sent in an activation takes effect, unless a command
of an earlier activation starves it; targets are finitely many, so the mutex of
`readFromRT` is not contended for ever (at 1 kHz against a few targets a second
the real loop gets it between two writes).

### TimingRing

*State.* The cursors, slots (a sample is known by its cycle) and the two
overflow counters; the position of the producer inside `push` and of each drain
inside `pop` and `drain_evidence`; as history, the log of stored samples and the
set of popped ones. `overlapped` remembers that `on_cleanup` began its drain
while the timer's was in flight, which the code does not prevent.

*Steps.* Every atomic access and the plain copies of a sample are steps of their
own. `OnCleanup` takes away the timer and starts the last drain.

*Properties*, each until two drains have overlapped: `NoSlotRace`,
`GapsAreCounted` (each published record explains its own gaps), `SamplesLeave`
(liveness), and `QueueSpec`: the ring is the queue of `EvidenceQueue`, with the
refinement mapping that the queue is the part of the log from `read` on. The
refinement says in one formula that no sample is taken twice, that each is
stored or counted, and that they leave in order (`PopsInOrder`, proved on its
own). Proved only: `CleanupEmpties` (a controller that has been cleaned up holds
no sample, given that a drain may take a full ring, as 8192 pops do) and
`DrainsWindDown` (every step of a drain lowers `Work`, and nothing else touches
it: arrivals cannot extend it, which is what the comment at
`src/streaming_joint_impedance_controller.cpp:605` claims).

### EvidenceLog

*State.* The controller's, and: the applications pushed into the ring with the
cursor `read_`, `evidence_id_`, the instance of the configuration, where each of
the two threads is in `drain_evidence` and `publish_evidence` with its record, the
list of records the collector has, and as history the applications that were made.
Cycles without an application matter to no verdict, so the ring holds
applications only: a push may find it full of the others (`droppedApps`), and a
drain of the timer may reach its limit on them.

*Steps.* `EvidenceLog` extends `StreamingController` and binds its actions: an
`update` that installs a target pushes its sample (`Capture`), the end of a
callback begins its record (`Emit`), `on_cleanup` drains, publishes and then
resets. `publish_evidence` is cut where it matters: the null check of the publisher, the load of
`evidence_id_` (`LoadId`), and the store with the publication (`Publish`), which
may raise, be lost on the way, or find a publisher that has been reset meanwhile.
That last case, a publisher used after its reset by the other thread, is undefined in C++ and
modelled as a lost record that took its ID. `TimerDrain` and `CleanupDrain` begin
a drain, which pops sample by sample: `LoadRead` loads the cursor, `StoreRead`
copies the sample and stores the cursor's successor, `EndDrain` leaves the loop
and reads the counter. Two drains at once may so take one sample twice; what a
slot holds when the cursor they moved back lets the producer write it again is the
question of `TimingRing`. `Verdict` is `analyze`, over the list of records received, in
the order of its conditions. Its applications are a list too (`Applications` gives
each its place), so that one in two batches is two. Targets have distinct stamps,
as the forwarder's clock gives them.

*Properties.* `AppliedIsTrue`: "applied" is said only of a target that the
activation named in its verdict accepted and installed. `SupersededIsTrue`: "superseded",
which is concluded from what was *not* received, is true, unless a callback's
publication and that of `on_cleanup` have overlapped (see below).
`NeverAmbiguous`: two records of one target never spoil a verdict, unless the
timer's drain was still popping when that of `on_cleanup` began (see below); a
target that two activations install keeps its one verdict.

### FrankaHand

*State.* The attributes of the class. A future is "none" when its attribute is
`None`, "pending" until it is done, and then names its outcome; "raised" means
that `result()` raises. `server` and `gripping` are external. `pc` is the next
block of `_tick`, so that the transport may complete a future between two blocks
(more interleavings than a single-threaded executor has; a multi-threaded one
has them all).

*Steps.* One action for each block of `_tick` and each way out of it, in the
order of the code, with a `TickNo...` action for a block whose condition is
false. `Raised` is what `tick` does with an exception: the state keeps what had
been assigned by then. The gripper may reject a goal, let it end in any way, be
cancelled only if it was asked to, and keep or lose its grip when a grasp fails.

*Properties.* `ClientSpec` (refinement of `GripperClient`; `OneLiveGoal` is its
oldest part), `IssueIsSafe`, `BookIsRight`, `OutcomeIsFinal`, `SettledIsQuiet`,
`GripIsKnown`; `ShutdownSettles` and `QueuedIsServed` are liveness. Proved only:
`ShutdownWindsDown` and `NoDebtIsSettled`, which measure what a shutdown still
has before it (`Debt`), and `StopIsTried`, what finding 2 leaves of the comment
it refutes.

### TargetForwarder

*State.* `evidence_ns` and the requests' sending times are kept as ages, which
`Pass` increments up to one past the expiry, where they no longer matter. The
controller manager, with the time since the controller was last active, is
external. The checks of a message's shape and stamp are one choice, valid or not.

*Steps.* `poll` is four actions (pending, unavailable, request, request raises),
`on_controllers` one, `on_target` two.

*Properties.* `EvidenceIsTrue` is two things: whenever the gate would let a target
through, the controller has been active within the expiry, however late the reply
came (`RecentlyActive`), and "active" is reported exactly while there is evidence
(`StatusTellsEvidence`). `KeepsConfirming` (liveness): in the
end, with the controller active, requests go on to be sent and to end with new
evidence, again and again; one confirmation is not enough, for evidence
expires. The exceptions are a request lost with the manager (its future never completes and
`poll` returns early from then on, as `docs/streaming_joint_target_forwarder.md:40`
says) and replies that go on to be unreadable.

### JointTargetServer

*State.* `pc` is where a goal's client and then its `execute_callback` are; `ev`
is the goal's evidence, reduced to what decides or reports something. An arm
reading is its displacement from the goal's `reference_q` on one axis. What a
client is told is two things, the goal's terminal state (`reply`) and the
outcome in the result (`result`). `ok` is `rclpy.ok()`. MoveIt's goal is
external: sent, answered at any time or never, ended at any time. `rest` says
that a sample of the arm at rest may still be within the freshness bound, so a
motion that has just begun does not yet show.

*Steps.* A wait that reads nothing shared belongs to the step after it, and
`Raises` is every exception before the goal is sent. The action goal is finer:
`Send` (the attempt is consumed before the transport is called, which may
raise), the goal response, the result, the cancellation and the `finally` block
are steps of their own, each with its timeout. `Close` releases the gate before
`Reply` fills the result, unless `fill_result` raises on settings that are not
finite, which leaves the client of a failed goal with an empty one. `Start` reads the parameter `execute` with whatever
value it has then. `ShutDown` is the interrupt: every wait ends.
The executor has two threads and the model one for each goal, which allows more.

*Properties.* `GateIsExact`: reserved exactly while one admitted goal is
unfinished. `LeftBehindIsTold`: a trajectory that outlives its callback is on
record as a failed attempt, and cancelled if its acceptance is known.
`SuccessIsEarned`: what the client is told agrees with itself and with MoveIt.
`StartsNearPlan`: the two tolerances bound where a trajectory starts.
`RunsSpec` (refinement of `TargetRun`): the goals' runs take the arm one at a time,
a trajectory is executed once, only after its plan was validated, and nothing that
went wrong ends as a success. Proved only: `ExtraTargetsAreTold` (what finding 3
leaves of "at most one active target": of two trajectories alive at MoveIt, one is
on record as failed) and `CallbacksGoForward` (a callback only comes nearer its
end). `GoalsEnd`
(liveness): every admitted goal comes to its result and the gate is free again;
it is checked with the script as one of the clients.

### RosTransport

*State.* What `JointTargetServer` reduces to `rest`: the two subscriptions' last
samples with stamp and receipt, which kinds have come since `fresh()` began,
whether the node monitors, and what monitoring has seen. `now` is one reading for
the ROS and the monotonic clock (neither is stepped).

*Steps.* `Receive` takes a message in, of any stamp, and only where the code spins
the node; waiting for a service or for the action server does not. The stages of
`run` follow in order, each with the check that lets it pass; `Fail` is every
deadline and every check that raises.

*Properties.* `ActsOnRecent`: when the planner is asked and when a trajectory is
sent, the state acted on is recent at that moment and was received after the last answer
(of the ownership check or the plan) had come in. `SuccessIsWatched`: a success was monitored from before
the goal until the result without a stale or malformed joint sample, and its
final state is from after the result. `RunsSpec`: with its telemetry and its
clocks the run is still one of `TargetRun`, the promise the server's goals keep.

### RegressionClient

*State.* The parameter `execute`, which an operator may set at any time, the
script's position, what it was told and whether it was started with
`--allow-execution`.

*Steps.* The script's `main`, one action for each wait; `GivesUp` is every timeout
and failed check, after which the goal it sent goes on. The server's steps are
those of `JointTargetServer`, with `ReadsSettings` binding the parameter where
`settings()` reads it.

*Properties.* `PassedIsTrue`: a regression that passed ran in the mode the script
had been told, to its end. `MotionIsPermitted`: without `--allow-execution` a
trajectory of the script's goal exists only if the parameter was changed after
the script had asked.

## 3. Runs

| Run | Configuration | What it shows |
|---|---|---|
| `streaming_controller` | 4 messages, 3 activations | all controller properties hold |
| `streaming_motion` | 3 messages, 2 activations | finding 1 |
| `timing_ring` | 2 slots, 4 updates | the ring is a queue, nobody races for a slot, its gaps are counted and its samples leave |
| `evidence` | 2 messages, 2 activations, 1 configuration, 2 timer drains | every verdict of the analysis is true |
| `hand` | one Move, one Grasp command, 3 requests, raising | all safety properties of the hand hold, and it implements `GripperClient` |
| `hand_live` | 2 requests, no raising | both liveness properties of the hand hold |
| `hand_exception` | 2 requests | finding 2 |
| `forwarder` | expiry 3 ticks, 3 targets, failures | the gate's properties hold and it keeps confirming |
| `server` | 2 goals, both tolerances 1 | all safety properties of the server hold, and its goals are runs of `TargetRun` |
| `server_active` | 2 goals | finding 3 |
| `regression` | 2 goals, one of them the script's, exact readings | the script's properties hold and every admitted goal ends |
| `transport` | freshness 2 ticks, clock up to 5 | the execution acts on recent states, watches its successes, and is a run of `TargetRun` |

*Bounds.* `MaxTargets`, `MaxActivations`, `MaxCycles`, `MaxRequests` and the
forwarder's `MaxTargets`, like `MaxGoals`, cap counters that have no limit in the code, as do `MaxConfigures`, `MaxDrains` and `MaxTime`. They are
enough for what can go wrong. A stale command needs two activations and a
straggler; three activations and four messages also have a straggler that crosses
two activations. A ring of two slots wraps twice with four samples, fills and
overflows. Three requests have one active, one superseded and one queued, or a
duplicate; two distinct commands suffice because a request is compared only with
the desired one. The expiry of three ticks leaves room for evidence that is
fresh, at its limit and past it. Two goals suffice for the gate, since a third
could only meet one of them; with tolerances of one a reading can be at the
reference, at its limit, and at the limit of both. For the analysis, two targets are what
"superseded" relates, two activations let a target be written in one and
installed in the next, and two timer drains with the last one give batches
before, between and after the records, one of them while the timer's drain pops.
That run has a state constraint, `FewAfterOverlap`: once two publications have
overlapped, two activations and two timer drains are not combined (two of one with
one of the other are), which keeps the run short. It takes nothing from
`SupersededIsTrue`, which speaks of the time until then; the other two need at most
two activations and the drain that meets `on_cleanup`'s. A clock of five ticks with a freshness of
two lets a sample be fresh, at its limit, stale, unstamped and early, and a wait
make a fresh one stale. Deadlock is not checked where the bounds or the
lifecycle (a finalized node) end a behaviour; in the hand and the forwarder it
is, because the timer never stops.

*Fairness.* Controller: the real-time loop runs while the controller is active
and the executor finishes a callback it has begun; no message, switch or error is
owed by anybody. Ring: the timer fires and a drain goes on; the update is under
no obligation. Hand: the 5 ms timer ticks and a tick runs on; for the liveness
runs, a gripper that answers what it is asked. The deadline is not obliged to
pass. Forwarder: the timer fires and eventually a request gets sent, a manager
that is up answers, and the executor takes the answer in. Server: a callback
goes on, because each wait in it has a deadline; MoveIt, the script and the
operator owe nothing. `EvidenceLog` and `RosTransport` are safety only: nobody
owes the collector a record, and every wait of `run` may end in its deadline.

### Findings

1. `docs/joint_target_execution.md:370`: activation "produces no internal
   motion". An activation may install a target that was written before it: the
   real-time side returns the command it holds from the last activation while a
   callback has the buffer's mutex, or a callback accepted before the
   deactivation writes after the hold.
2. `fr3_lab_stack_runtime/franka_hand.py:179`: "Next tick attempts the stop
   service". It does not when it was `transport.stop()` that raised.
3. `docs/joint_target_execution.md:138`: "at most one active target". After a
   late goal response or cancel response the gate is released while MoveIt still
   has the trajectory, and the next goal's trajectory is sent too.

More places where a reader of the code or its documentation could be surprised.
The properties above describe them; none is refuted by a run of its own.

* A straggler that took its sequence number before `on_activate` reset the counter and is installed after it
  starves the new activation's targets until their numbers catch up
  (`StarvationIsVisible`, `TakesEffect`).
* `include/fr3_lab_stack/timing_evidence.hpp:32` says "single non-RT consumer". `on_cleanup`
  drains from the controller manager's thread, and taking the timer away does not wait for a
  callback that runs. Once two drains overlap, a sample can be taken twice and a slot be
  read while it is written; hence `overlapped`, and `drainsMet` in `EvidenceLog`.
* The same overlap reaches the analysis: `evidence_id_` is incremented without a lock, so two
  records can have one ID, and the loss of one of them leaves no gap. A target whose batch is
  lost or published late can then be called "superseded"
  (`docs/streaming_target_timing.md:149`). And an application that both drains took is in two
  batches; `fr3_lab_stack_runtime/timing_evidence.py:62` lists it twice, and line 94 calls its
  target "ambiguous", although it was sent, accepted and applied once.
* A target that crosses an activation has a callback record of the activation it was entered in. The
  verdict "superseded" speaks of that activation only; a later one may have installed the target.
* `docs/streaming_joint_target_forwarder.md:39` says that unavailability of the service revokes
  the evidence. While a request is pending `poll` returns first
  (`streaming_joint_target_forwarder.py:90`), and the evidence expires by age instead.
* The state before the execution is compared with the planning state and not with `reference_q`,
  so the two tolerances add up (`StartsNearPlan`).
* `execute` is read when a goal is executed, so the answer the script or another client had
  earlier binds nobody (`MotionIsPermitted`).

## 4. Proofs

Each theorem holds for every value of the constants that satisfies the module's
named assumption. TLC checks each property below on the small instances as well,
and checked the invariants they rest on before they were proved.

* `StreamingControllerProofs`: `Spec => []IInv`, and from it `TypeOK`,
  `LabelSound`, `TelemetryTruthful`, `StarvationIsVisible`, `OldTargetsShow` and
  the refinement `RegisterSpec`. The properties are not inductive: that the number of an own
  target exceeds the one applied depends on where every command came from.
  `IInv` adds what a callback carries (`ArrivalInv`), that fresh data is younger
  than read data and read data no older than the equilibrium (`YoungerInv`), the
  order of the labels (`LabelInv`), and that an activation's own numbers come
  from a counter nothing resets once commands are accepted (`OwnInv`).
* `TimingRingProofs`, for any capacity and drain limit. Until two drains overlap,
  `SafeInv`: the live part of the ring is the tail of the log (`RingInv`), and
  the log is the updates without the dropped ones, its first part popped
  (`LogInv`). A push that found room and a pop that found a sample keep it
  because the other side only moves its own cursor. `NoSlotRace`, `PopsInOrder`
  and the refinement `QueueSpec` follow. `GapsAreCounted` needs `CountedInv`,
  which adds `LostInv`: the counters are the cardinalities of what is lost, and a
  drain reads them after its last sample, so it cannot read too little. `TypeOK`
  is proved with overlapping drains too, where `SafeInv` says nothing:
  `BoundsInv` accounts for every update and keeps handed-over slots from being
  empty. `CleanupEmpties` needs `LastDrainInv`: the update has stopped, so what is
  left and what the last drain has popped never exceed its limit. `DrainsWindDown`
  holds with overlapping drains too; it needs only the types and that the cleanup
  drain runs exactly while the controller is cleaning (`CleaningInv`).
* `EvidenceLogProofs`. Every step of `EvidenceLog` is a step of the controller or
  a stutter of it (`IsAController`), so `IInv` holds there as it is. With it,
  `EvidenceInv`: what the ring holds, a thread is publishing or the collector has
  was installed (`CarriedInv`), after it had been loaded, checked and written, in
  that order (`InstalledInv`). `LogTypeOK` and `AppliedIsTrue` follow: an
  application whose two labels agree has no room for another activation between
  them. `NeverAmbiguous` needs `OnceInv`: all places a target's command can be
  in hold the same command (`WrittenOnceInv`), and a callback is reported once,
  before the executor takes another message (`ReportedOnceInv`).
  It also needs that an application is listed once: `PushedInv` (an activation
  pushes ever younger sequence numbers, so the ring holds no two alike) and, until
  two drains meet, `TakenOnceInv` (a sample is popped once and is in one record,
  once); `MetInv` ties `drainsMet` to the drains under way.
  `SupersededIsTrue` needs the rest of `WayInv`, which follows every application on its way
  to the collector. A callback's record agrees with its command (`AgreeInv`),
  activations install ever younger sequence numbers (`NewestInv`), and nothing is
  pushed once `on_cleanup` has begun (`CleanInv`). Until two publications
  overlap, what `on_cleanup` has drained stays drained (`EmptiedInv`), one record is
  under way at a time and IDs tell their order
  (`SerialInv`), one configuration reports all of an activation (`InstanceInv`),
  no application overtakes another (`OrderInv`), and every one is in the ring, in
  a record, dropped with the counter telling so, or lost with an ID missing
  between its callback's and any later application's (`FateInv`). The analysis
  looks at exactly these: no losses, no gap (`NoGap`), a later application.
* `FrankaHandProofs`: `HandInv`, and from it `TypeOK`, `OneLiveGoal`,
  `GripIsKnown`, `SettledIsQuiet` and the action property `IssueIsSafe`. Whatever
  is alive has the slot, and the handle and the futures tell how far it has come
  (`SlotInv`); a shutdown gives up every intent (`StopInv`); the desired request
  is the latest distinct one (`OrderInv`); a grip is known or still to be
  reported by the goal in the slot (`GripInv`). `BookIsRight` and the action
  property `OutcomeIsFinal` follow from `HandInv` with `BookInv`, which ties an
  outcome in the book to the gripper's own state. The refinement `ClientSpec`
  needs `GivenInv`: a goal was given only for the desired request or an earlier
  one that is no longer queued, so the next is always the latest. `OwedInv`,
  which follows an exception to the stop block of the next tick, gives
  `StopIsTried`. `ShutdownWindsDown` weighs what is still to be called, answered
  and read, and `NoDebtIsSettled` says that the weight is right: at zero the
  client is settled.
* `TargetForwarderProofs`: `GateInv`, and from it `TypeOK` and `RecentlyActive`;
  `StatusTellsEvidence` is inductive by itself. No evidence and no answer is younger
  than the time the controller was last active (`AgesInv`). `EvidenceIsTrue` is both.
* `JointTargetServerProofs`: `IInv`, and from it `TypeOK`, `GateIsExact`,
  `LeftBehindIsTold`, `SuccessIsEarned` and `StartsNearPlan`. Every step but
  two is on behalf of one goal; `GoalInv` says what the evidence tells of the
  trajectory (`RecordInv`), what is known from where the callback is
  (`StageInv`: a trajectory is only sent after `Send`, a status only there once
  the result is in) and what the client has been told (`ToldInv`). Only the gate
  relates two goals, and with it the refinement `RunsSpec` follows: a step moves
  the stage of one goal only (`OneStageMoves`), each move is one that `TargetRun`
  promises (`MoveIsPromised`), and the goal that moves is alone under way because
  it holds the gate (`StageTypes`). `ExtraTargetsAreTold` and `CallbacksGoForward`
  rest on the same invariant.
* `RosTransportProofs`: `TransportInv`, and from it `TypeOK`, `SuccessIsWatched`,
  the action property `ActsOnRecent` and the refinement `RunsSpec`, for any
  freshness bound. The run listens exactly while it executes, and the kinds of
  telemetry it has are those that came since it began to wait (`ListenInv`).
* `RegressionClientProofs`. The composition is a joint-target server
  (`IsAServer`), so the server's `IInv` holds there. `ClientInv` adds what the
  script's goal has to do with the parameter (`ScriptInv`) and what the script
  knows (`AskedInv`); `PassedIsTrue` and `MotionIsPermitted` follow.

Only model-checked: the liveness properties `TakesEffect`, `SamplesLeave`,
`ShutdownSettles`, `QueuedIsServed`, `KeepsConfirming` and `GoalsEnd` (fairness and
ENABLED are beyond the prover). Where there is a measure, the safe half of the
argument is proved: a drain (`DrainsWindDown`, with `CleanupEmpties` for what it
leaves), a shutdown (`ShutdownWindsDown`, `NoDebtIsSettled`) and a callback of the
server (`CallbacksGoForward`) can only come nearer their ends. That the next step
is taken at all is what fairness adds and TLC checks. `TakesEffect`,
`QueuedIsServed` and `KeepsConfirming` have no such half: their ends are reached by
way of steps that may have to be repeated.

## 5. What is not modelled, and the plan

Not modelled, or only in part:

* The control law and the Cartesian impedance terms: floating point and no state
  of their own. The core's active flag and `desired_q_` are in
  `StreamingController`.
* Parameter validation (a choice of success or failure), the float telemetry
  except its entry for the sequence, log text.
* Of `analyze`: the forwarder's records (they can only turn a verdict into
  "rejected", "publication_error" or "ambiguous"), intervals and period statistics. Of the collector: its
  sending loop, and that it stops when the measured state is old.
* Of `joint_target.py`: the arithmetic of plan, limit and health checks (each is
  a choice of pass or raise), the telemetry peaks, and the one-shot command line.
* In `EvidenceLog`, what a slot of the ring holds when it is written again while
  two drains overlap: that is in `TimingRing`. What the overlap does to the cursor,
  the IDs and the verdicts is in `EvidenceLog`.
* That `worker.close()` may raise in the finally block of `execute_callback`
  (`joint_target_server.py:262`), which would leave the gate reserved.
* Launch files, configuration, RViz, the camera rate meter and the entry points,
  which only compose or start what is modelled.

The plan, in order of importance; the first three points are done.

1. `StreamingController`, `TargetRegister`, `TimingRing`, `FrankaHand`,
   `TargetForwarder`, `JointTargetServer`, their runs and first theorems.
2. `EvidenceLog`, `EvidenceQueue`, `RosTransport`, `RegressionClient`, the
   refinement of the queue, and theorems for every safety property.
3. `GripperClient` and `TargetRun`, the refinements to them, what the three
   findings leave of the claims they refute, and the measures under the liveness
   properties.
4. `TargetPipeline`: forwarder and controller with the topic of depth one in
   between, and the forwarder's records in the verdict.
