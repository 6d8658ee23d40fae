----------------------------- MODULE TimingRing -----------------------------
(***************************************************************************)
(* The evidence path of the streaming controller: the ring between the     *)
(* real-time update and the non-RT drain, broken at its atomic accesses,   *)
(* and the records published from it.                                      *)
(*                                                                         *)
(*   RT thread     push: one sample per update, on every exit of it        *)
(*   "timer"       drain_evidence, every 20 ms on the executor thread      *)
(*   "cleanup"     the last drain_evidence, run by on_cleanup              *)
(*                                                                         *)
(* The controller manager calls on_cleanup from a thread that is not the   *)
(* executor's, so it can overlap a timer callback in flight.  The ring's   *)
(* contract is a single consumer, and its promises hold until then.        *)
(***************************************************************************)
EXTENDS Naturals, Sequences, FiniteSets

CONSTANTS
  Capacity,    \* the ring's Capacity (8192)
  DrainLimit,  \* pops allowed in one drain (8192)
  MaxCycles    \* bound: updates

ASSUME RingAssumption ==
  /\ Capacity \in Nat \ {0}
  /\ DrainLimit \in Nat
  /\ MaxCycles \in Nat

VARIABLES
  life,          \* "unconfigured", "inactive", "active" or "cleaning"
  cycle,         \* cycle_: updates so far; a sample is known by its cycle
  applications,  \* history: the cycles whose sample records an application
  write,         \* write_
  read,          \* read_
  data,          \* data_: the cycle of the sample in each slot
  dropped,       \* dropped_
  droppedApps,   \* dropped_applications_
  producer,      \* the position of the RT thread inside push
  drain,         \* the drain each non-RT thread is in
  log,           \* history: the samples stored, oldest first
  popped,        \* history: the samples that have been popped
  overlapped     \* history: two drains have been under way at once

history == <<popped, overlapped>>

vars == <<life, cycle, applications, write, read, data, dropped, droppedApps,
          producer, drain, log, history>>

Consumers == {"timer", "cleanup"}
Cycles == 1..MaxCycles
Slots == 0..(Capacity - 1)

\* A sample is applied when its update installed a target.
Applied(s) == s \in applications

NoDrain == [pc |-> "idle", from |-> 0, sample |-> 0, pops |-> 0, dropped |-> 0]

ProducerPcs == {"idle", "copy", "store", "drop", "drop_application"}
DrainPcs == {"idle", "pop", "copy", "release", "dropped", "applications"}

TypeOK ==
  /\ life \in {"unconfigured", "inactive", "active", "cleaning"}
  /\ cycle \in 0..MaxCycles
  /\ applications \subseteq Cycles
  /\ write \in 0..MaxCycles
  /\ read \in 0..MaxCycles
  /\ data \in [Slots -> 0..MaxCycles]
  /\ dropped \in 0..MaxCycles
  /\ droppedApps \in 0..MaxCycles
  /\ producer \in ProducerPcs
  /\ drain \in [Consumers ->
       [pc : DrainPcs, from : 0..MaxCycles, sample : 0..MaxCycles,
        pops : 0..DrainLimit, dropped : 0..MaxCycles]]
  /\ log \in Seq(Cycles)
  /\ popped \subseteq Cycles
  /\ overlapped \in BOOLEAN

Init ==
  /\ life = "unconfigured"
  /\ cycle = 0
  /\ applications = {}
  /\ write = 0
  /\ read = 0
  /\ data = [i \in Slots |-> 0]
  /\ dropped = 0
  /\ droppedApps = 0
  /\ producer = "idle"
  /\ drain = [c \in Consumers |-> NoDrain]
  /\ log = <<>>
  /\ popped = {}
  /\ overlapped = FALSE

ringVars == <<write, read, data, dropped, droppedApps>>

-----------------------------------------------------------------------------
(* Ring::push, called by update through Capture's destructor. *)

\* Mutant: one slot too many is taken for free.
PushLoadOneOver(applied) ==
  /\ life = "active"
  /\ producer = "idle"
  /\ cycle < MaxCycles
  /\ cycle' = cycle + 1
  /\ applications' = IF applied THEN applications \cup {cycle'} ELSE applications
  /\ producer' = IF write - read = Capacity + 1 THEN "drop" ELSE "copy"
  /\ UNCHANGED <<life, ringVars, drain, log, history>>

\* An update begins its push: it loads both cursors.
PushLoad(applied) ==
  /\ life = "active"
  /\ producer = "idle"
  /\ cycle < MaxCycles
  /\ cycle' = cycle + 1
  /\ applications' = IF applied THEN applications \cup {cycle'} ELSE applications
  /\ producer' = IF write - read = Capacity THEN "drop" ELSE "copy"
  /\ UNCHANGED <<life, ringVars, drain, log, history>>

\* Copy the sample into its slot.
PushCopy ==
  /\ producer = "copy"
  /\ data' = [data EXCEPT ![write % Capacity] = cycle]
  /\ producer' = "store"
  /\ UNCHANGED <<life, cycle, applications, write, read, dropped, droppedApps,
                 drain, log, history>>

\* Hand the slot over: write_.store(release).
PushStore ==
  /\ producer = "store"
  /\ write' = write + 1
  /\ log' = Append(log, cycle)
  /\ producer' = "idle"
  /\ UNCHANGED <<life, cycle, applications, read, data, dropped, droppedApps,
                 drain, history>>

\* Mutant: a sample with an application counts as an application only.
PushDropEither ==
  /\ producer = "drop"
  /\ dropped' = IF Applied(cycle) THEN dropped ELSE dropped + 1
  /\ producer' = IF Applied(cycle) THEN "drop_application" ELSE "idle"
  /\ UNCHANGED <<life, cycle, applications, write, read, data, droppedApps,
                 drain, log, history>>

\* The ring was full: count the sample ...
PushDrop ==
  /\ producer = "drop"
  /\ dropped' = dropped + 1
  /\ producer' = IF Applied(cycle) THEN "drop_application" ELSE "idle"
  /\ UNCHANGED <<life, cycle, applications, write, read, data, droppedApps,
                 drain, log, history>>

\* ... and the application it recorded.
PushDropApplication ==
  /\ producer = "drop_application"
  /\ droppedApps' = droppedApps + 1
  /\ producer' = "idle"
  /\ UNCHANGED <<life, cycle, applications, write, read, data, dropped, drain,
                 log, history>>

-----------------------------------------------------------------------------
(* drain_evidence and Ring::pop. *)

MoveTo(c, pc) == drain' = [drain EXCEPT ![c].pc = pc]

\* The 20 ms timer exists from on_configure to timing_timer_.reset().
TimerFires ==
  /\ life \in {"inactive", "active"}
  /\ drain["timer"].pc = "idle"
  /\ drain' = [drain EXCEPT !["timer"] = [NoDrain EXCEPT !.pc = "pop"]]
  /\ UNCHANGED <<life, cycle, applications, ringVars, producer, log, history>>

\* Mutant: an empty ring is not noticed.
PopLoadEmpty(c) ==
  /\ drain[c].pc = "pop"
  /\ IF drain[c].pops < DrainLimit
     THEN drain' = [drain EXCEPT ![c].pc = "copy", ![c].from = read]
     ELSE MoveTo(c, "dropped")
  /\ UNCHANGED <<life, cycle, applications, ringVars, producer, log, history>>

\* Load both cursors; stop on an empty ring or after DrainLimit pops.
PopLoad(c) ==
  /\ drain[c].pc = "pop"
  /\ IF drain[c].pops < DrainLimit /\ read # write
     THEN drain' = [drain EXCEPT ![c].pc = "copy", ![c].from = read]
     ELSE MoveTo(c, "dropped")
  /\ UNCHANGED <<life, cycle, applications, ringVars, producer, log,
                 history>>

\* Mutant: the slot is given back before it is copied.
PopCopyLate(c) ==
  /\ drain[c].pc = "copy"
  /\ read' = drain[c].from + 1
  /\ drain' = [drain EXCEPT ![c].pc = "release",
                            ![c].sample = data[read' % Capacity]]
  /\ UNCHANGED <<life, cycle, applications, write, data, dropped, droppedApps,
                 producer, log, history>>

\* Copy the sample out of its slot.
PopCopy(c) ==
  /\ drain[c].pc = "copy"
  /\ drain' = [drain EXCEPT ![c].pc = "release",
                            ![c].sample = data[drain[c].from % Capacity]]
  /\ UNCHANGED <<life, cycle, applications, ringVars, producer, log,
                 history>>

\* Give the slot back: read_.store(release).
PopStore(c) ==
  /\ drain[c].pc = "release"
  /\ read' = drain[c].from + 1
  /\ popped' = popped \cup {drain[c].sample}
  /\ drain' = [drain EXCEPT ![c].pc = "pop", ![c].pops = @ + 1]
  /\ UNCHANGED <<life, cycle, applications, write, data, dropped, droppedApps,
                 producer, log, overlapped>>

\* The counters are read once the samples are out: dropped() first, and
\* dropped_applications() when the record is built and published.
ReadDropped(c) ==
  /\ drain[c].pc = "dropped"
  /\ drain' = [drain EXCEPT ![c].pc = "applications", ![c].dropped = dropped]
  /\ UNCHANGED <<life, cycle, applications, ringVars, producer, log,
                 history>>

PublishSamples(c) ==
  /\ drain[c].pc = "applications"
  /\ MoveTo(c, "idle")
  /\ life' = IF c = "cleanup" THEN "unconfigured" ELSE life
  /\ UNCHANGED <<cycle, applications, ringVars, producer, log, history>>

-----------------------------------------------------------------------------
(* The lifecycle, as far as it starts and stops the two sides. *)

OnConfigure ==
  /\ life = "unconfigured"
  /\ life' = "inactive"
  /\ UNCHANGED <<cycle, applications, ringVars, producer, drain, log,
                 history>>

OnActivate ==
  /\ life = "inactive"
  /\ life' = "active"
  /\ UNCHANGED <<cycle, applications, ringVars, producer, drain, log,
                 history>>

\* The RT thread deactivates between two updates.
OnDeactivate ==
  /\ life = "active"
  /\ producer = "idle"
  /\ life' = "inactive"
  /\ UNCHANGED <<cycle, applications, ringVars, producer, drain, log,
                 history>>

\* Mutant: on_cleanup does not drain.
OnCleanupNoDrain ==
  /\ life = "inactive"
  /\ life' = "unconfigured"
  /\ UNCHANGED <<cycle, applications, ringVars, producer, drain, log, history>>

\* timing_timer_.reset() keeps the timer from firing again, but does not wait
\* for a callback that runs, and on_cleanup drains what is left.
OnCleanup ==
  /\ life = "inactive"
  /\ life' = "cleaning"
  /\ drain' = [drain EXCEPT !["cleanup"] = [NoDrain EXCEPT !.pc = "pop"]]
  /\ overlapped' = (overlapped \/ drain["timer"].pc # "idle")
  /\ UNCHANGED <<cycle, applications, ringVars, producer, log, popped>>

-----------------------------------------------------------------------------
Push ==
  \/ \E applied \in BOOLEAN : PushLoad(applied)
  \/ PushCopy \/ PushStore \/ PushDrop \/ PushDropApplication

DrainStep(c) ==
  PopLoad(c) \/ PopCopy(c) \/ PopStore(c) \/ ReadDropped(c) \/ PublishSamples(c)

Next ==
  \/ Push
  \/ TimerFires
  \/ \E c \in Consumers : DrainStep(c)
  \/ OnConfigure \/ OnActivate \/ OnDeactivate \/ OnCleanup

\* The timer is periodic and a drain that has started goes on.
Fairness ==
  /\ WF_vars(TimerFires)
  /\ \A c \in Consumers : WF_vars(DrainStep(c))

Spec == Init /\ [][Next]_vars

FairSpec == Spec /\ Fairness

-----------------------------------------------------------------------------
(* Properties, of the ring until two drains have overlapped. *)

Popping(c) == drain[c].pc \in {"copy", "release"}

(***************************************************************************)
(* The two sides never touch one slot at once: while a sample is being     *)
(* copied in, no drain is copying that slot out.  Nothing but the order of *)
(* the cursor accesses keeps the plain data_ from a data race.             *)
(***************************************************************************)
NoSlotRace ==
  \A c \in Consumers :
    producer = "copy" /\ drain[c].pc = "copy" /\ ~overlapped =>
      write % Capacity # drain[c].from % Capacity

(***************************************************************************)
(* What a drain takes out is the oldest sample not taken yet, through any  *)
(* number of wraps, full rings and restarts: the ring is the log, in order.*)
(***************************************************************************)
PopsInOrder ==
  \A c \in Consumers :
    drain[c].pc = "release" /\ ~overlapped =>
      /\ drain[c].from < Len(log)
      /\ drain[c].sample = log[drain[c].from + 1]

(***************************************************************************)
(* A published record explains its own gaps: every update up to the last   *)
(* sample taken is either a sample taken or one counted in the two         *)
(* cumulative counters of the record, applications included, although the  *)
(* counters are relaxed atomics read after the samples and one by one.     *)
(***************************************************************************)
GapsAreCounted ==
  \A c \in Consumers :
    drain[c].pc = "applications" /\ ~overlapped =>
      LET missing == (1..drain[c].sample) \ popped
      IN /\ Cardinality(missing) <= drain[c].dropped
         /\ Cardinality(missing \cap applications) <= droppedApps

(***************************************************************************)
(* No sample is stranded: whatever is stored leaves the ring, by the timer *)
(* or, when on_cleanup has taken the timer away, by its last drain (whose  *)
(* limit covers a full ring).                                              *)
(***************************************************************************)
Stored(s) == \E i \in 1..Len(log) : log[i] = s

SamplesLeave == \A s \in Cycles : Stored(s) ~> s \in popped \/ overlapped

(***************************************************************************)
(* The safety that SamplesLeave rests on at the end of a life: if a drain  *)
(* may take a full ring (both limits are 8192), the controller is not      *)
(* unconfigured with a sample left behind that a next life would publish.  *)
(***************************************************************************)
CleanupEmpties ==
  life = "unconfigured" /\ ~overlapped /\ DrainLimit >= Capacity =>
    \A s \in Cycles : Stored(s) => s \in popped

(***************************************************************************)
(* Arrivals cannot extend a drain for ever: whatever the update, the other *)
(* drain and the lifecycle do meanwhile, a drain under way is left alone   *)
(* or comes nearer its end, overlapping drains included.                   *)
(***************************************************************************)
Work(c) ==
  CASE drain[c].pc = "idle" -> 0
    [] drain[c].pc = "applications" -> 1
    [] drain[c].pc = "dropped" -> 2
    [] drain[c].pc = "release" -> 3 * (DrainLimit - drain[c].pops) + 3
    [] drain[c].pc = "copy" -> 3 * (DrainLimit - drain[c].pops) + 4
    [] drain[c].pc = "pop" -> 3 * (DrainLimit - drain[c].pops) + 5

DrainsWindDown ==
  [][\A c \in Consumers :
       drain[c].pc # "idle" => drain'[c] = drain[c] \/ Work(c)' < Work(c)]_vars

(***************************************************************************)
(* The ring implements the queue it stands for, through any number of      *)
(* wraps, full rings, drains and restarts, until two drains overlap: no    *)
(* sample is lost without being counted, and none is given out twice,      *)
(* early or out of order.                                                  *)
(***************************************************************************)
Queue == INSTANCE EvidenceQueue WITH
  offered <- Len(log) + dropped,
  queue <- SubSeq(log, read + 1, Len(log)),
  taken <- popped

QueueSpec == Queue!Init /\ [][Queue!Next \/ overlapped']_(Queue!vars)

-----------------------------------------------------------------------------
(* The inductive invariant behind the ring properties. *)

\* One drain at a time, and none but on_cleanup's while cleaning.
OneDrain ==
  /\ life = "cleaning" <=> drain["cleanup"].pc # "idle"
  /\ life \in {"cleaning", "unconfigured"} => drain["timer"].pc = "idle"

\* The cursors bound the live part of the ring, which is the tail of the log.
CursorInv ==
  /\ Len(log) = write
  /\ read <= write
  /\ write <= read + Capacity
  /\ \A i \in read..(write - 1) : data[i % Capacity] = log[i + 1]

\* A push that has found room still has it: only the reader moves meanwhile.
ProducerInv ==
  /\ producer \in {"copy", "store"} => write - read < Capacity /\ cycle > 0
  /\ producer = "store" => data[write % Capacity] = cycle

\* A pop that has found a sample still has it.
DrainInv ==
  \A c \in Consumers :
    /\ Popping(c) => drain[c].from = read /\ read < write
    /\ drain[c].pc = "release" => drain[c].sample = log[read + 1]

\* What the proof needs of the variables' types.
RingTypes ==
  /\ cycle \in 0..MaxCycles
  /\ write \in Nat
  /\ read \in Nat
  /\ log \in Seq(Cycles)
  /\ data \in [Slots -> 0..MaxCycles]
  /\ producer \in ProducerPcs
  /\ drain \in [Consumers ->
       [pc : DrainPcs, from : Nat, sample : 0..MaxCycles, pops : Nat,
        dropped : Nat]]
  /\ dropped \in Nat

RingInv == RingTypes /\ OneDrain /\ CursorInv /\ ProducerInv /\ DrainInv

\* The update has a sample that is neither stored nor counted yet.
Unplaced == producer \in {"copy", "store", "drop"}

\* The log is the updates in order without the dropped ones, and its first
\* part has been popped.
LogInv ==
  /\ cycle = Len(log) + dropped + (IF Unplaced THEN 1 ELSE 0)
  /\ \A i \in 1..Len(log) : log[i] <= cycle /\ (Unplaced => log[i] < cycle)
  /\ \A i, j \in 1..Len(log) : i < j => log[i] < log[j]
  /\ popped = {log[i] : i \in 1..read}

SafeInv == overlapped \/ (RingInv /\ LogInv)

\* The updates whose samples have been dropped.
Lost ==
  {s \in 1..cycle : (\A i \in 1..Len(log) : log[i] # s) /\ (Unplaced => s # cycle)}

\* The dropped updates that count as applications.
LostApplications ==
  {s \in Lost : Applied(s) /\ (producer = "drop_application" => s # cycle)}

\* The updates up to the last sample of a drain that have not been popped.
Missing(c) == (1..drain[c].sample) \ popped

\* The counters count what is lost, and a drain has read them late enough.
LostInv ==
  /\ Cardinality(Lost) = dropped
  /\ Cardinality(LostApplications) = droppedApps
  /\ producer = "drop_application" => cycle \in Lost /\ Applied(cycle)
  /\ \A c \in Consumers :
       /\ drain[c].pc \notin {"idle", "release"} /\ drain[c].sample # 0 =>
            read > 0 /\ drain[c].sample = log[read]
       /\ drain[c].pc = "applications" => Cardinality(Missing(c)) <= drain[c].dropped

CountedInv == overlapped \/ (RingInv /\ LogInv /\ LostInv)

\* A push ends in the life it began in, and on_cleanup's drain may still pop
\* all that is left.
LastDrainInv ==
  /\ life # "active" => producer = "idle"
  /\ DrainLimit >= Capacity =>
       /\ drain["cleanup"].pc = "pop" \/ Popping("cleanup") =>
            write - read + drain["cleanup"].pops <= DrainLimit
       /\ drain["cleanup"].pc \in {"dropped", "applications"} => read = write
       /\ life = "unconfigured" => read = write

EmptyInv == overlapped \/ (RingInv /\ LogInv /\ LastDrainInv)

\* What keeps the cursors, the counters and the samples in their types, with
\* overlapping drains too: every update is stored, counted or on its way, and
\* a slot that has been handed over is never empty again.
BoundsInv ==
  /\ Len(log) = write
  /\ cycle = write + dropped + (IF Unplaced THEN 1 ELSE 0)
  /\ droppedApps + (IF producer = "drop_application" THEN 1 ELSE 0) <= dropped
  /\ read <= write
  /\ \A i \in 0..(write - 1) : data[i % Capacity] # 0
  /\ producer = "store" => data[write % Capacity] # 0
  /\ \A c \in Consumers :
       /\ Popping(c) => drain[c].from < write /\ drain[c].pops < DrainLimit
       /\ drain[c].pc = "release" => drain[c].sample # 0

TypeInv == TypeOK /\ BoundsInv
=============================================================================
