---------------------------- MODULE EvidenceLog ----------------------------
(***************************************************************************)
(* The streaming controller with the evidence it publishes about its       *)
(* targets, a collector that loses some of it, and the verdict the offline *)
(* analysis passes on each target.                                         *)
(*                                                                         *)
(* Two threads drain and publish: the executor (the record of a callback,  *)
(* the batch of a timer drain) and the controller manager's (the last      *)
(* batch, in on_cleanup).  Neither drain_evidence nor publish_evidence has *)
(* a lock: read_ and evidence_id_ are loaded in one step and stored in     *)
(* another, so that two drains at once may take one sample twice.          *)
(*                                                                         *)
(* The ring holds applications only: a push may find it full of the other  *)
(* updates' samples, and a drain may reach its limit on them.  It is kept  *)
(* as all that was ever pushed, with the cursor read.  What a slot holds   *)
(* while it is written again, after a drain moved the cursor back, is left *)
(* to TimingRing.  Targets carry unique stamps, so their numbers stand for *)
(* the stamps, and callback times, that the analysis joins on.             *)
(***************************************************************************)
EXTENDS StreamingController, Sequences, FiniteSets, Functions

CONSTANTS
  MaxConfigures,   \* bound: successful configurations
  MaxDrains        \* bound: drains by the timer

ASSUME LogAssumption == MaxConfigures \in Nat /\ MaxDrains \in Nat

VARIABLES
  ring,          \* evidence_: the applications pushed, oldest first
  read,          \* read_ of evidence_: how many have been popped
  from,          \* the read_ that the pop of each thread has loaded
  droppedApps,   \* evidence_.dropped_applications()
  instance,      \* the instance in provenance_: the configuration's number
  evidenceId,    \* evidence_id_
  publishing,    \* where each thread is in drain_ and publish_evidence; its record
  drains,        \* drains by the timer so far
  records,       \* the records the collector has received, in their order
  installed,     \* history: the applications that were made
  overlapped,    \* history: both threads have been in there at once ...
  drainsMet      \* history: ... and both in drain_evidence

history == <<installed, overlapped, drainsMet>>

logVars == <<ring, read, from, droppedApps, instance, evidenceId, publishing,
             drains, records, history>>

allVars == <<vars, logVars>>

Threads == {"executor", "manager"}

Application == [cmd : Command, act : Activations]

CallbackRecord == [event : {"callback"}, instance : Nat, id : Nat, msg : Targets,
                   act : Activations, seq : Targets, accepted : BOOLEAN]

SamplesRecord == [event : {"samples"}, instance : Nat, id : Nat,
                  apps : Seq(Application), dropped : Nat]

Record == CallbackRecord \cup SamplesRecord

Nothing == [event |-> "none"]

Quiet == [pc |-> "idle", rec |-> Nothing]

Publication ==
  [pc : {"idle", "reset"}, rec : {Nothing}]
    \cup [pc : {"pop", "copy", "begin", "publish"}, rec : Record]

LogTypeOK ==
  /\ TypeOK
  /\ ring \in Seq(Application)
  /\ read \in Nat
  /\ from \in [Threads -> Nat]
  /\ droppedApps \in Nat
  /\ instance \in 0..MaxConfigures
  /\ evidenceId \in Nat
  /\ publishing \in [Threads -> Publication]
  /\ drains \in 0..MaxDrains
  /\ records \in Seq(Record)
  /\ installed \subseteq Application
  /\ overlapped \in BOOLEAN
  /\ drainsMet \in BOOLEAN

LogInit ==
  /\ Init
  /\ ring = <<>>
  /\ read = 0
  /\ from = [t \in Threads |-> 0]
  /\ droppedApps = 0
  /\ instance = 0
  /\ evidenceId = 0
  /\ publishing = [t \in Threads |-> Quiet]
  /\ drains = 0
  /\ records = <<>>
  /\ installed = {}
  /\ overlapped = FALSE
  /\ drainsMet = FALSE

-----------------------------------------------------------------------------
(* publish_evidence, in either thread. *)

\* The publisher exists between on_configure and the end of on_cleanup.
Publisher == Subscribed

Draining(t) == publishing[t].pc \in {"pop", "copy"}

InFlight(t) == Draining(t) \/ publishing[t].pc \in {"begin", "publish"}

Proceed(t, step, rec) == publishing' = [publishing EXCEPT ![t] = [pc |-> step, rec |-> rec]]

Begin(t, step, rec) ==
  /\ Proceed(t, step, rec)
  /\ overlapped' = (overlapped \/ \E u \in Threads : InFlight(u))

\* The manager has on_cleanup to finish.
Return(t) == Proceed(t, IF t = "manager" THEN "reset" ELSE "idle", Nothing)

\* Without a publisher the record goes nowhere, and takes no ID.
PublishNowhere(t) ==
  /\ publishing[t].pc = "begin"
  /\ ~Publisher
  /\ Return(t)
  /\ UNCHANGED <<vars, ring, read, from, droppedApps, instance, evidenceId, drains, records,
                 history>>

\* provenance_ is read, and evidence_id_ is loaded ...
LoadId(t) ==
  /\ publishing[t].pc = "begin"
  /\ Publisher
  /\ Proceed(t, "publish",
       [publishing[t].rec EXCEPT !.id = evidenceId + 1, !.instance = instance])
  /\ UNCHANGED <<vars, ring, read, from, droppedApps, instance, evidenceId, drains, records,
                 history>>

\* The collector saves a record it is given.
Save(rec) == records' = Append(records, rec)

\* ... stored, and the record published: it reaches the collector or not
\* (publish raises, the topic loses it, or the publisher is gone, which the
\* code does not look at again).
Publish(t) ==
  /\ publishing[t].pc = "publish"
  /\ evidenceId' = publishing[t].rec.id
  /\ \/ Publisher /\ Save(publishing[t].rec)
     \/ UNCHANGED records
  /\ Return(t)
  /\ UNCHANGED <<vars, ring, read, from, droppedApps, instance, drains, history>>

-----------------------------------------------------------------------------
(* drain_evidence, in either thread. *)

\* What has been pushed and not popped.
Ringed == {ring[i] : i \in (read + 1)..Len(ring)}

Drain(t) ==
  /\ Begin(t, "pop", [event |-> "samples", instance |-> 0, id |-> 0,
                      apps |-> <<>>, dropped |-> 0])
  /\ drainsMet' = (drainsMet \/ \E u \in Threads : Draining(u))
  /\ UNCHANGED <<vars, ring, read, from, droppedApps, instance, evidenceId, records, installed>>

\* pop finds a sample at the cursor it loads ...
LoadRead(t) ==
  /\ publishing[t].pc = "pop"
  /\ read < Len(ring)
  /\ from' = [from EXCEPT ![t] = read]
  /\ Proceed(t, "copy", publishing[t].rec)
  /\ UNCHANGED <<vars, ring, read, droppedApps, instance, evidenceId, drains, records, history>>

\* Mutant: pop leaves the cursor where it is.
StoreReadStuck(t) ==
  /\ publishing[t].pc = "copy"
  /\ Proceed(t, "pop", [publishing[t].rec EXCEPT !.apps = Append(@, ring[from[t] + 1])])
  /\ read' = from[t]
  /\ from' = [from EXCEPT ![t] = 0]
  /\ UNCHANGED <<vars, ring, droppedApps, instance, evidenceId, drains, records, history>>

\* ... copies it, and stores the cursor's successor.
StoreRead(t) ==
  /\ publishing[t].pc = "copy"
  /\ Proceed(t, "pop", [publishing[t].rec EXCEPT !.apps = Append(@, ring[from[t] + 1])])
  /\ read' = from[t] + 1
  /\ from' = [from EXCEPT ![t] = 0]
  /\ UNCHANGED <<vars, ring, droppedApps, instance, evidenceId, drains, records, history>>

\* pop finds nothing, or the limit is reached: on samples that arrive meanwhile,
\* or that another drain makes it pop again.  The counter is read.
EndDrain(t) ==
  /\ publishing[t].pc = "pop"
  /\ read = Len(ring) \/ t = "executor" \/ drainsMet
  /\ Proceed(t, "begin", [publishing[t].rec EXCEPT !.dropped = droppedApps])
  /\ UNCHANGED <<vars, ring, read, from, droppedApps, instance, evidenceId, drains, records,
                 history>>

-----------------------------------------------------------------------------
(* The executor: one callback or timer drain at a time, publication and all. *)

ExecutorFree == cb.pc = "idle" /\ publishing["executor"].pc = "idle"

TakeMessage ==
  /\ ExecutorFree
  /\ CallbackEnter
  /\ UNCHANGED logVars

CallbackGoesOn ==
  /\ CallbackCheck \/ CallbackSequence
  /\ UNCHANGED logVars

\* emit(outcome, sequence), the last thing a callback does.
Emit ==
  /\ CallbackWrite \/ CallbackReject
  /\ Begin("executor", "begin",
       [event |-> "callback", instance |-> 0, id |-> 0, msg |-> cb.cmd.msg,
        act |-> cb.cmd.act, seq |-> cb.cmd.seq, accepted |-> cb.pc = "write"])
  /\ UNCHANGED <<ring, read, from, droppedApps, instance, evidenceId, drains, records,
                 installed, drainsMet>>

Cleaning == publishing["manager"].pc # "idle"

TimerDrain ==
  /\ ExecutorFree
  /\ Publisher
  /\ ~Cleaning
  /\ drains < MaxDrains
  /\ drains' = drains + 1
  /\ Drain("executor")

-----------------------------------------------------------------------------
(* The real-time thread. *)

\* Capture's destructor pushes the sample of an update that installed the
\* target it read, or finds the ring full.
Capture ==
  IF rtBuf'.seq > lastApplied
  THEN LET app == [cmd |-> rtBuf', act |-> activation]
       IN /\ installed' = installed \cup {app}
          /\ \/ ring' = Append(ring, app) /\ UNCHANGED droppedApps
             \/ droppedApps' = droppedApps + 1 /\ UNCHANGED ring
  ELSE UNCHANGED <<ring, droppedApps, installed>>

CapturedUpdate ==
  /\ Update \/ UpdateError
  /\ Capture
  /\ UNCHANGED <<read, from, instance, evidenceId, publishing, drains, records, overlapped,
                 drainsMet>>

EarlyUpdate == UpdateNoState /\ UNCHANGED logVars

-----------------------------------------------------------------------------
(* The controller manager. *)

Configure ==
  /\ ~Cleaning
  /\ instance < MaxConfigures
  /\ OnConfigure
  /\ instance' = IF life' = "inactive" THEN instance + 1 ELSE instance
  /\ UNCHANGED <<ring, read, from, droppedApps, evidenceId, publishing, drains, records,
                 history>>

Switch ==
  /\ ~Cleaning
  /\ \/ ActivateRefused \/ ActivateStore \/ ActivateHold \/ ActivateReset
     \/ ActivateCommand \/ OnDeactivate
  /\ UNCHANGED logVars

\* on_cleanup takes the timer away, whose callback may still be publishing, and
\* drains ...
CleanupDrain ==
  /\ life = "inactive"
  /\ ~Cleaning
  /\ Drain("manager")
  /\ UNCHANGED drains

\* ... and resets the publisher and the subscription.
CleanupReset ==
  /\ publishing["manager"].pc = "reset"
  /\ OnCleanup
  /\ publishing' = [publishing EXCEPT !["manager"] = Quiet]
  /\ UNCHANGED <<ring, read, from, droppedApps, instance, evidenceId, drains, records, history>>

-----------------------------------------------------------------------------
LogNext ==
  \/ \E t \in Threads : LoadRead(t) \/ StoreRead(t) \/ EndDrain(t)
  \/ \E t \in Threads : PublishNowhere(t) \/ LoadId(t) \/ Publish(t)
  \/ TakeMessage \/ CallbackGoesOn \/ Emit \/ TimerDrain
  \/ CapturedUpdate \/ EarlyUpdate
  \/ Configure \/ Switch \/ CleanupDrain \/ CleanupReset

LogSpec == LogInit /\ [][LogNext]_allVars

-----------------------------------------------------------------------------
(* analyze, over whatever has been received. *)

Received == Range(records)

Callbacks == {r \in Received : r.event = "callback"}

Batches == {r \in Received : r.event = "samples"}

\* The list of the applications received, each with its place (its record and
\* the position in it) and the instance that reported it.
Applications ==
  UNION {{[at |-> <<i, j>>, app |-> records[i].apps[j], instance |-> records[i].instance] :
            j \in DOMAIN records[i].apps} :
         i \in {k \in DOMAIN records : records[k].event = "samples"}}

\* Where the list of the callbacks received has those of a target.
PlacesOf(m) ==
  {i \in DOMAIN records : records[i].event = "callback" /\ records[i].msg = m}

CallbacksOf(m) == {records[i] : i \in PlacesOf(m)}

\* Mutant: the stamp is enough.
JoinsByStamp(c, a) == c.msg = a.app.cmd.msg

\* An application belongs to a callback record.
Joins(c, a) ==
  /\ c.msg = a.app.cmd.msg
  /\ c.instance = a.instance
  /\ c.act = a.app.act
  /\ c.seq = a.app.cmd.seq
  /\ a.app.cmd.act = a.app.act

ApplicationsOf(m) == {a \in Applications : \E i \in PlacesOf(m) : Joins(records[i], a)}

\* Mutant: gaps in the IDs are ignored.
CompleteOrLossy(i) == \A b \in Batches : b.instance = i => b.dropped = 0

\* No ID is missing between two that were received, and no application was
\* dropped by the ring.
Complete(i) ==
  LET ids == {r.id : r \in {q \in Received : q.instance = i}}
  IN /\ \A j, k \in ids : j < k => j + 1 \in ids
     /\ \A b \in Batches : b.instance = i => b.dropped = 0

\* A later target was applied, and a batch was received from before the record.
Overtaken(c) ==
  /\ \E a \in Applications :
       a.instance = c.instance /\ a.app.act = c.act /\ a.app.cmd.seq > c.seq
  /\ \E b \in Batches : b.instance = c.instance /\ b.id < c.id

Verdict(m) ==
  LET cs == CallbacksOf(m)
      apps == ApplicationsOf(m)
  IN IF Cardinality(PlacesOf(m)) > 1 \/ Cardinality(apps) > 1 THEN "ambiguous"
     ELSE IF apps # {} THEN "applied"
     ELSE IF cs = {} THEN "unmatched"
     ELSE IF \E c \in cs : ~c.accepted THEN "rejected"
     ELSE IF \E c \in cs : Overtaken(c) /\ Complete(c.instance) THEN "superseded"
     ELSE "unresolved"

-----------------------------------------------------------------------------
(* Properties. *)

(***************************************************************************)
(* "applied" is only said of a target that was installed in the activation *)
(* the verdict names, and accepted and written in that activation too,     *)
(* whatever activations its callback and its records have crossed.         *)
(***************************************************************************)
AppliedIsTrue ==
  \A m \in 1..MaxTargets : Verdict(m) = "applied" =>
    \A a \in ApplicationsOf(m) : \E i \in installed :
      /\ i.cmd.msg = m
      /\ i.act = a.app.act
      /\ i.cmd.checked = i.act /\ i.cmd.wrote = i.act

(***************************************************************************)
(* "superseded" is only said of a target that was accepted and, in the     *)
(* activation its callback was entered in, never installed, while a later  *)
(* one was: although records are lost, the ring overflows, and a record    *)
(* can vanish without an ID.  The exception is a callback of the executor, *)
(* the timer's above all, that drains or publishes while on_cleanup does:  *)
(* the two may take one ID, so that the loss of one leaves no gap, and the *)
(* batch with the target's application may come after the later one, or    *)
(* never, when the publisher is gone before it has its ID.                 *)
(***************************************************************************)
SupersededIsTrue ==
  \A m \in 1..MaxTargets : ~overlapped /\ Verdict(m) = "superseded" =>
    /\ m \in accepted
    /\ \A c \in CallbacksOf(m) :
         /\ ~\E i \in installed : i.cmd.msg = m /\ i.act = c.act
         /\ \E i \in installed : i.cmd.seq > c.seq /\ i.act = c.act

(***************************************************************************)
(* A target is never ambiguous to the analysis while stamps are unique,    *)
(* whatever is lost, dropped or published at the same time: one that a     *)
(* later activation installs a second time (readFromRT may return it once  *)
(* more) has two application records and still one verdict.  The exception *)
(* is the timer's drain that still pops while on_cleanup does: they may    *)
(* take one sample twice, and the analysis finds two applications of it.   *)
(***************************************************************************)
NeverAmbiguous == ~drainsMet => \A m \in 1..MaxTargets : Verdict(m) # "ambiguous"

-----------------------------------------------------------------------------
(* The inductive invariant behind AppliedIsTrue, beside the controller's. *)

\* What was installed is a target, loaded, checked, written and installed in
\* this order.
InstalledInv ==
  \A i \in installed :
    /\ i.cmd.msg # 0
    /\ i.cmd.act <= i.cmd.checked
    /\ i.cmd.checked <= i.cmd.wrote
    /\ i.cmd.wrote <= i.act

AppsOf(b) == Range(b.apps)

\* A record that speaks of applications speaks of what was installed.
Truthful(rec) == rec \in SamplesRecord => AppsOf(rec) \subseteq installed

\* From the ring to the collector, nothing is made up.
CarriedInv ==
  /\ ring \in Seq(installed)
  /\ read <= Len(ring)
  /\ \A t \in Threads :
       /\ publishing[t].pc = "copy" => from[t] < Len(ring)
       /\ Draining(t) => publishing[t].rec.event = "samples"
       /\ InFlight(t) => Truthful(publishing[t].rec)
  /\ \A r \in Received : Truthful(r)

EvidenceInv == LogTypeOK /\ InstalledInv /\ CarriedInv

-----------------------------------------------------------------------------
(* What NeverAmbiguous needs beside it: one command and one record a target. *)

\* The commands of the buffer, of the RT slot and of the applications made.
Written ==
  {x \in {buf, rtBuf} \cup {i.cmd : i \in installed} : x.msg # 0}

\* A target is written once, by its own callback.
WrittenOnceInv ==
  /\ \A x, y \in Written : x.msg = y.msg => x = y
  /\ \A x \in Written : x.msg <= received
  /\ cb.pc # "idle" => \A x \in Written : x.msg < received

\* The executor reports a callback after it, once, before it takes another
\* message; the manager reports none.
ReportedOnceInv ==
  /\ InFlight("manager") => publishing["manager"].rec.event = "samples"
  /\ InFlight("executor") => cb.pc = "idle"
  /\ InFlight("executor") /\ publishing["executor"].rec.event = "callback" =>
       /\ publishing["executor"].rec.msg <= received
       /\ \A c \in Callbacks : c.msg # publishing["executor"].rec.msg
  /\ \A c \in Callbacks : c.msg <= received /\ (cb.pc # "idle" => c.msg < received)
  /\ \A m \in 1..MaxTargets : \A i, j \in PlacesOf(m) : i = j

OnceInv == WrittenOnceInv /\ ReportedOnceInv

-----------------------------------------------------------------------------
(* What SupersededIsTrue needs beside both: the way of every application. *)

BatchesIn(S) == {r \in S : r.event = "samples"}

\* What a thread has under way.
Carries(t) == InFlight(t) /\ publishing[t].rec.event = "samples"

Answers(t) == InFlight(t) /\ publishing[t].rec.event = "callback"

\* The records that are received or under way; those that have their IDs.
Reports == Received \cup {publishing[t].rec : t \in {u \in Threads : InFlight(u)}}

Given ==
  Received \cup {publishing[t].rec : t \in {u \in Threads : publishing[u].pc = "publish"}}

\* Those for which the counter has been read.
Counted ==
  Received \cup {publishing[t].rec : t \in {u \in Threads : InFlight(u) /\ ~Draining(u)}}

\* The applications that are in no record that has its ID, but may get there.
Live ==
  Ringed \cup UNION {AppsOf(publishing[t].rec) : t \in
    {u \in Threads : Carries(u) /\ publishing[u].pc # "publish"}}

\* A callback's record and its command agree, and it was accepted if it says so.
AgreeInv ==
  \A c \in Reports : c.event = "callback" =>
    /\ c.accepted => c.msg \in accepted
    /\ \A x \in Written : c.msg = x.msg => c.act = x.act /\ c.seq = x.seq

\* Activations install ever younger sequence numbers.
NewestInv ==
  /\ \A x \in installed : x.act <= activation
  /\ Activating => \A x \in installed : x.act # activation
  /\ Commanding => \A x \in installed : x.act = activation => x.cmd.seq <= lastApplied

\* They are pushed in that order, each once.
PushedInv ==
  \A i, j \in DOMAIN ring :
    i < j /\ ring[i].act = ring[j].act => ring[i].cmd.seq < ring[j].cmd.seq

\* Nothing is pushed once on_cleanup has begun.
CleanInv == ~Subscribed \/ Cleaning => ~Commanding /\ ~Activating

\* Two drains at once are remembered.
MetInv ==
  /\ drainsMet => overlapped
  /\ \A t, u \in Threads : Draining(t) /\ Draining(u) /\ t # u => drainsMet

Apart(b, d) == AppsOf(b) \cap AppsOf(d) = {}

\* A sample is popped once, and reported in one place.
TakenOnceInv ==
  /\ \A t \in Threads : publishing[t].pc = "copy" => from[t] = read
  /\ \A b \in BatchesIn(Reports) : IsInjective(b.apps) /\ AppsOf(b) \cap Ringed = {}
  /\ \A i, j \in DOMAIN records :
       /\ records[i].event = "samples" /\ records[j].event = "samples"
       /\ i # j
       => Apart(records[i], records[j])
  /\ \A t \in Threads : Carries(t) =>
       /\ \A b \in Batches : Apart(publishing[t].rec, b)
       /\ \A u \in Threads : Carries(u) /\ u # t => Apart(publishing[t].rec, publishing[u].rec)

\* What on_cleanup has drained stays drained.
EmptiedInv == ~Subscribed \/ (Cleaning /\ ~Draining("manager")) => Ringed = {}

\* One record is under way at a time, and IDs tell their order.
SerialInv ==
  /\ \A t, u \in Threads : InFlight(t) /\ InFlight(u) => t = u
  /\ \A r \in Received : r.id <= evidenceId
  /\ \A t \in Threads :
       /\ publishing[t].pc = "publish" => publishing[t].rec.id = evidenceId + 1
       /\ Carries(t) => Subscribed /\ (t = "executor" => ~Cleaning)

\* The applications of an activation are reported by its own configuration.
InstanceInv ==
  /\ \A b \in BatchesIn(Given) : \A x \in AppsOf(b) :
       /\ Commanding \/ Activating => (x.act = activation => b.instance = instance)
       /\ \A y \in Live : x.act = y.act => b.instance = instance
  /\ \A b, d \in BatchesIn(Given) : \A x \in AppsOf(b), y \in AppsOf(d) :
       x.act = y.act => b.instance = d.instance

Later(y, x) == y.act = x.act /\ y.cmd.seq > x.cmd.seq

\* An application does not overtake another on its way.
OrderInv ==
  /\ \A x \in Ringed : \A b \in BatchesIn(Reports) : \A y \in AppsOf(b) : ~Later(y, x)
  /\ \A t \in Threads : Carries(t) => \A x \in AppsOf(publishing[t].rec) :
       \A b \in Batches : \A y \in AppsOf(b) : ~Later(y, x)

\* The ring was full: so the counter tells, with every later application.
Dropped(x) ==
  /\ droppedApps > 0
  /\ \A b \in BatchesIn(Counted) : (\E y \in AppsOf(b) : Later(y, x)) => b.dropped > 0

\* Its record was lost: so an ID is missing, after its callback's and before
\* those of later applications.
Lost(x) ==
  \E k \in 1..evidenceId :
    /\ \A r \in Received : r.id # k
    /\ \A c \in Callbacks : c.msg = x.cmd.msg => c.id < k
    /\ \A t \in Threads : Answers(t) => publishing[t].rec.msg # x.cmd.msg
    /\ \A b \in Batches : (\E y \in AppsOf(b) : Later(y, x)) => b.id > k

\* There is no other way to get lost.
FateInv ==
  \A x \in installed :
    \/ x \in Ringed
    \/ \E b \in BatchesIn(Reports) : x \in AppsOf(b)
    \/ Dropped(x)
    \/ Lost(x)

WayInv ==
  /\ AgreeInv /\ NewestInv /\ PushedInv /\ CleanInv /\ MetInv
  /\ drainsMet \/ TakenOnceInv
  /\ overlapped \/ (SerialInv /\ EmptiedInv /\ InstanceInv /\ OrderInv /\ FateInv)
=============================================================================
