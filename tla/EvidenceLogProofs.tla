------------------------- MODULE EvidenceLogProofs -------------------------
(***************************************************************************)
(* What the analysis calls applied was applied, what it calls superseded   *)
(* was superseded until publications overlap, and nothing is ambiguous to  *)
(* it until two drains meet, for any number of targets, activations,       *)
(* configurations and drains, whatever evidence is lost.                   *)
(***************************************************************************)
EXTENDS EvidenceLog, StreamingControllerProofs, FiniteSetTheorems, WellFoundedInduction

\* A step of the controller that leaves the evidence alone.
SilentStep == UNCHANGED logVars

\* The steps of a drain that has begun.
Popping(t) == LoadRead(t) \/ StoreRead(t) \/ EndDrain(t)

(* The controller that publishes evidence is the controller. *)
LEMMA LogStepsAreSteps == [LogNext]_allVars => [Next]_vars
<1> USE DEF Next, Lifecycles, RealTime, Callback
<1>1. ASSUME NEW t \in Threads, Popping(t) \/ PublishNowhere(t) \/ LoadId(t) \/ Publish(t)
      PROVE  UNCHANGED vars
  BY <1>1 DEF Popping, LoadRead, StoreRead, EndDrain, PublishNowhere, LoadId, Publish
<1>2. TakeMessage \/ CallbackGoesOn \/ Emit \/ CapturedUpdate \/ EarlyUpdate => Next
  BY DEF TakeMessage, CallbackGoesOn, Emit, CapturedUpdate, EarlyUpdate
<1>3. TimerDrain \/ CleanupDrain => UNCHANGED vars
  BY DEF TimerDrain, CleanupDrain, Drain
<1>4. Configure \/ Switch \/ CleanupReset => Next
  BY DEF Configure, Switch, CleanupReset
<1> QED
  BY <1>1, <1>2, <1>3, <1>4 DEF LogNext, Popping, allVars

(* Every behaviour of the controller with its evidence is one of the        *)
(* controller: what is proved of it holds here too. *)
THEOREM IsAController == LogSpec => Spec
<1>1. LogInit => Init
  BY DEF LogInit
<1> QED
  BY <1>1, LogStepsAreSteps, PTL DEF LogSpec, Spec

(* Initially there is no evidence. *)
LEMMA LogStart == LogInit => EvidenceInv
<1> SUFFICES ASSUME LogInit PROVE EvidenceInv
  OBVIOUS
<1>1. TypeOK
  BY InitInv DEF LogInit, IInv
<1>2. LogTypeOK
  <2>1. publishing \in [Threads -> Publication]
    BY DEF LogInit, Publication, Quiet
  <2>2. ring \in Seq(Application) /\ records \in Seq(Record) /\ from \in [Threads -> Nat]
    BY DEF LogInit
  <2>3. droppedApps \in Nat /\ instance \in 0..MaxConfigures /\ evidenceId \in Nat
        /\ drains \in 0..MaxDrains /\ read \in Nat
    BY LogAssumption DEF LogInit
  <2>4. installed \subseteq Application /\ overlapped \in BOOLEAN /\ drainsMet \in BOOLEAN
    BY DEF LogInit
  <2> QED
    BY <1>1, <2>1, <2>2, <2>3, <2>4 DEF LogTypeOK
<1>3. InstalledInv
  BY DEF LogInit, InstalledInv
<1>4. CarriedInv
  <2>1. \A t \in Threads : publishing[t].pc = "idle"
    BY DEF LogInit, Quiet
  <2>2. Received = {} /\ ring \in Seq(installed) /\ read <= Len(ring)
    BY DEF LogInit, Received, Range
  <2> QED
    BY <2>1, <2>2 DEF CarriedInv, InFlight, Draining
<1> QED
  BY <1>2, <1>3, <1>4 DEF EvidenceInv

(* A record with its ID and instance filled in. *)
LEMMA Identified ==
  ASSUME NEW rec \in Record, NEW i \in Nat, NEW n \in Nat
  PROVE  LET filled == [rec EXCEPT !.id = i, !.instance = n]
         IN filled \in Record /\ (Truthful(rec) => Truthful(filled))
<1>1. CASE rec \in CallbackRecord
  <2> DEFINE filled == [rec EXCEPT !.id = i, !.instance = n]
  <2>1. filled \in CallbackRecord /\ filled.event = "callback"
    BY <1>1 DEF CallbackRecord
  <2>2. filled \notin SamplesRecord
    BY <2>1 DEF SamplesRecord
  <2> QED
    BY <2>1, <2>2 DEF Record, Truthful
<1>2. CASE rec \in SamplesRecord
  <2> DEFINE filled == [rec EXCEPT !.id = i, !.instance = n]
  <2>1. filled \in SamplesRecord /\ filled.apps = rec.apps
    BY <1>2 DEF SamplesRecord
  <2> QED
    BY <1>2, <2>1 DEF Record, Truthful, AppsOf
<1> QED
  BY <1>1, <1>2 DEF Record

(* A sequence with one element more. *)
LEMMA RangeOfAppend ==
  ASSUME NEW S, NEW s \in Seq(S), NEW e \in S
  PROVE  Range(Append(s, e)) = Range(s) \cup {e}
<1>1. /\ DOMAIN Append(s, e) = 1..(Len(s) + 1) /\ DOMAIN s = 1..Len(s) /\ Len(s) \in Nat
      /\ Append(s, e)[Len(s) + 1] = e
      /\ \A i \in 1..Len(s) : Append(s, e)[i] = s[i]
  OBVIOUS
<1>2. \A i \in 1..(Len(s) + 1) : i \in 1..Len(s) \/ i = Len(s) + 1
  BY <1>1
<1>3. \A i \in 1..Len(s) : i \in 1..(Len(s) + 1)
  BY <1>1
<1>4. Len(s) + 1 \in 1..(Len(s) + 1)
  BY <1>1
<1>5. Range(Append(s, e)) \subseteq Range(s) \cup {e}
  BY <1>1, <1>2 DEF Range
<1>6. Range(s) \cup {e} \subseteq Range(Append(s, e))
  BY <1>1, <1>3, <1>4 DEF Range
<1> QED
  BY <1>5, <1>6

(* What a thread that is in there holds. *)
LEMMA UnderWay ==
  ASSUME EvidenceInv, NEW t \in Threads, InFlight(t)
  PROVE  /\ publishing \in [Threads -> Publication]
         /\ publishing[t] \in [pc : {"pop", "copy", "begin", "publish"}, rec : Record]
         /\ publishing[t].rec \in Record /\ Truthful(publishing[t].rec)
<1>1. publishing \in [Threads -> Publication] /\ publishing[t] \in Publication
  BY DEF EvidenceInv, LogTypeOK
<1>2. publishing[t].pc \in {"pop", "copy", "begin", "publish"}
  BY DEF InFlight, Draining
<1>3. publishing[t] \in [pc : {"pop", "copy", "begin", "publish"}, rec : Record]
  BY <1>1, <1>2 DEF Publication
<1> QED
  BY <1>1, <1>3 DEF EvidenceInv, CarriedInv

(* The evidence stays true when one thread's record does, nothing is added   *)
(* to the ring, and at most that record to what is received. *)
LEMMA RecordStep ==
  ASSUME EvidenceInv, TypeOK', NEW t \in Threads, NEW p \in Publication,
         publishing' = [publishing EXCEPT ![t] = p],
         p.pc \in {"pop", "copy", "begin", "publish"} => Truthful(p.rec),
         p.pc \in {"pop", "copy"} => p.rec.event = "samples",
         UNCHANGED <<ring, droppedApps, instance, installed>>,
         read' \in Nat, read' <= Len(ring), from' \in [Threads -> Nat],
         \A u \in Threads : publishing'[u].pc = "copy" => from'[u] < Len(ring),
         evidenceId' \in Nat, drains' \in 0..MaxDrains, overlapped' \in BOOLEAN,
         drainsMet' \in BOOLEAN,
         \/ records' = records
         \/ InFlight(t) /\ records' = Append(records, publishing[t].rec)
  PROVE  EvidenceInv'
<1>1. publishing \in [Threads -> Publication] /\ records \in Seq(Record)
  BY DEF EvidenceInv, LogTypeOK
<1>2. publishing' \in [Threads -> Publication]
  BY <1>1
<1>3. \A u \in Threads : publishing'[u] = IF u = t THEN p ELSE publishing[u]
  BY <1>1
<1>4. records' \in Seq(Record) /\ \A r \in Received' : Truthful(r)
  <2>1. \A r \in Received : Truthful(r)
    BY DEF EvidenceInv, CarriedInv
  <2>2. CASE records' = records
    BY <1>1, <2>1, <2>2 DEF Received
  <2>3. CASE InFlight(t) /\ records' = Append(records, publishing[t].rec)
    <3>1. publishing[t].rec \in Record /\ Truthful(publishing[t].rec)
      BY <2>3, UnderWay
    <3>2. Received' = Received \cup {publishing[t].rec}
      BY <1>1, <2>3, <3>1, RangeOfAppend DEF Received
    <3>3. Append(records, publishing[t].rec) \in Seq(Record)
      BY <1>1, <3>1
    <3> QED
      BY <2>1, <2>3, <3>1, <3>2, <3>3
  <2> QED
    BY <2>2, <2>3
<1>5. \A r : Truthful(r)' <=> Truthful(r)
  BY DEF Truthful, AppsOf
<1>6. LogTypeOK'
  BY <1>2, <1>4 DEF EvidenceInv, LogTypeOK
<1>7. InstalledInv'
  BY DEF EvidenceInv, InstalledInv
<1>8. \A u \in Threads : /\ Draining(u)' => publishing'[u].rec.event = "samples"
                         /\ InFlight(u)' => Truthful(publishing'[u].rec)
  <2> SUFFICES ASSUME NEW u \in Threads
               PROVE  /\ Draining(u)' => publishing'[u].rec.event = "samples"
                      /\ InFlight(u)' => Truthful(publishing'[u].rec)
    OBVIOUS
  <2>1. CASE u = t
    BY <1>3, <2>1 DEF Draining, InFlight
  <2>2. CASE u # t
    BY <1>3, <2>2 DEF Draining, InFlight, EvidenceInv, CarriedInv
  <2> QED
    BY <2>1, <2>2
<1>9. ring' \in Seq(installed') /\ read' <= Len(ring')
  BY DEF EvidenceInv, CarriedInv
<1>10. CarriedInv'
  <2>1. \A r \in Received' : Truthful(r)'
    BY <1>4, <1>5
  <2>2. \A u \in Threads : (InFlight(u) => Truthful(publishing[u].rec))'
    BY <1>8 DEF Truthful, AppsOf
  <2>3. ring' = ring
    OBVIOUS
  <2> QED
    BY <1>8, <1>9, <2>1, <2>2, <2>3 DEF CarriedInv
<1> QED
  BY <1>6, <1>7, <1>10 DEF EvidenceInv

(* publish_evidence passes a record on as it is. *)
LEMMA PublishingStep ==
  ASSUME EvidenceInv, TypeOK', NEW t \in Threads, PublishNowhere(t) \/ LoadId(t) \/ Publish(t)
  PROVE  EvidenceInv'
<1>1. UNCHANGED <<ring, read, from, droppedApps, instance, drains, installed, overlapped, drainsMet>>
  BY DEF PublishNowhere, LoadId, Publish, history
<1>2. InFlight(t)
  BY DEF PublishNowhere, LoadId, Publish, InFlight
<1>3. /\ publishing \in [Threads -> Publication]
      /\ publishing[t] \in [pc : {"pop", "copy", "begin", "publish"}, rec : Record]
      /\ publishing[t].rec \in Record /\ Truthful(publishing[t].rec)
  BY <1>2, UnderWay
<1>4. publishing[t].rec.id \in Nat
  BY <1>3 DEF Record, CallbackRecord, SamplesRecord
<1>5. /\ read' \in Nat /\ read' <= Len(ring) /\ from' \in [Threads -> Nat]
      /\ drains' \in 0..MaxDrains /\ overlapped' \in BOOLEAN /\ drainsMet' \in BOOLEAN
      /\ UNCHANGED <<ring, droppedApps, instance, installed>>
  BY <1>1 DEF EvidenceInv, LogTypeOK, CarriedInv
<1>6. CASE PublishNowhere(t) \/ Publish(t)
  <2> DEFINE p == [pc |-> IF t = "manager" THEN "reset" ELSE "idle", rec |-> Nothing]
  <2>1. p \in Publication /\ publishing' = [publishing EXCEPT ![t] = p]
    BY <1>6 DEF PublishNowhere, Publish, Return, Proceed, Publication
  <2>2. p.pc \in {"idle", "reset"}
    OBVIOUS
  <2> HIDE DEF p
  <2>3. \A u \in Threads : publishing'[u].pc = "copy" => from'[u] < Len(ring)
    BY <1>1, <1>3, <2>1, <2>2 DEF EvidenceInv, CarriedInv
  <2>4. /\ evidenceId' \in Nat
        /\ \/ records' = records
           \/ InFlight(t) /\ records' = Append(records, publishing[t].rec)
    BY <1>2, <1>4, <1>6 DEF PublishNowhere, Publish, Save, EvidenceInv, LogTypeOK
  <2> QED
    BY <1>5, <2>1, <2>2, <2>3, <2>4, RecordStep
<1>7. CASE LoadId(t)
  <2> DEFINE filled == [publishing[t].rec EXCEPT !.id = evidenceId + 1, !.instance = instance]
             p == [pc |-> "publish", rec |-> filled]
  <2>1. filled \in Record /\ Truthful(filled)
    <3>1. evidenceId + 1 \in Nat /\ instance \in Nat
      BY LogAssumption DEF EvidenceInv, LogTypeOK
    <3> QED
      BY <1>3, <3>1, Identified
  <2>2. publishing' = [publishing EXCEPT ![t] = p]
    BY <1>7 DEF LoadId, Proceed
  <2> HIDE DEF filled
  <2>3. p \in Publication /\ p.pc = "publish" /\ Truthful(p.rec)
    BY <2>1 DEF Publication
  <2> HIDE DEF p
  <2>4. \A u \in Threads : publishing'[u].pc = "copy" => from'[u] < Len(ring)
    BY <1>1, <1>3, <2>2, <2>3 DEF EvidenceInv, CarriedInv
  <2>5. evidenceId' \in Nat /\ records' = records
    BY <1>7 DEF LoadId, EvidenceInv, LogTypeOK
  <2> QED
    BY <1>5, <2>2, <2>3, <2>4, <2>5, RecordStep
<1> QED
  BY <1>6, <1>7

(* A record begins, and says nothing that was not installed. *)
LEMMA BeginStep ==
  ASSUME EvidenceInv, TypeOK', NEW t \in Threads, NEW step \in {"pop", "begin"}, NEW rec \in Record,
         Truthful(rec), step = "pop" => rec.event = "samples", Begin(t, step, rec),
         UNCHANGED <<ring, read, from, droppedApps, instance, evidenceId, records, installed>>,
         drains' \in 0..MaxDrains, drainsMet' \in BOOLEAN
  PROVE  EvidenceInv'
<1> DEFINE p == [pc |-> step, rec |-> rec]
<1>1. p \in Publication /\ p.pc = step /\ p.rec = rec
  BY DEF Publication
<1>2. publishing' = [publishing EXCEPT ![t] = p] /\ publishing \in [Threads -> Publication]
      /\ overlapped' \in BOOLEAN
  BY DEF Begin, Proceed, EvidenceInv, LogTypeOK
<1> HIDE DEF p
<1>3. \A u \in Threads : publishing'[u].pc = "copy" => from'[u] < Len(ring)
  BY <1>1, <1>2 DEF EvidenceInv, CarriedInv
<1>4. /\ read' \in Nat /\ read' <= Len(ring) /\ from' \in [Threads -> Nat] /\ evidenceId' \in Nat
  BY DEF EvidenceInv, LogTypeOK, CarriedInv
<1> QED
  BY <1>1, <1>2, <1>3, <1>4, RecordStep

(* A callback's record. *)
LEMMA EmitStep == EvidenceInv /\ TypeOK' /\ Emit => EvidenceInv'
<1> SUFFICES ASSUME EvidenceInv, TypeOK', Emit PROVE EvidenceInv'
  OBVIOUS
<1> DEFINE rec == [event |-> "callback", instance |-> 0, id |-> 0, msg |-> cb.cmd.msg,
                   act |-> cb.cmd.act, seq |-> cb.cmd.seq, accepted |-> cb.pc = "write"]
<1>1. cb.cmd \in Command
  BY DEF EvidenceInv, LogTypeOK, TypeOK
<1>2. rec \in CallbackRecord
  <2>1. (cb.pc = "write") \in BOOLEAN
    OBVIOUS
  <2> QED
    BY <1>1, <2>1 DEF CallbackRecord, Command
<1>3. rec \notin SamplesRecord
  BY DEF SamplesRecord
<1>4. Begin("executor", "begin", rec) /\ "executor" \in Threads
  BY DEF Emit, Threads
<1> HIDE DEF rec
<1>5. rec \in Record /\ Truthful(rec)
  BY <1>2, <1>3 DEF Record, Truthful
<1>6. UNCHANGED <<ring, read, from, droppedApps, instance, evidenceId, records, installed>>
  BY DEF Emit
<1>7. drains' \in 0..MaxDrains /\ drainsMet' \in BOOLEAN
  BY DEF Emit, EvidenceInv, LogTypeOK
<1> QED
  BY <1>4, <1>5, <1>6, <1>7, BeginStep

(* A drain. *)
LEMMA DrainingStep ==
  ASSUME EvidenceInv, TypeOK', NEW t \in Threads, Drain(t), drains' \in 0..MaxDrains
  PROVE  EvidenceInv'
<1> DEFINE rec == [event |-> "samples", instance |-> 0, id |-> 0,
                   apps |-> <<>>, dropped |-> 0]
<1>1. rec \in SamplesRecord /\ AppsOf(rec) = {} /\ rec.event = "samples"
  BY DEF SamplesRecord, AppsOf, Range
<1>2. Begin(t, "pop", rec) /\ drainsMet' \in BOOLEAN
  BY DEF Drain, EvidenceInv, LogTypeOK
<1>3. UNCHANGED <<ring, read, from, droppedApps, instance, evidenceId, records, installed>>
  BY DEF Drain
<1> HIDE DEF rec
<1>4. rec \in Record /\ Truthful(rec)
  BY <1>1 DEF Record, Truthful
<1> QED
  BY <1>1, <1>2, <1>3, <1>4, BeginStep

(* What a drain that has begun makes of its record. *)
LEMMA PoppingShape ==
  ASSUME EvidenceInv, NEW t \in Threads, Popping(t)
  PROVE  /\ Draining(t) /\ InFlight(t) /\ publishing[t].rec \in SamplesRecord
         /\ \E p \in Publication :
              /\ publishing' = [publishing EXCEPT ![t] = p]
              /\ p.rec \in SamplesRecord
              /\ LoadRead(t) =>
                   /\ publishing[t].pc = "pop" /\ p = [pc |-> "copy", rec |-> publishing[t].rec]
              /\ StoreRead(t) =>
                   /\ publishing[t].pc = "copy" /\ p.pc = "pop"
                   /\ from[t] \in Nat /\ from[t] < Len(ring) /\ ring[from[t] + 1] \in Application
                   /\ p.rec.apps = Append(publishing[t].rec.apps, ring[from[t] + 1])
                   /\ AppsOf(p.rec) = AppsOf(publishing[t].rec) \cup {ring[from[t] + 1]}
                   /\ p.rec.dropped = publishing[t].rec.dropped
              /\ EndDrain(t) =>
                   /\ publishing[t].pc = "pop" /\ p.pc = "begin" /\ p.rec.dropped = droppedApps
                   /\ p.rec.apps = publishing[t].rec.apps
<1> DEFINE r == publishing[t].rec
<1>1. Draining(t) /\ InFlight(t)
  BY DEF Popping, LoadRead, StoreRead, EndDrain, Draining, InFlight
<1>2. publishing \in [Threads -> Publication]
      /\ publishing[t] \in [pc : {"pop", "copy", "begin", "publish"}, rec : Record]
  BY <1>1, UnderWay
<1>3. r \in SamplesRecord
  <2>1. r \in Record /\ r.event = "samples"
    BY <1>1, <1>2 DEF EvidenceInv, CarriedInv
  <2> QED
    BY <2>1 DEF Record, CallbackRecord
<1>4. CASE LoadRead(t)
  <2> DEFINE p == [pc |-> "copy", rec |-> r]
  <2>1. publishing[t].pc = "pop" /\ publishing' = [publishing EXCEPT ![t] = p]
    BY <1>4 DEF LoadRead, Proceed
  <2>2. p \in Publication /\ p.rec \in SamplesRecord
    BY <1>2, <1>3 DEF Publication
  <2>3. ~StoreRead(t) /\ ~EndDrain(t)
    <3>1. publishing'[t].pc = "copy"
      BY <1>2, <2>1
    <3>2. EndDrain(t) => publishing'[t].pc = "begin"
      BY <1>2 DEF EndDrain, Proceed
    <3> QED
      BY <2>1, <3>1, <3>2 DEF StoreRead
  <2> HIDE DEF r
  <2> QED
    BY <1>1, <1>3, <2>1, <2>2, <2>3 DEF r
<1>5. CASE StoreRead(t)
  <2> DEFINE app == ring[from[t] + 1]
             f == [r EXCEPT !.apps = Append(r.apps, app)]
             p == [pc |-> "pop", rec |-> f]
  <2>1. publishing[t].pc = "copy" /\ publishing' = [publishing EXCEPT ![t] = p]
    BY <1>5 DEF StoreRead, Proceed
  <2>2. from[t] \in Nat /\ from[t] < Len(ring) /\ app \in Application
    <3>1. from[t] \in Nat /\ from[t] < Len(ring) /\ ring \in Seq(Application)
      BY <2>1 DEF EvidenceInv, LogTypeOK, CarriedInv
    <3> QED
      BY <3>1
  <2>3. r.apps \in Seq(Application)
    BY <1>3 DEF SamplesRecord
  <2>4. Append(r.apps, app) \in Seq(Application) /\ Range(Append(r.apps, app)) = Range(r.apps) \cup {app}
    <3> HIDE DEF app, r
    <3> QED
      BY <2>2, <2>3, RangeOfAppend
  <2>5. f \in SamplesRecord /\ f.apps = Append(r.apps, app) /\ f.dropped = r.dropped
    <3> HIDE DEF app
    <3> QED
      BY <1>3, <2>4 DEF SamplesRecord
  <2> HIDE DEF f
  <2>6. p \in Publication /\ p.pc = "pop" /\ p.rec = f
    BY <2>5 DEF Publication, Record
  <2>7. AppsOf(f) = AppsOf(r) \cup {app}
    BY <2>4, <2>5 DEF AppsOf
  <2>8. ~LoadRead(t) /\ ~EndDrain(t)
    BY <2>1 DEF LoadRead, EndDrain
  <2> HIDE DEF p
  <2> QED
    BY <1>1, <1>3, <2>1, <2>2, <2>5, <2>6, <2>7, <2>8
<1>6. CASE EndDrain(t)
  <2> DEFINE f == [r EXCEPT !.dropped = droppedApps]
             p == [pc |-> "begin", rec |-> f]
  <2>1. publishing[t].pc = "pop" /\ publishing' = [publishing EXCEPT ![t] = p]
    BY <1>6 DEF EndDrain, Proceed
  <2>2. f \in SamplesRecord /\ f.apps = r.apps /\ f.dropped = droppedApps
    BY <1>3 DEF SamplesRecord, EvidenceInv, LogTypeOK
  <2>3. ~StoreRead(t) /\ ~LoadRead(t)
    <3>1. publishing'[t].pc = "begin"
      BY <1>2, <2>1
    <3>2. LoadRead(t) => publishing'[t].pc = "copy"
      BY <1>2 DEF LoadRead, Proceed
    <3> QED
      BY <2>1, <3>1, <3>2 DEF StoreRead
  <2> HIDE DEF f
  <2>4. p \in Publication /\ p.pc = "begin" /\ p.rec = f
    BY <2>2 DEF Publication, Record
  <2> HIDE DEF p
  <2> QED
    BY <1>1, <1>3, <2>1, <2>2, <2>3, <2>4
<1> QED
  BY <1>4, <1>5, <1>6 DEF Popping

(* A drain pops what was pushed. *)
LEMMA PoppingStep ==
  ASSUME EvidenceInv, TypeOK', NEW t \in Threads, Popping(t)
  PROVE  EvidenceInv'
<1>1. /\ UNCHANGED <<ring, droppedApps, instance, evidenceId, drains, records, installed, overlapped,
                     drainsMet>>
  BY DEF Popping, LoadRead, StoreRead, EndDrain, history
<1>2. PICK p \in Publication :
        /\ publishing' = [publishing EXCEPT ![t] = p]
        /\ p.rec \in SamplesRecord
        /\ LoadRead(t) => publishing[t].pc = "pop" /\ p = [pc |-> "copy", rec |-> publishing[t].rec]
        /\ StoreRead(t) =>
             /\ publishing[t].pc = "copy" /\ p.pc = "pop"
             /\ from[t] \in Nat /\ from[t] < Len(ring)
             /\ AppsOf(p.rec) = AppsOf(publishing[t].rec) \cup {ring[from[t] + 1]}
        /\ EndDrain(t) => p.pc = "begin" /\ p.rec.apps = publishing[t].rec.apps
  BY PoppingShape
<1>3. publishing \in [Threads -> Publication] /\ AppsOf(publishing[t].rec) \subseteq installed
  <2>1. InFlight(t) /\ publishing[t].rec \in SamplesRecord
    BY PoppingShape
  <2> QED
    BY <2>1, UnderWay DEF Truthful
<1>4. AppsOf(p.rec) \subseteq installed
  <2>1. StoreRead(t) => ring[from[t] + 1] \in installed
    <3>1. ring \in Seq(installed)
      BY DEF EvidenceInv, CarriedInv
    <3> QED
      BY <1>2, <3>1
  <2>2. LoadRead(t) \/ EndDrain(t) => AppsOf(p.rec) = AppsOf(publishing[t].rec)
    BY <1>2 DEF AppsOf
  <2> QED
    BY <1>2, <1>3, <2>1, <2>2 DEF Popping
<1>5. Truthful(p.rec) /\ p.rec.event = "samples"
  BY <1>2, <1>4 DEF Truthful, SamplesRecord
<1>6. /\ read \in Nat /\ read <= Len(ring) /\ from \in [Threads -> Nat] /\ Len(ring) \in Nat
      /\ evidenceId \in Nat /\ drains \in 0..MaxDrains /\ overlapped \in BOOLEAN
      /\ drainsMet \in BOOLEAN /\ \A u \in Threads : publishing[u].pc = "copy" => from[u] < Len(ring)
  BY DEF EvidenceInv, LogTypeOK, CarriedInv
<1>7. /\ read' \in Nat /\ read' <= Len(ring) /\ from' \in [Threads -> Nat]
      /\ \A u \in Threads : publishing'[u].pc = "copy" => from'[u] < Len(ring)
  <2>1. CASE LoadRead(t)
    <3>1. from' = [from EXCEPT ![t] = read] /\ read' = read /\ read < Len(ring)
      BY <2>1 DEF LoadRead
    <3> QED
      BY <1>2, <1>3, <1>6, <2>1, <3>1
  <2>2. CASE StoreRead(t)
    <3>1. from' = [from EXCEPT ![t] = 0] /\ read' = from[t] + 1
      BY <2>2 DEF StoreRead
    <3> QED
      BY <1>2, <1>3, <1>6, <2>2, <3>1
  <2>3. CASE EndDrain(t)
    <3>1. from' = from /\ read' = read
      BY <2>3 DEF EndDrain
    <3> QED
      BY <1>2, <1>3, <1>6, <2>3, <3>1
  <2> QED
    BY <2>1, <2>2, <2>3 DEF Popping
<1> QED
  BY <1>1, <1>2, <1>5, <1>6, <1>7, RecordStep

(* An update that installs a target, and what it puts into the ring. *)
LEMMA CaptureStep == EvidenceInv /\ IInv /\ IInv' /\ CapturedUpdate => EvidenceInv'
<1> SUFFICES ASSUME EvidenceInv, IInv, IInv', CapturedUpdate PROVE EvidenceInv'
  OBVIOUS
<1> DEFINE app == [cmd |-> rtBuf', act |-> activation]
<1>1. UNCHANGED <<read, from, instance, evidenceId, publishing, drains, records, overlapped, drainsMet>>
  BY DEF CapturedUpdate
<1>2. activation' = activation /\ lastApplied \in Nat /\ activation \in Activations
  BY BoundsAssumption DEF CapturedUpdate, Update, UpdateError, UpdateTo, IInv, TypeOK, Targets
<1>3. CASE UNCHANGED <<ring, droppedApps, installed>>
  BY <1>1, <1>3 DEF IInv, EvidenceInv, LogTypeOK, InstalledInv, CarriedInv, InFlight, Draining,
                    Truthful, AppsOf, Received
<1>4. CASE /\ rtBuf'.seq > lastApplied
           /\ installed' = installed \cup {app}
           /\ \/ ring' = Append(ring, app) /\ UNCHANGED droppedApps
              \/ droppedApps' = droppedApps + 1 /\ UNCHANGED ring
  <2>1. rtBuf' \in Command /\ app \in Application
    BY <1>2 DEF IInv, TypeOK, Application
  <2>2. rtBuf'.msg # 0
    <3>1. rtBuf'.seq \in Nat /\ rtBuf'.seq # 0
      BY <1>2, <1>4, <2>1, BoundsAssumption DEF Command, Targets
    <3>2. rtBuf'.msg = 0 <=> rtBuf'.seq = 0
      BY DEF IInv, SequenceInv, Handed
    <3> QED
      BY <3>1, <3>2
  <2>3. /\ rtBuf'.act <= rtBuf'.checked /\ rtBuf'.checked <= rtBuf'.wrote
        /\ rtBuf'.wrote <= activation
    BY <1>2, <2>2 DEF IInv, LabelInv, Handed
  <2>4. InstalledInv'
    BY <1>4, <2>2, <2>3 DEF EvidenceInv, InstalledInv
  <2>5. ring' \in Seq(Application) /\ droppedApps' \in Nat
    <3>1. ring \in Seq(Application) /\ droppedApps \in Nat
      BY DEF EvidenceInv, LogTypeOK
    <3>2. Append(ring, app) \in Seq(Application) /\ droppedApps + 1 \in Nat
      BY <2>1, <3>1
    <3> QED
      BY <1>4, <3>1, <3>2
  <2>6. ring' \in Seq(installed')
    <3>1. ring \in Seq(installed')
      BY <1>4 DEF EvidenceInv, CarriedInv
    <3>2. Append(ring, app) \in Seq(installed')
      BY <1>4, <3>1
    <3> QED
      BY <1>4, <3>1, <3>2
  <2>10. Len(ring') >= Len(ring) /\ Len(ring) \in Nat /\ Len(ring') \in Nat
    <3>1. ring \in Seq(Application)
      BY DEF EvidenceInv, LogTypeOK
    <3>2. Len(Append(ring, app)) = Len(ring) + 1 /\ Len(ring) \in Nat
      BY <2>1, <3>1
    <3> QED
      BY <1>4, <3>2
  <2>7. LogTypeOK'
    BY <1>1, <1>4, <2>1, <2>5 DEF IInv, EvidenceInv, LogTypeOK
  <2>8. installed \subseteq installed'
    BY <1>4
  <2>9. CarriedInv'
    <3>1. read' <= Len(ring') /\ \A t \in Threads : publishing[t].pc = "copy" => from[t] < Len(ring')
      BY <1>1, <2>10 DEF EvidenceInv, LogTypeOK, CarriedInv
    <3> QED
      BY <1>1, <2>6, <2>8, <3>1 DEF EvidenceInv, CarriedInv, InFlight, Draining, Truthful, AppsOf,
                                   Received
  <2> QED
    BY <2>4, <2>7, <2>9 DEF EvidenceInv
<1> QED
  BY <1>3, <1>4 DEF CapturedUpdate, Capture

(* The manager's steps leave the evidence alone, or only count and reset. *)
LEMMA ManagerStep ==
  ASSUME EvidenceInv, TypeOK', Configure \/ CleanupReset
  PROVE  EvidenceInv'
<1>1. UNCHANGED <<ring, read, from, droppedApps, evidenceId, drains, records, history>>
  BY DEF Configure, CleanupReset
<1>2. instance' \in 0..MaxConfigures
  BY LogAssumption DEF Configure, CleanupReset, EvidenceInv, LogTypeOK
<1>3. publishing' = publishing \/ publishing' = [publishing EXCEPT !["manager"] = Quiet]
  BY DEF Configure, CleanupReset
<1>4. /\ publishing \in [Threads -> Publication] /\ "manager" \in Threads
      /\ Quiet \in Publication /\ Quiet.pc = "idle"
  BY DEF EvidenceInv, LogTypeOK, Threads, Publication, Quiet
<1>5. /\ publishing' \in [Threads -> Publication]
      /\ \A u \in Threads : publishing'[u] = publishing[u] \/ publishing'[u].pc = "idle"
  BY <1>3, <1>4
<1>6. LogTypeOK'
  BY <1>1, <1>2, <1>5 DEF EvidenceInv, LogTypeOK, history
<1>7. \A u \in Threads : /\ InFlight(u)' => InFlight(u)
                         /\ Draining(u)' => Draining(u)
                         /\ publishing'[u].pc = "copy" => publishing[u].pc = "copy"
                         /\ InFlight(u)' => publishing'[u] = publishing[u]
  BY <1>5 DEF InFlight, Draining
<1>8. CarriedInv' /\ InstalledInv'
  <2>1. UNCHANGED <<ring, read, from, records, installed>>
    BY <1>1 DEF history
  <2>2. \A u \in Threads : /\ publishing'[u].pc = "copy" => from'[u] < Len(ring')
                           /\ Draining(u)' => publishing'[u].rec.event = "samples"
    BY <1>5, <1>7, <2>1 DEF EvidenceInv, CarriedInv, Draining
  <2>3. \A u \in Threads : (InFlight(u) => Truthful(publishing[u].rec))'
    BY <1>7, <2>1 DEF EvidenceInv, CarriedInv, Truthful, AppsOf
  <2>4. \A r \in Received' : Truthful(r)'
    BY <2>1 DEF EvidenceInv, CarriedInv, Truthful, AppsOf, Received
  <2> QED
    BY <2>1, <2>2, <2>3, <2>4 DEF EvidenceInv, CarriedInv, InstalledInv
<1> QED
  BY <1>6, <1>8 DEF EvidenceInv

(* The evidence that is under way, received or lost was installed before. *)
THEOREM EvidenceInvariant == LogSpec => []EvidenceInv
<1>1. EvidenceInv /\ IInv /\ IInv' /\ [LogNext]_allVars => EvidenceInv'
  <2> SUFFICES ASSUME EvidenceInv, IInv, IInv', [LogNext]_allVars PROVE EvidenceInv'
    OBVIOUS
  <2>1. TypeOK'
    BY DEF IInv
  <2>2. ASSUME NEW t \in Threads, PublishNowhere(t) \/ LoadId(t) \/ Publish(t)
        PROVE  EvidenceInv'
    BY <2>1, <2>2, PublishingStep
  <2>10. ASSUME NEW t \in Threads, Popping(t)
         PROVE  EvidenceInv'
    BY <2>1, <2>10, PoppingStep
  <2>3. CASE Emit
    BY <2>1, <2>3, EmitStep
  <2>4. CASE TimerDrain
    <3>1. drains' \in 0..MaxDrains /\ Drain("executor") /\ "executor" \in Threads
      BY <2>4, LogAssumption DEF TimerDrain, EvidenceInv, LogTypeOK, Threads
    <3> QED
      BY <2>1, <3>1, DrainingStep
  <2>5. CASE CleanupDrain
    <3>1. drains' \in 0..MaxDrains /\ Drain("manager") /\ "manager" \in Threads
      BY <2>5 DEF CleanupDrain, EvidenceInv, LogTypeOK, Threads
    <3> QED
      BY <2>1, <3>1, DrainingStep
  <2>6. CASE CapturedUpdate
    BY <2>6, CaptureStep
  <2>7. CASE Configure \/ CleanupReset
    BY <2>1, <2>7, ManagerStep
  <2>8. CASE SilentStep
    BY <2>1, <2>8 DEF SilentStep, logVars, history, EvidenceInv, LogTypeOK, InstalledInv,
                      CarriedInv, InFlight, Draining, Truthful, AppsOf, Received
  <2>9. TakeMessage \/ CallbackGoesOn \/ EarlyUpdate \/ Switch \/ UNCHANGED allVars => SilentStep
    BY DEF TakeMessage, CallbackGoesOn, EarlyUpdate, Switch, SilentStep, allVars
  <2> QED
    BY <2>2, <2>3, <2>4, <2>5, <2>6, <2>7, <2>8, <2>9, <2>10 DEF LogNext, Popping
<1> QED
  BY <1>1, LogStart, IsAController, InductiveInvariant, PTL DEF LogSpec

(* The variables keep their types. *)
THEOREM LogTypeCorrect == LogSpec => []LogTypeOK
BY EvidenceInvariant, PTL DEF EvidenceInv

(* An application in the list was reported by a batch, from what was installed. *)
LEMMA ApplicationPlace ==
  ASSUME EvidenceInv, NEW a \in Applications
  PROVE  \E i \in DOMAIN records : \E j \in DOMAIN records[i].apps :
           /\ a = [at |-> <<i, j>>, app |-> records[i].apps[j], instance |-> records[i].instance]
           /\ a.app = records[i].apps[j] /\ a.instance = records[i].instance
           /\ records[i] \in Batches /\ records[i] \in SamplesRecord
           /\ a.app \in AppsOf(records[i]) /\ a.app \in installed
<1>1. PICK i \in DOMAIN records : /\ records[i].event = "samples"
        /\ \E j \in DOMAIN records[i].apps :
             a = [at |-> <<i, j>>, app |-> records[i].apps[j], instance |-> records[i].instance]
  BY DEF Applications
<1>2. PICK j \in DOMAIN records[i].apps :
        a = [at |-> <<i, j>>, app |-> records[i].apps[j], instance |-> records[i].instance]
  BY <1>1
<1>3. records[i] \in Received /\ records[i] \in Record
  BY DEF Received, Range, EvidenceInv, LogTypeOK
<1>4. records[i] \in Batches /\ records[i] \in SamplesRecord
  BY <1>1, <1>3 DEF Batches, Record, CallbackRecord
<1>5. a.app = records[i].apps[j] /\ a.instance = records[i].instance
  BY <1>2
<1>6. a.app \in AppsOf(records[i])
  BY <1>5 DEF AppsOf, Range
<1>7. a.app \in installed
  BY <1>3, <1>4, <1>6 DEF EvidenceInv, CarriedInv, Truthful
<1> QED
  BY <1>2, <1>4, <1>5, <1>6, <1>7

(* A target the analysis calls applied was installed, accepted and written   *)
(* in the activation it names. *)
THEOREM AppliedTargetsWereApplied == LogSpec => []AppliedIsTrue
<1>1. EvidenceInv => AppliedIsTrue
  <2> SUFFICES ASSUME EvidenceInv, NEW m \in 1..MaxTargets, NEW a \in ApplicationsOf(m)
               PROVE  \E i \in installed :
                        /\ i.cmd.msg = m /\ i.act = a.app.act
                        /\ i.cmd.checked = i.act /\ i.cmd.wrote = i.act
    BY DEF AppliedIsTrue
  <2>1. a \in Applications /\ a.app.cmd.msg = m /\ a.app.cmd.act = a.app.act
    BY DEF ApplicationsOf, Joins, PlacesOf
  <2>5. a.app \in installed
    BY <2>1, ApplicationPlace
  <2>6. a.app \in Application
    BY <2>5 DEF EvidenceInv, LogTypeOK
  <2>7. /\ a.app.cmd.act <= a.app.cmd.checked
        /\ a.app.cmd.checked <= a.app.cmd.wrote
        /\ a.app.cmd.wrote <= a.app.act
    BY <2>5 DEF EvidenceInv, InstalledInv
  <2>8. a.app.act \in Nat /\ a.app.cmd.checked \in Nat /\ a.app.cmd.wrote \in Nat
    BY <2>6, BoundsAssumption DEF Application, Command, Activations
  <2> QED
    BY <2>1, <2>5, <2>7, <2>8
<1> QED
  BY <1>1, EvidenceInvariant, PTL

-----------------------------------------------------------------------------
(* One verdict a target. *)

\* Nothing is written in a step, though a message may arrive ...
NothingWritten ==
  /\ Written' \subseteq Written
  /\ \/ received' = received /\ (cb'.pc # "idle" => cb.pc # "idle")
     \/ received' = received + 1

\* ... or a callback, the last one entered, writes its own.
LastWritten ==
  /\ cb.pc = "write" /\ cb'.pc = "idle"
  /\ received' = received
  /\ Written' \subseteq Written \cup {buf'}
  /\ buf'.msg = received

(* Those are the steps there are. *)
LEMMA WritingStep ==
  ASSUME IInv, EvidenceInv, [LogNext]_allVars
  PROVE  NothingWritten \/ LastWritten
<1>1. CASE UNCHANGED vars /\ installed' = installed
  BY <1>1 DEF vars, NothingWritten, Written
<1>2. CASE UNCHANGED <<rtBuf, received, installed>> /\ cb' = cb
           /\ (buf' = buf \/ buf' = Hold(activation))
  <2>1. \A x \in Written' : x \in Written
    BY <1>2 DEF Written, Hold
  <2> QED
    BY <1>2, <2>1 DEF NothingWritten
<1>3. CASE UNCHANGED <<buf, rtBuf, installed>>
           /\ \/ received' = received + 1
              \/ received' = received /\ cb.pc # "idle"
  BY <1>3 DEF NothingWritten, Written
<1>4. CASE CallbackWrite /\ installed' = installed
  <2>1. cb.pc = "write" /\ cb'.pc = "idle" /\ received' = received /\ rtBuf' = rtBuf
        /\ buf' = [cb.cmd EXCEPT !.wrote = activation]
    BY <1>4 DEF CallbackWrite, Idle
  <2>2. cb.cmd.msg = received /\ cb.cmd \in Command
    BY <2>1 DEF IInv, TypeOK, ArrivalInv
  <2>3. buf'.msg = received
    BY <2>1, <2>2 DEF Command
  <2>4. Written' \subseteq Written \cup {buf'}
    BY <1>4, <2>1 DEF Written
  <2> QED
    BY <2>1, <2>3, <2>4 DEF LastWritten
<1>5. CASE CapturedUpdate
  <2>1. UNCHANGED <<buf, received, cb>> /\ rtBuf' \in {rtBuf, buf}
    BY <1>5 DEF CapturedUpdate, Update, UpdateError, UpdateTo, ReadFromRT
  <2>2. \A i \in installed' : i \in installed \/ i.cmd = rtBuf'
    BY <1>5 DEF CapturedUpdate, Capture
  <2>3. \A x \in Written' : x \in Written
    BY <2>1, <2>2 DEF Written
  <2> QED
    BY <2>1, <2>3 DEF NothingWritten
<1>6. CASE CallbackGoesOn
  BY <1>6, <1>3 DEF CallbackGoesOn, CallbackCheck, CallbackSequence, logVars, history
<1>7. CASE TakeMessage
  BY <1>7, <1>3 DEF TakeMessage, CallbackEnter, logVars, history
<1>8. CASE Emit
  BY <1>8, <1>3, <1>4 DEF Emit, CallbackReject
<1>9. CASE Configure \/ Switch \/ CleanupReset \/ EarlyUpdate
  BY <1>9, <1>2 DEF Configure, Switch, CleanupReset, EarlyUpdate, logVars, history,
       OnConfigure, OnCleanup, OnDeactivate, ActivateRefused, ActivateStore, ActivateHold,
       ActivateReset, ActivateCommand, UpdateNoState
<1>10. CASE UNCHANGED allVars \/ TimerDrain \/ CleanupDrain
            \/ \E t \in Threads : Popping(t) \/ PublishNowhere(t) \/ LoadId(t) \/ Publish(t)
  BY <1>10, <1>1 DEF allVars, logVars, history, TimerDrain, CleanupDrain, Drain, Popping,
       LoadRead, StoreRead, EndDrain, PublishNowhere, LoadId, Publish
<1> QED
  BY <1>5, <1>6, <1>7, <1>8, <1>9, <1>10 DEF LogNext, Popping

(* A target is written once. *)
LEMMA WrittenOnceStep ==
  ASSUME IInv, EvidenceInv, EvidenceInv', WrittenOnceInv, [LogNext]_allVars
  PROVE  WrittenOnceInv'
<1>1. received \in Nat
  BY BoundsAssumption DEF IInv, TypeOK, Targets
<1>2. Written \subseteq Command
  BY DEF Written, EvidenceInv, LogTypeOK, TypeOK, Application
<1>3. \A x \in Written : x.msg \in Nat
  BY <1>2, BoundsAssumption DEF Command, Targets
<1>4. CASE NothingWritten
  BY <1>1, <1>3, <1>4 DEF NothingWritten, WrittenOnceInv
<1>5. CASE LastWritten
  BY <1>1, <1>3, <1>5 DEF LastWritten, WrittenOnceInv
<1> QED
  BY <1>4, <1>5, WritingStep

(* A record is received at the end of the list. *)
LEMMA ReceivedStep ==
  ASSUME EvidenceInv, NEW r \in Record, records' = Append(records, r)
  PROVE  /\ Received' = Received \cup {r}
         /\ DOMAIN records' = DOMAIN records \cup {Len(records) + 1}
         /\ Len(records) + 1 \notin DOMAIN records
         /\ records'[Len(records) + 1] = r
         /\ \A i \in DOMAIN records : records'[i] = records[i]
<1>1. records \in Seq(Record)
  BY DEF EvidenceInv, LogTypeOK
<1>2. Received' = Received \cup {r}
  BY <1>1, RangeOfAppend DEF Received
<1>3. /\ DOMAIN records = 1..Len(records) /\ DOMAIN Append(records, r) = 1..(Len(records) + 1)
      /\ Len(records) \in Nat
      /\ Append(records, r)[Len(records) + 1] = r
      /\ \A i \in 1..Len(records) : Append(records, r)[i] = records[i]
  BY <1>1
<1> QED
  BY <1>2, <1>3

(* A step of a publication: what is received was in flight, and no longer is. *)
LEMMA ReportingStep ==
  ASSUME EvidenceInv, ReportedOnceInv, NEW t \in Threads,
         Popping(t) \/ PublishNowhere(t) \/ LoadId(t) \/ Publish(t)
  PROVE  ReportedOnceInv'
<1>1. UNCHANGED <<cb, received>>
  BY DEF Popping, LoadRead, StoreRead, EndDrain, PublishNowhere, LoadId, Publish, vars
<1>2. InFlight(t)
  BY DEF Popping, LoadRead, StoreRead, EndDrain, PublishNowhere, LoadId, Publish, InFlight, Draining
<1>3. /\ publishing \in [Threads -> Publication] /\ publishing[t].rec \in Record
      /\ publishing[t] \in [pc : {"pop", "copy", "begin", "publish"}, rec : Record]
  BY <1>2, UnderWay
<1>4. "executor" \in Threads /\ "manager" \in Threads /\ t \in {"executor", "manager"}
  BY DEF Threads
<1>5. CASE Popping(t) \/ LoadId(t)
  <2>1. \E p : /\ publishing' = [publishing EXCEPT ![t] = p]
               /\ p.pc \in {"pop", "copy", "begin", "publish"}
               /\ p.rec.event = publishing[t].rec.event
               /\ p.rec.event = "callback" => p.rec.msg = publishing[t].rec.msg
    <3>1. CASE Popping(t)
      <4>1. PICK p \in Publication : /\ publishing' = [publishing EXCEPT ![t] = p]
                                     /\ p.rec \in SamplesRecord
                                     /\ LoadRead(t) => p.pc = "copy"
                                     /\ StoreRead(t) => p.pc = "pop"
                                     /\ EndDrain(t) => p.pc = "begin"
        BY <3>1, PoppingShape
      <4>2. publishing[t].rec \in SamplesRecord
        BY <3>1, PoppingShape
      <4>3. p.rec.event = "samples" /\ publishing[t].rec.event = "samples"
        BY <4>1, <4>2 DEF SamplesRecord
      <4> QED
        BY <3>1, <4>1, <4>3 DEF Popping
    <3>2. CASE LoadId(t)
      <4> DEFINE r == publishing[t].rec
                 filled == [r EXCEPT !.id = evidenceId + 1, !.instance = instance]
                 p == [pc |-> "publish", rec |-> filled]
      <4>1. filled.event = r.event /\ (filled.event = "callback" => filled.msg = r.msg)
        BY <1>3 DEF Record, CallbackRecord, SamplesRecord
      <4>2. publishing' = [publishing EXCEPT ![t] = p]
        BY <3>2 DEF LoadId, Proceed
      <4> HIDE DEF filled
      <4>3. p.pc = "publish" /\ p.rec = filled
        OBVIOUS
      <4> QED
        BY <4>1, <4>2, <4>3
    <3> QED
      BY <1>5, <3>1, <3>2
  <2>2. records' = records
    BY <1>5 DEF LoadId, Popping, LoadRead, StoreRead, EndDrain
  <2>3. \A u \in Threads :
          /\ InFlight(u)' <=> InFlight(u)
          /\ InFlight(u) => /\ publishing'[u].rec.event = publishing[u].rec.event
                            /\ publishing[u].rec.event = "callback" =>
                                 publishing'[u].rec.msg = publishing[u].rec.msg
    BY <1>2, <1>3, <2>1 DEF InFlight, Draining
  <2>4. Callbacks' = Callbacks /\ \A m \in 1..MaxTargets : PlacesOf(m)' = PlacesOf(m)
    BY <2>2 DEF Callbacks, Received, PlacesOf
  <2> QED
    BY <1>1, <1>4, <2>3, <2>4 DEF ReportedOnceInv
<1>6. CASE PublishNowhere(t) \/ Publish(t)
  <2> DEFINE r == publishing[t].rec
  <2>1. \E p : publishing' = [publishing EXCEPT ![t] = p] /\ p.pc \in {"idle", "reset"}
    <3> DEFINE p == [pc |-> IF t = "manager" THEN "reset" ELSE "idle", rec |-> Nothing]
    <3>1. publishing' = [publishing EXCEPT ![t] = p]
      BY <1>6 DEF PublishNowhere, Publish, Return, Proceed
    <3>2. p.pc \in {"idle", "reset"}
      OBVIOUS
    <3> QED
      BY <3>1, <3>2
  <2>2. \A u \in Threads : InFlight(u)' => /\ u # t
                                           /\ InFlight(u) /\ publishing'[u] = publishing[u]
    BY <1>3, <2>1 DEF InFlight, Draining
  <2>3. CASE records' = records
    <3>1. Callbacks' = Callbacks /\ \A m \in 1..MaxTargets : PlacesOf(m)' = PlacesOf(m)
      BY <2>3 DEF Callbacks, Received, PlacesOf
    <3> QED
      BY <1>1, <1>4, <2>2, <3>1 DEF ReportedOnceInv
  <2>4. CASE records' = Append(records, r)
    <3>1. /\ Received' = Received \cup {r}
          /\ DOMAIN records' = DOMAIN records \cup {Len(records) + 1}
          /\ records'[Len(records) + 1] = r
          /\ \A i \in DOMAIN records : records'[i] = records[i]
      BY <1>3, <2>4, ReceivedStep
    <3>2. \A c \in Callbacks' : c \in Callbacks \/ (c = r /\ c.event = "callback")
      BY <3>1 DEF Callbacks
    <3>3. \A m \in 1..MaxTargets : \A i \in PlacesOf(m)' :
            i \in PlacesOf(m) \/ (i = Len(records) + 1 /\ r.event = "callback" /\ r.msg = m)
      BY <3>1 DEF PlacesOf
    <3>4. CASE t = "manager"
      <4>1. r.event # "callback"
        BY <1>2, <3>4 DEF ReportedOnceInv
      <4>2. /\ \A c \in Callbacks' : c \in Callbacks
            /\ \A m \in 1..MaxTargets : \A i \in PlacesOf(m)' : i \in PlacesOf(m)
        BY <3>2, <3>3, <4>1
      <4>3. /\ ~InFlight("manager")'
            /\ InFlight("executor")' =>
                 InFlight("executor") /\ publishing'["executor"] = publishing["executor"]
        BY <1>4, <2>2, <3>4
      <4> HIDE DEF r
      <4> QED
        BY <1>1, <4>2, <4>3 DEF ReportedOnceInv
    <3>5. CASE t = "executor"
      <4>1. cb.pc = "idle" /\ ~InFlight("executor")'
        BY <1>2, <1>4, <2>2, <3>5 DEF ReportedOnceInv
      <4>2. r.event = "callback" => r.msg <= received /\ \A c \in Callbacks : c.msg # r.msg
        BY <1>2, <3>5 DEF ReportedOnceInv
      <4>3. \A c \in Callbacks' : c.msg <= received
        BY <3>2, <4>2 DEF ReportedOnceInv
      <4>4. \A m \in 1..MaxTargets : \A i, j \in PlacesOf(m)' : i = j
        <5> SUFFICES ASSUME NEW m \in 1..MaxTargets, NEW i \in PlacesOf(m)', NEW j \in PlacesOf(m)'
                     PROVE  i = j
          OBVIOUS
        <5>1. CASE r.event = "callback" /\ r.msg = m
          <6>1. PlacesOf(m) = {}
            BY <4>2, <5>1 DEF PlacesOf, Callbacks, Received, Range
          <6> QED
            BY <3>3, <6>1
        <5>2. CASE ~(r.event = "callback" /\ r.msg = m)
          BY <3>3, <5>2 DEF ReportedOnceInv
        <5> QED
          BY <5>1, <5>2
      <4>5. InFlight("manager")' => InFlight("manager") /\ publishing'["manager"] = publishing["manager"]
        BY <1>4, <2>2
      <4> HIDE DEF r
      <4> QED
        BY <1>1, <4>1, <4>3, <4>4, <4>5 DEF ReportedOnceInv
    <3> QED
      BY <1>4, <3>4, <3>5
  <2> QED
    BY <1>6, <2>3, <2>4 DEF PublishNowhere, Publish, Save
<1> QED
  BY <1>5, <1>6

(* A publication begins, of a batch or of the callback that ends. *)
LEMMA ReportBegins ==
  ASSUME IInv, EvidenceInv, ReportedOnceInv, TimerDrain \/ CleanupDrain \/ Emit
  PROVE  ReportedOnceInv'
<1>1. /\ received' = received /\ records' = records /\ Callbacks' = Callbacks
      /\ \A m \in 1..MaxTargets : PlacesOf(m)' = PlacesOf(m)
      /\ publishing \in [Threads -> Publication] /\ received \in Nat
  <2>1. received' = received /\ records' = records
    BY DEF TimerDrain, CleanupDrain, Drain, Emit, CallbackWrite, CallbackReject, vars
  <2> QED
    BY <2>1, BoundsAssumption DEF Callbacks, Received, PlacesOf, EvidenceInv, LogTypeOK, IInv, TypeOK,
         Targets
<1>2. "executor" \in Threads /\ "manager" \in Threads /\ "executor" # "manager"
  BY DEF Threads
<1>3. CASE CleanupDrain
  <2>1. \E rec : /\ rec.event = "samples"
                 /\ publishing' = [publishing EXCEPT !["manager"] = [pc |-> "pop", rec |-> rec]]
    BY <1>3 DEF CleanupDrain, Drain, Begin, Proceed
  <2>2. publishing'["manager"].rec.event = "samples"
        /\ publishing'["executor"] = publishing["executor"] /\ cb' = cb
    BY <1>1, <1>2, <1>3, <2>1 DEF CleanupDrain, Drain, vars
  <2> QED
    BY <1>1, <2>2 DEF ReportedOnceInv, InFlight, Draining
<1>4. CASE TimerDrain
  <2>1. \E rec : /\ rec.event = "samples"
                 /\ publishing' = [publishing EXCEPT !["executor"] = [pc |-> "pop", rec |-> rec]]
    BY <1>4 DEF TimerDrain, Drain, Begin, Proceed
  <2>2. publishing'["executor"].rec.event = "samples"
        /\ publishing'["manager"] = publishing["manager"] /\ cb' = cb /\ cb.pc = "idle"
    BY <1>1, <1>2, <1>4, <2>1 DEF TimerDrain, Drain, ExecutorFree, vars
  <2> QED
    BY <1>1, <2>2 DEF ReportedOnceInv, InFlight, Draining
<1>5. CASE Emit
  <2>1. cb.pc # "idle" /\ cb'.pc = "idle"
    BY <1>5 DEF Emit, CallbackWrite, CallbackReject, Idle
  <2>2. cb.cmd.msg = received
    BY <2>1 DEF IInv, ArrivalInv
  <2>3. \E rec : /\ rec.msg = cb.cmd.msg
                 /\ publishing' = [publishing EXCEPT !["executor"] = [pc |-> "begin", rec |-> rec]]
    BY <1>5 DEF Emit, Begin, Proceed
  <2>4. publishing'["executor"].rec.msg = received /\ publishing'["manager"] = publishing["manager"]
    BY <1>1, <1>2, <2>2, <2>3
  <2>5. \A c \in Callbacks : c.msg < received /\ c.msg \in Nat
    <3>1. \A c \in Callbacks : c.msg \in Nat
      BY BoundsAssumption DEF Callbacks, Received, Range, EvidenceInv, LogTypeOK, Record, CallbackRecord,
           SamplesRecord, Targets
    <3> QED
      BY <2>1, <3>1 DEF ReportedOnceInv
  <2>6. \A c \in Callbacks : c.msg <= received /\ c.msg # received
    BY <1>1, <2>5
  <2> QED
    BY <1>1, <2>1, <2>4, <2>6 DEF ReportedOnceInv, InFlight, Draining
<1> QED
  BY <1>3, <1>4, <1>5

(* The executor is free when it takes a message; the other steps of the      *)
(* controller have no part in the reports. *)
LEMMA OtherReportStep ==
  ASSUME IInv, EvidenceInv, ReportedOnceInv, records' = records,
         \/ TakeMessage
         \/ CallbackGoesOn
         \/ UNCHANGED <<cb, received>> /\ UNCHANGED publishing
         \/ UNCHANGED <<cb, received>> /\ publishing' = [publishing EXCEPT !["manager"] = Quiet]
  PROVE  ReportedOnceInv'
<1>1. /\ Callbacks' = Callbacks /\ \A m \in 1..MaxTargets : PlacesOf(m)' = PlacesOf(m)
      /\ received \in Nat /\ publishing \in [Threads -> Publication]
      /\ "executor" \in Threads /\ "manager" \in Threads
  BY BoundsAssumption DEF Callbacks, Received, PlacesOf, EvidenceInv, LogTypeOK, IInv, TypeOK, Targets, Threads
<1>2. \A c \in Callbacks : c.msg \in Nat
  BY BoundsAssumption DEF Callbacks, Received, Range, EvidenceInv, LogTypeOK, Record, CallbackRecord,
       SamplesRecord, Targets
<1>3. CASE TakeMessage
  <2>1. received' = received + 1 /\ publishing' = publishing /\ ~InFlight("executor")
    BY <1>3 DEF TakeMessage, CallbackEnter, ExecutorFree, InFlight, Draining, logVars
  <2>2. \A c \in Callbacks : c.msg <= received' /\ c.msg < received'
    BY <1>1, <1>2, <2>1 DEF ReportedOnceInv
  <2> QED
    BY <1>1, <2>1, <2>2 DEF ReportedOnceInv, InFlight, Draining
<1>4. CASE CallbackGoesOn
  <2>1. received' = received /\ publishing' = publishing /\ cb.pc # "idle"
    BY <1>4 DEF CallbackGoesOn, CallbackCheck, CallbackSequence, logVars
  <2> QED
    BY <1>1, <2>1 DEF ReportedOnceInv, InFlight, Draining
<1>5. CASE UNCHANGED <<cb, received>> /\ UNCHANGED publishing
  BY <1>1, <1>5 DEF ReportedOnceInv, InFlight, Draining
<1>6. CASE UNCHANGED <<cb, received>> /\ publishing' = [publishing EXCEPT !["manager"] = Quiet]
  <2>1. ~InFlight("manager")' /\ publishing'["executor"] = publishing["executor"]
    BY <1>1, <1>6 DEF InFlight, Draining, Quiet
  <2> QED
    BY <1>1, <1>6, <2>1 DEF ReportedOnceInv, InFlight, Draining
<1> QED
  BY <1>3, <1>4, <1>5, <1>6

(* A target is reported once. *)
LEMMA ReportedOnceStep ==
  ASSUME IInv, EvidenceInv, ReportedOnceInv, [LogNext]_allVars
  PROVE  ReportedOnceInv'
<1>1. CASE \E t \in Threads : Popping(t) \/ PublishNowhere(t) \/ LoadId(t) \/ Publish(t)
  BY <1>1, ReportingStep
<1>2. CASE TimerDrain \/ CleanupDrain \/ Emit
  BY <1>2, ReportBegins
<1>3. CASE TakeMessage \/ CallbackGoesOn
  BY <1>3, OtherReportStep DEF TakeMessage, CallbackGoesOn, logVars
<1>4. CASE CapturedUpdate \/ EarlyUpdate \/ Switch \/ Configure \/ UNCHANGED allVars
  <2>1. UNCHANGED <<cb, received>> /\ UNCHANGED publishing /\ records' = records
    BY <1>4 DEF CapturedUpdate, Update, UpdateError, UpdateTo, EarlyUpdate, UpdateNoState,
         Switch, Configure, OnConfigure, OnDeactivate, ActivateRefused, ActivateStore,
         ActivateHold, ActivateReset, ActivateCommand, logVars, allVars, vars
  <2> QED
    BY <2>1, OtherReportStep
<1>5. CASE CleanupReset
  BY <1>5, OtherReportStep DEF CleanupReset, OnCleanup
<1> QED
  BY <1>1, <1>2, <1>3, <1>4, <1>5 DEF LogNext, Popping

(* One command and one callback record a target. *)
THEOREM OnceInvariant == LogSpec => []OnceInv
<1>1. LogInit => OnceInv
  <2> SUFFICES ASSUME LogInit PROVE OnceInv
    OBVIOUS
  <2>1. Written = {}
    BY DEF LogInit, Init, Written, Hold
  <2>2. /\ Callbacks = {} /\ ~InFlight("manager") /\ ~InFlight("executor")
        /\ \A m \in 1..MaxTargets : PlacesOf(m) = {}
    BY DEF LogInit, Callbacks, Received, Range, PlacesOf, InFlight, Draining, Quiet, Threads
  <2> QED
    BY <2>1, <2>2 DEF OnceInv, WrittenOnceInv, ReportedOnceInv
<1>2. IInv /\ EvidenceInv /\ EvidenceInv' /\ OnceInv /\ [LogNext]_allVars => OnceInv'
  BY WrittenOnceStep, ReportedOnceStep DEF OnceInv
<1> QED
  BY <1>1, <1>2, EvidenceInvariant, IsAController, InductiveInvariant, PTL DEF LogSpec

(* Once at most, a set's members are one. *)
LEMMA AtMostOne ==
  ASSUME NEW S, \A x, y \in S : x = y
  PROVE  ~(Cardinality(S) > 1)
<1>1. CASE S = {}
  BY <1>1, FS_EmptySet
<1>2. CASE S # {}
  <2>1. PICK x \in S : TRUE
    BY <1>2
  <2>2. S = {x}
    BY <2>1
  <2>3. Cardinality(S) = 1
    BY <2>2, FS_Singleton
  <2> QED
    BY <2>3
<1> QED
  BY <1>1, <1>2

-----------------------------------------------------------------------------
(* Nothing is lost unseen. *)

(* A record is what its kind says, and speaks of what was installed. *)
LEMMA ReportsAreTrue ==
  ASSUME EvidenceInv
  PROVE  /\ Reports \subseteq Record
         /\ Received \subseteq Given /\ Given \subseteq Counted /\ Counted \subseteq Reports
         /\ \A b \in BatchesIn(Reports) : b \in SamplesRecord /\ AppsOf(b) \subseteq installed
         /\ \A c \in Reports : c.event = "callback" => c \in CallbackRecord
         /\ \A t \in Threads : InFlight(t) =>
              publishing[t].rec \in Reports /\ (Answers(t) \/ Carries(t))
         /\ \A r \in Reports : r \in Received \/ \E t \in Threads : InFlight(t) /\ r = publishing[t].rec
<1>1. \A t \in Threads : InFlight(t) =>
         publishing[t].rec \in Record /\ Truthful(publishing[t].rec)
  BY UnderWay
<1>2. \A r \in Received : r \in Record /\ Truthful(r)
  <2>1. records \in Seq(Record)
    BY DEF EvidenceInv, LogTypeOK
  <2>2. \A i \in DOMAIN records : records[i] \in Record
    BY <2>1
  <2> QED
    BY <2>2 DEF Received, Range, EvidenceInv, CarriedInv
<1>3. \A r \in Reports : r \in Record /\ Truthful(r)
  BY <1>1, <1>2 DEF Reports
<1>4. Received \subseteq Given /\ Given \subseteq Counted /\ Counted \subseteq Reports
  <2>1. \A t \in Threads : publishing[t].pc = "publish" => InFlight(t) /\ ~Draining(t)
    BY DEF InFlight, Draining
  <2> QED
    BY <2>1 DEF Given, Counted, Reports
<1>5. \A r \in Reports : /\ r.event = "samples" => r \in SamplesRecord
                         /\ r.event = "callback" => r \in CallbackRecord
                         /\ r.event \in {"samples", "callback"}
  BY <1>3 DEF Record, SamplesRecord, CallbackRecord
<1>6. \A b \in BatchesIn(Reports) : b \in SamplesRecord /\ AppsOf(b) \subseteq installed
  BY <1>3, <1>5 DEF BatchesIn, Truthful
<1>7. \A t \in Threads : InFlight(t) =>
              publishing[t].rec \in Reports /\ (Answers(t) \/ Carries(t))
  <2> SUFFICES ASSUME NEW t \in Threads, InFlight(t)
               PROVE  publishing[t].rec \in Reports /\ (Answers(t) \/ Carries(t))
    OBVIOUS
  <2>1. publishing[t].rec \in Reports
    BY DEF Reports
  <2> QED
    BY <1>5, <2>1 DEF Answers, Carries
<1>8. \A r \in Reports : r \in Received \/ \E t \in Threads : InFlight(t) /\ r = publishing[t].rec
  BY DEF Reports
<1> QED
  BY <1>3, <1>4, <1>5, <1>6, <1>7, <1>8

(* One thread's record changes, and stays under way. *)
LEMMA ChangeShape ==
  ASSUME EvidenceInv, NEW t \in Threads, InFlight(t), NEW p,
         publishing' = [publishing EXCEPT ![t] = p], p.pc \in {"pop", "copy", "begin", "publish"},
         p.rec.event = publishing[t].rec.event, records' = records,
         p.pc \in {"pop", "copy"} => Draining(t)
  PROVE  /\ publishing'[t] = p /\ InFlight(t)'
         /\ \A u \in Threads : u # t => publishing'[u] = publishing[u]
         /\ \A u \in Threads : /\ InFlight(u)' <=> InFlight(u)
                               /\ Draining(u)' => Draining(u)
                               /\ Carries(u)' <=> Carries(u)
                               /\ Answers(u)' <=> Answers(u)
         /\ Received' = Received /\ Batches' = Batches /\ Callbacks' = Callbacks
         /\ Reports' \subseteq Reports \cup {p.rec} /\ p.rec \in Reports'
         /\ \A q \in Reports : q \in Reports' \/ q = publishing[t].rec
         /\ Counted' \subseteq Counted \cup {p.rec}
         /\ p.pc \in {"pop", "copy"} => Counted' \subseteq Counted
         /\ Given' \subseteq Given \cup {p.rec}
         /\ p.pc # "publish" => Given' \subseteq Given
<1>1. publishing \in [Threads -> Publication]
  BY UnderWay
<1>2. publishing'[t] = p /\ \A u \in Threads : u # t => publishing'[u] = publishing[u]
  BY <1>1
<1>3. InFlight(t)' /\ (Draining(t)' <=> p.pc \in {"pop", "copy"})
  BY <1>2 DEF InFlight, Draining
<1>4. \A u \in Threads : u # t => (InFlight(u)' <=> InFlight(u)) /\ (Draining(u)' <=> Draining(u))
  BY <1>2 DEF InFlight, Draining
<1>5. \A u \in Threads : /\ InFlight(u)' <=> InFlight(u)
                         /\ Draining(u)' => Draining(u)
                         /\ publishing'[u].rec.event = publishing[u].rec.event
  BY <1>2, <1>3, <1>4
<1>6. \A u \in Threads : (Carries(u)' <=> Carries(u)) /\ (Answers(u)' <=> Answers(u))
  BY <1>5 DEF Carries, Answers
<1>7. Received' = Received /\ Batches' = Batches /\ Callbacks' = Callbacks
  BY DEF Received, Batches, Callbacks
<1>8. Reports' \subseteq Reports \cup {p.rec} /\ p.rec \in Reports'
  BY <1>2, <1>3, <1>5, <1>7 DEF Reports
<1>9. \A q \in Reports : q \in Reports' \/ q = publishing[t].rec
  BY <1>2, <1>5, <1>7 DEF Reports
<1>10. /\ Counted' \subseteq Counted \cup {p.rec}
       /\ p.pc \in {"pop", "copy"} => Counted' \subseteq Counted
  BY <1>2, <1>3, <1>4, <1>7 DEF Counted
<1>11. /\ Given' \subseteq Given \cup {p.rec}
       /\ p.pc # "publish" => Given' \subseteq Given
  BY <1>2, <1>7 DEF Given
<1> QED
  BY <1>2, <1>3, <1>5, <1>6, <1>7, <1>8, <1>9, <1>10, <1>11

\* What a step of a publication leaves alone.
Passive ==
  /\ UNCHANGED <<vars, ring, read, droppedApps, instance, installed, overlapped, drainsMet>>
  /\ Ringed' = Ringed
  /\ BatchesIn(Received) \subseteq Batches'
  /\ Received \subseteq Received'

(* A record gets its ID and its instance. *)
LEMMA LoadShape ==
  ASSUME EvidenceInv, NEW t \in Threads, LoadId(t)
  PROVE  \E f \in Record :
           /\ f.event = publishing[t].rec.event
           /\ f.id = evidenceId + 1 /\ f.instance = instance
           /\ Answers(t) => /\ f.msg = publishing[t].rec.msg
                            /\ f.act = publishing[t].rec.act
                            /\ f.seq = publishing[t].rec.seq
                            /\ f.accepted = publishing[t].rec.accepted
           /\ Carries(t) => /\ f.apps = publishing[t].rec.apps /\ AppsOf(f) \subseteq Live
                            /\ AppsOf(f) = AppsOf(publishing[t].rec)
                            /\ f.dropped = publishing[t].rec.dropped
           /\ InFlight(t) /\ ~Draining(t) /\ publishing[t].rec \in Counted
           /\ publishing'[t] = [pc |-> "publish", rec |-> f]
           /\ \A u \in Threads : u # t => publishing'[u] = publishing[u]
           /\ \A u \in Threads : /\ InFlight(u)' <=> InFlight(u)
                                 /\ Draining(u)' <=> Draining(u)
                                 /\ Carries(u)' <=> Carries(u)
                                 /\ Answers(u)' <=> Answers(u)
           /\ Received' = Received /\ Batches' = Batches /\ Callbacks' = Callbacks
           /\ Reports' \subseteq Reports \cup {f} /\ f \in Reports'
           /\ \A q \in Reports : q \in Reports' \/ q = publishing[t].rec
           /\ Counted' \subseteq Counted \cup {f}
           /\ Given' \subseteq Given \cup {f}
           /\ Live' \subseteq Live
           /\ Passive /\ records' = records /\ from' = from /\ evidenceId' = evidenceId
<1> DEFINE r == publishing[t].rec
           f == [r EXCEPT !.id = evidenceId + 1, !.instance = instance]
           p == [pc |-> "publish", rec |-> f]
<1>1. InFlight(t) /\ ~Draining(t) /\ publishing[t].pc = "begin" /\ r \in Counted
  BY DEF LoadId, InFlight, Draining, Counted
<1>2. /\ publishing \in [Threads -> Publication]
      /\ publishing[t] \in [pc : {"pop", "copy", "begin", "publish"}, rec : Record] /\ r \in Record
  BY <1>1, UnderWay
<1>3. f \in Record
  <2>1. evidenceId + 1 \in Nat /\ instance \in Nat
    BY LogAssumption DEF EvidenceInv, LogTypeOK
  <2> QED
    BY <1>2, <2>1, Identified
<1>4. /\ f.event = r.event /\ f.id = evidenceId + 1 /\ f.instance = instance
      /\ Answers(t) => f.msg = r.msg /\ f.act = r.act /\ f.seq = r.seq /\ f.accepted = r.accepted
      /\ Carries(t) => f.apps = r.apps /\ f.dropped = r.dropped
  BY <1>2 DEF Record, CallbackRecord, SamplesRecord, Answers, Carries
<1>5. publishing' = [publishing EXCEPT ![t] = p]
  BY DEF LoadId, Proceed
<1>6. /\ UNCHANGED <<vars, ring, read, from, droppedApps, instance, installed, overlapped, drainsMet>>
      /\ records' = records /\ evidenceId' = evidenceId
  BY DEF LoadId, history
<1> HIDE DEF f
<1>7. p.pc = "publish" /\ p.rec = f
  OBVIOUS
<1>8. /\ publishing'[t] = p /\ InFlight(t)'
      /\ \A u \in Threads : u # t => publishing'[u] = publishing[u]
      /\ \A u \in Threads : /\ InFlight(u)' <=> InFlight(u)
                            /\ Draining(u)' => Draining(u)
                            /\ Carries(u)' <=> Carries(u)
                            /\ Answers(u)' <=> Answers(u)
      /\ Received' = Received /\ Batches' = Batches /\ Callbacks' = Callbacks
      /\ Reports' \subseteq Reports \cup {f} /\ f \in Reports'
      /\ \A q \in Reports : q \in Reports' \/ q = publishing[t].rec
      /\ Counted' \subseteq Counted \cup {f}
      /\ Given' \subseteq Given \cup {f}
  <2> HIDE DEF p
  <2> QED
    BY <1>1, <1>4, <1>5, <1>6, <1>7, ChangeShape
<1>9. \A u \in Threads : Draining(u)' <=> Draining(u)
  BY <1>1, <1>8 DEF Draining
<1>10. Carries(t) => AppsOf(f) = AppsOf(r)
  BY <1>4 DEF AppsOf
<1>11. Carries(t) => AppsOf(f) \subseteq Live
  BY <1>1, <1>10 DEF Live
<1>12. Ringed' = Ringed
  BY <1>6 DEF Ringed
<1>13. Live' \subseteq Live
  <2>1. \A u \in Threads : publishing'[u].pc # "publish" =>
           u # t /\ publishing'[u] = publishing[u] /\ AppsOf(publishing[u].rec)' = AppsOf(publishing[u].rec)
    BY <1>7, <1>8 DEF AppsOf
  <2> QED
    BY <1>8, <1>12, <2>1 DEF Live
<1>14. Passive
  BY <1>6, <1>8, <1>12 DEF Passive, BatchesIn, Batches
<1> QED
  BY <1>1, <1>3, <1>4, <1>6, <1>8, <1>9, <1>10, <1>11, <1>13, <1>14

(* A record leaves its thread: received, lost, or gone nowhere. *)
LEMMA LeaveShape ==
  ASSUME EvidenceInv, NEW t \in Threads, PublishNowhere(t) \/ Publish(t)
  PROVE  /\ InFlight(t) /\ ~InFlight(t)' /\ ~Draining(t)
         /\ publishing[t].rec \in Record
         /\ \A u \in Threads : u # t => publishing'[u] = publishing[u]
         /\ \A u \in Threads : /\ InFlight(u)' => u # t /\ InFlight(u)
                               /\ Draining(u)' <=> Draining(u)
         /\ t = "manager" => publishing'[t].pc = "reset"
         /\ t = "executor" => publishing'[t].pc = "idle"
         /\ Reports' \subseteq Reports
         /\ \A r \in Reports : r \in Reports' \/ r = publishing[t].rec
         /\ Counted' \subseteq Counted
         /\ Given' \subseteq Given
         /\ Live' \subseteq Live
         /\ Passive /\ from' = from
         /\ records' = records \/ records' = Append(records, publishing[t].rec)
         /\ PublishNowhere(t) => records' = records /\ evidenceId' = evidenceId /\ ~Subscribed
         /\ Publish(t) => /\ publishing[t].pc = "publish"
                          /\ Received' \subseteq Received \cup {publishing[t].rec}
                          /\ evidenceId' = publishing[t].rec.id
<1> DEFINE r == publishing[t].rec
           p == [pc |-> IF t = "manager" THEN "reset" ELSE "idle", rec |-> Nothing]
<1>1. InFlight(t) /\ ~Draining(t)
  BY DEF PublishNowhere, Publish, InFlight, Draining
<1>2. publishing \in [Threads -> Publication] /\ r \in Record
  BY <1>1, UnderWay
<1>3. publishing' = [publishing EXCEPT ![t] = p]
  BY DEF PublishNowhere, Publish, Return, Proceed
<1>4. /\ p.pc \in {"reset", "idle"}
      /\ t = "manager" => p.pc = "reset"
      /\ t = "executor" => p.pc = "idle"
  OBVIOUS
<1> HIDE DEF p
<1>5. publishing'[t] = p /\ \A u \in Threads : u # t => publishing'[u] = publishing[u]
  BY <1>2, <1>3
<1>6. /\ ~InFlight(t)' /\ ~Draining(t)'
      /\ \A u \in Threads : u # t => (InFlight(u)' <=> InFlight(u)) /\ (Draining(u)' <=> Draining(u))
  BY <1>4, <1>5 DEF InFlight, Draining
<1>7. /\ PublishNowhere(t) => records' = records /\ evidenceId' = evidenceId /\ ~Subscribed
      /\ Publish(t) => publishing[t].pc = "publish" /\ evidenceId' = r.id
      /\ records' = records \/ records' = Append(records, r)
      /\ UNCHANGED <<vars, ring, read, from, droppedApps, instance, installed, overlapped, drainsMet>>
  BY DEF PublishNowhere, Publish, Save, Publisher, history
<1>8. Received \subseteq Received' /\ Received' \subseteq Received \cup {r}
      /\ (records' = records => Received' = Received)
  <2>1. CASE records' = records
    BY <2>1 DEF Received
  <2>2. CASE records' = Append(records, r)
    <3>1. Received' = Received \cup {r}
      BY <1>2, <2>2, ReceivedStep
    <3>2. CASE records' = records
      BY <3>1, <3>2 DEF Received
    <3> QED
      BY <3>1, <3>2
  <2> QED
    BY <1>7, <2>1, <2>2
<1>9. Reports' \subseteq Reports
  BY <1>1, <1>5, <1>6, <1>8 DEF Reports
<1>10. \A q \in Reports : q \in Reports' \/ q = r
  BY <1>5, <1>6, <1>8 DEF Reports
<1>11. Counted' \subseteq Counted
  BY <1>1, <1>5, <1>6, <1>8 DEF Counted
<1>12. Given' \subseteq Given
  <2>1. Received' \subseteq Given
    <3>1. CASE Publish(t)
      BY <1>7, <1>8, <3>1 DEF Given
    <3>2. CASE PublishNowhere(t)
      BY <1>7, <1>8, <3>2 DEF Given
    <3> QED
      BY <3>1, <3>2
  <2>2. \A u \in Threads : publishing'[u].pc = "publish" =>
           publishing[u].pc = "publish" /\ publishing'[u].rec = publishing[u].rec
    BY <1>4, <1>5
  <2> QED
    BY <2>1, <2>2 DEF Given
<1>13. Ringed' = Ringed
  BY <1>7 DEF Ringed
<1>14. Live' \subseteq Live
  <2>1. \A u \in Threads : Carries(u)' =>
           /\ u # t /\ Carries(u) /\ publishing'[u] = publishing[u]
           /\ AppsOf(publishing[u].rec)' = AppsOf(publishing[u].rec)
    BY <1>5, <1>6 DEF Carries, AppsOf
  <2> QED
    BY <1>13, <2>1 DEF Live
<1>15. Passive
  BY <1>7, <1>8, <1>13 DEF Passive, BatchesIn, Batches
<1> QED
  BY <1>1, <1>2, <1>4, <1>5, <1>6, <1>7, <1>8, <1>9, <1>10, <1>11, <1>12, <1>14, <1>15

(* A record enters a thread. *)
LEMMA EnterShape ==
  ASSUME EvidenceInv, NEW t \in Threads, NEW step \in {"pop", "begin"}, NEW rec,
         Begin(t, step, rec), records' = records
  PROVE  /\ publishing'[t] = [pc |-> step, rec |-> rec] /\ InFlight(t)'
         /\ \A u \in Threads : u # t => publishing'[u] = publishing[u]
         /\ \A u \in Threads : u # t => (Draining(u)' <=> Draining(u)) /\ (InFlight(u)' <=> InFlight(u))
         /\ Received' = Received /\ Batches' = Batches /\ Callbacks' = Callbacks
         /\ Reports' \subseteq Reports \cup {rec} /\ rec \in Reports'
         /\ Counted' \subseteq Counted \cup {rec}
         /\ step = "pop" => Counted' \subseteq Counted
         /\ Given' \subseteq Given
         /\ ~overlapped' => /\ ~overlapped
                            /\ \A u \in Threads : ~InFlight(u)
                            /\ Reports = Received /\ Received \subseteq Reports'
                            /\ \A u \in Threads : InFlight(u)' => u = t
<1>1. publishing \in [Threads -> Publication]
  BY DEF EvidenceInv, LogTypeOK
<1>2. /\ publishing'[t] = [pc |-> step, rec |-> rec]
      /\ \A u \in Threads : u # t => publishing'[u] = publishing[u]
  BY <1>1 DEF Begin, Proceed
<1>3. /\ InFlight(t)' /\ (step = "pop" => Draining(t)')
      /\ \A u \in Threads : u # t => (Draining(u)' <=> Draining(u)) /\ (InFlight(u)' <=> InFlight(u))
  BY <1>2 DEF InFlight, Draining
<1>4. Received' = Received /\ Batches' = Batches /\ Callbacks' = Callbacks
  BY DEF Received, Batches, Callbacks
<1>5. Reports' \subseteq Reports \cup {rec} /\ rec \in Reports' /\ Received \subseteq Reports'
  BY <1>2, <1>3, <1>4 DEF Reports
<1>6. Counted' \subseteq Counted \cup {rec} /\ (step = "pop" => Counted' \subseteq Counted)
  BY <1>2, <1>3, <1>4 DEF Counted
<1>7. Given' \subseteq Given
  <2>1. publishing'[t].pc # "publish"
    BY <1>2
  <2> QED
    BY <1>2, <1>4, <2>1 DEF Given
<1>8. ~overlapped' => ~overlapped /\ \A u \in Threads : ~InFlight(u)
  BY DEF Begin
<1>9. (\A u \in Threads : ~InFlight(u)) => Reports = Received
  BY DEF Reports
<1> QED
  BY <1>2, <1>3, <1>4, <1>5, <1>6, <1>7, <1>8, <1>9

(* A drain begins with nothing. *)
LEMMA DrainShape ==
  ASSUME EvidenceInv, NEW t \in Threads, Drain(t)
  PROVE  \E rec \in SamplesRecord :
           /\ rec.event = "samples" /\ rec.apps = <<>> /\ AppsOf(rec) = {}
           /\ Begin(t, "pop", rec) /\ records' = records
           /\ drainsMet' = (drainsMet \/ \E u \in Threads : Draining(u))
           /\ UNCHANGED <<vars, ring, read, from, droppedApps, instance, evidenceId, installed>>
           /\ Ringed' = Ringed
<1> DEFINE rec == [event |-> "samples", instance |-> 0, id |-> 0, apps |-> <<>>, dropped |-> 0]
<1>1. rec \in SamplesRecord /\ rec.event = "samples" /\ rec.apps = <<>>
  BY DEF SamplesRecord
<1>2. /\ Begin(t, "pop", rec) /\ records' = records
      /\ drainsMet' = (drainsMet \/ \E u \in Threads : Draining(u))
      /\ UNCHANGED <<vars, ring, read, from, droppedApps, instance, evidenceId, installed>>
  BY DEF Drain
<1> HIDE DEF rec
<1>3. AppsOf(rec) = {}
  BY <1>1 DEF AppsOf, Range
<1>4. Ringed' = Ringed
  BY <1>2 DEF Ringed
<1> QED
  BY <1>1, <1>2, <1>3, <1>4

(* A drain that has begun goes on: one sample more, or none. *)
LEMMA PopShape ==
  ASSUME EvidenceInv, NEW t \in Threads, Popping(t)
  PROVE  \E f \in SamplesRecord :
           /\ f.event = "samples" /\ publishing'[t].rec = f /\ publishing'[t].pc # "publish"
           /\ Draining(t) /\ Carries(t) /\ publishing[t].rec \in BatchesIn(Reports)
           /\ publishing[t].rec \in SamplesRecord
           /\ \A u \in Threads : u # t => publishing'[u] = publishing[u]
           /\ \A u \in Threads : /\ InFlight(u)' <=> InFlight(u)
                                 /\ Draining(u)' => Draining(u)
                                 /\ Carries(u)' <=> Carries(u)
                                 /\ Answers(u)' <=> Answers(u)
           /\ Received' = Received /\ Batches' = Batches /\ Callbacks' = Callbacks
           /\ Reports' \subseteq Reports \cup {f} /\ f \in Reports'
           /\ \A q \in Reports : q \in Reports' \/ q = publishing[t].rec
           /\ EndDrain(t) => /\ Counted' \subseteq Counted \cup {f} /\ f.dropped = droppedApps
                             /\ read = Len(ring) \/ t = "executor" \/ drainsMet
           /\ ~EndDrain(t) => Counted' \subseteq Counted /\ Draining(t)'
           /\ Given' \subseteq Given
           /\ UNCHANGED <<vars, ring, droppedApps, instance, installed, overlapped, drainsMet>>
           /\ records' = records /\ evidenceId' = evidenceId
           /\ \/ /\ StoreRead(t) /\ publishing[t].pc = "copy"
                 /\ from[t] \in Nat /\ from[t] < Len(ring) /\ ring[from[t] + 1] \in Application
                 /\ f.apps = Append(publishing[t].rec.apps, ring[from[t] + 1])
                 /\ AppsOf(f) = AppsOf(publishing[t].rec) \cup {ring[from[t] + 1]}
                 /\ read' = from[t] + 1 /\ from' = [from EXCEPT ![t] = 0]
                 /\ publishing'[t].pc = "pop"
              \/ /\ ~StoreRead(t) /\ f.apps = publishing[t].rec.apps
                 /\ AppsOf(f) = AppsOf(publishing[t].rec)
                 /\ read' = read /\ Ringed' = Ringed
                 /\ publishing'[t].pc = "copy" => from' = [from EXCEPT ![t] = read]
                 /\ publishing'[t].pc # "copy" => from' = from
<1> DEFINE r == publishing[t].rec
<1>1. Draining(t) /\ InFlight(t) /\ r \in SamplesRecord
  BY PoppingShape
<1>2. PICK p \in Publication :
              /\ publishing' = [publishing EXCEPT ![t] = p]
              /\ p.rec \in SamplesRecord
              /\ LoadRead(t) =>
                   /\ publishing[t].pc = "pop" /\ p = [pc |-> "copy", rec |-> r]
              /\ StoreRead(t) =>
                   /\ publishing[t].pc = "copy" /\ p.pc = "pop"
                   /\ from[t] \in Nat /\ from[t] < Len(ring) /\ ring[from[t] + 1] \in Application
                   /\ p.rec.apps = Append(r.apps, ring[from[t] + 1])
                   /\ AppsOf(p.rec) = AppsOf(r) \cup {ring[from[t] + 1]}
                   /\ p.rec.dropped = r.dropped
              /\ EndDrain(t) =>
                   /\ publishing[t].pc = "pop" /\ p.pc = "begin" /\ p.rec.dropped = droppedApps
                   /\ p.rec.apps = r.apps
  BY PoppingShape
<1>3. p.rec.event = "samples" /\ r.event = "samples"
  BY <1>1, <1>2 DEF SamplesRecord
<1>4. /\ LoadRead(t) => p.pc = "copy" /\ p.rec = r
      /\ p.pc \in {"pop", "copy", "begin"}
  BY <1>2 DEF Popping
<1>5. records' = records /\ evidenceId' = evidenceId
  BY DEF Popping, LoadRead, StoreRead, EndDrain
<1>6. UNCHANGED <<vars, ring, droppedApps, instance, installed, overlapped, drainsMet>>
  BY DEF Popping, LoadRead, StoreRead, EndDrain, history
<1>7. /\ publishing'[t] = p /\ InFlight(t)'
      /\ \A u \in Threads : u # t => publishing'[u] = publishing[u]
      /\ \A u \in Threads : /\ InFlight(u)' <=> InFlight(u)
                            /\ Draining(u)' => Draining(u)
                            /\ Carries(u)' <=> Carries(u)
                            /\ Answers(u)' <=> Answers(u)
      /\ Received' = Received /\ Batches' = Batches /\ Callbacks' = Callbacks
      /\ Reports' \subseteq Reports \cup {p.rec} /\ p.rec \in Reports'
      /\ \A q \in Reports : q \in Reports' \/ q = r
      /\ Counted' \subseteq Counted \cup {p.rec}
      /\ p.pc \in {"pop", "copy"} => Counted' \subseteq Counted
      /\ p.pc # "publish" => Given' \subseteq Given
  BY <1>1, <1>2, <1>3, <1>4, <1>5, ChangeShape
<1>8. Carries(t) /\ r \in BatchesIn(Reports)
  BY <1>1, <1>3 DEF Carries, BatchesIn, Reports
<1>9. /\ EndDrain(t) => read = Len(ring) \/ t = "executor" \/ drainsMet
      /\ ~EndDrain(t) => p.pc \in {"pop", "copy"} /\ Draining(t)'
  <2>1. ~EndDrain(t) => p.pc \in {"pop", "copy"}
    BY <1>2, <1>4 DEF Popping
  <2> QED
    BY <1>7, <2>1 DEF EndDrain, Draining
<1>10. CASE StoreRead(t)
  <2>1. read' = from[t] + 1 /\ from' = [from EXCEPT ![t] = 0]
    BY <1>10 DEF StoreRead
  <2>2. ~EndDrain(t)
    BY <1>2, <1>10
  <2> QED
    BY <1>1, <1>2, <1>3, <1>4, <1>5, <1>6, <1>7, <1>8, <1>9, <1>10, <2>1, <2>2
<1>11. CASE ~StoreRead(t)
  <2>1. LoadRead(t) \/ EndDrain(t)
    BY <1>11 DEF Popping
  <2>2. /\ read' = read
        /\ p.pc = "copy" => from' = [from EXCEPT ![t] = read]
        /\ p.pc # "copy" => from' = from
    BY <1>2, <1>4, <2>1 DEF LoadRead, EndDrain
  <2>3. p.rec.apps = r.apps /\ AppsOf(p.rec) = AppsOf(r)
    BY <1>2, <1>4, <2>1 DEF AppsOf
  <2>4. Ringed' = Ringed
    BY <1>6, <2>2 DEF Ringed
  <2>5. EndDrain(t) => p.rec.dropped = droppedApps
    BY <1>2
  <2> QED
    BY <1>1, <1>2, <1>3, <1>4, <1>5, <1>6, <1>7, <1>8, <1>9, <1>11, <2>2, <2>3, <2>4, <2>5
<1> QED
  BY <1>10, <1>11

\* The steps that take no part in a publication.
Still ==
  \/ TakeMessage \/ CallbackGoesOn \/ EarlyUpdate \/ Switch \/ CapturedUpdate
  \/ Configure \/ CleanupReset \/ UNCHANGED allVars

(* They leave the records where they are. *)
LEMMA StillShape ==
  ASSUME EvidenceInv, Still
  PROVE  /\ records' = records /\ Reports' = Reports /\ Counted' = Counted /\ Given' = Given
         /\ Received' = Received /\ Batches' = Batches /\ Callbacks' = Callbacks
         /\ evidenceId' = evidenceId /\ overlapped' = overlapped /\ drainsMet' = drainsMet
         /\ read' = read /\ from' = from
         /\ \A t \in Threads : /\ InFlight(t)' <=> InFlight(t)
                               /\ Draining(t)' <=> Draining(t)
                               /\ InFlight(t) => publishing'[t] = publishing[t]
                               /\ publishing[t].pc = "publish" <=> publishing'[t].pc = "publish"
         /\ publishing' = publishing \/ (CleanupReset /\ publishing'["manager"].pc = "idle")
         /\ ~CapturedUpdate => /\ ring' = ring /\ Ringed' = Ringed /\ Live' = Live
                               /\ droppedApps' = droppedApps /\ installed' = installed
<1>1. /\ records' = records /\ evidenceId' = evidenceId /\ overlapped' = overlapped
      /\ drainsMet' = drainsMet /\ read' = read /\ from' = from
  BY DEF Still, TakeMessage, CallbackGoesOn, EarlyUpdate, Switch, CapturedUpdate, Configure,
         CleanupReset, allVars, logVars, history
<1>2. \/ publishing' = publishing
      \/ /\ publishing["manager"].pc = "reset" /\ CleanupReset
         /\ publishing' = [publishing EXCEPT !["manager"] = Quiet]
  BY DEF Still, TakeMessage, CallbackGoesOn, EarlyUpdate, Switch, CapturedUpdate, Configure,
         CleanupReset, allVars, logVars
<1>3. ~CapturedUpdate => ring' = ring /\ droppedApps' = droppedApps /\ installed' = installed
  BY DEF Still, TakeMessage, CallbackGoesOn, EarlyUpdate, Switch, Configure, CleanupReset,
         allVars, logVars, history
<1>4. publishing \in [Threads -> Publication] /\ "manager" \in Threads /\ Quiet.pc = "idle"
  BY DEF EvidenceInv, LogTypeOK, Threads, Quiet
<1>5. \A t \in Threads : /\ InFlight(t)' <=> InFlight(t)
                         /\ Draining(t)' <=> Draining(t)
                         /\ InFlight(t) => publishing'[t] = publishing[t]
                         /\ publishing[t].pc = "publish" <=> publishing'[t].pc = "publish"
  BY <1>2, <1>4 DEF InFlight, Draining
<1>6. publishing' = publishing \/ (CleanupReset /\ publishing'["manager"].pc = "idle")
  BY <1>2, <1>4
<1>7. Received' = Received /\ Batches' = Batches /\ Callbacks' = Callbacks
  BY <1>1 DEF Received, Batches, Callbacks
<1>8. Reports' = Reports
  BY <1>5, <1>7 DEF Reports
<1>9. Counted' = Counted
  BY <1>5, <1>7 DEF Counted
<1>10. Given' = Given
  BY <1>5, <1>7 DEF Given, InFlight
<1>11. ~CapturedUpdate => Ringed' = Ringed /\ Live' = Live
  <2> SUFFICES ASSUME ~CapturedUpdate PROVE Ringed' = Ringed /\ Live' = Live
    OBVIOUS
  <2>1. Ringed' = Ringed
    BY <1>1, <1>3 DEF Ringed
  <2>2. \A t \in Threads : Carries(t)' <=> Carries(t)
    BY <1>5 DEF Carries
  <2>3. \A t \in Threads : Carries(t) => AppsOf(publishing[t].rec)' = AppsOf(publishing[t].rec)
    BY <1>5 DEF Carries, AppsOf
  <2> QED
    BY <1>5, <2>1, <2>2, <2>3 DEF Live
<1> QED
  BY <1>1, <1>3, <1>5, <1>6, <1>7, <1>8, <1>9, <1>10, <1>11

(* Where the callback records come from. *)
LEMMA CallbackSources ==
  ASSUME IInv, EvidenceInv, [LogNext]_allVars, NEW c \in Reports', c.event = "callback"
  PROVE  \/ \E d \in Reports : /\ d.event = "callback"
                               /\ d.msg = c.msg /\ d.act = c.act /\ d.seq = c.seq
                               /\ d.accepted = c.accepted
         \/ /\ Emit
            /\ c.msg = cb.cmd.msg /\ c.act = cb.cmd.act /\ c.seq = cb.cmd.seq
            /\ c.accepted = (cb.pc = "write")
<1>1. CASE Still
  BY <1>1, StillShape
<1>2. CASE \E t \in Threads : LoadId(t)
  <2>1. PICK t \in Threads : LoadId(t)
    BY <1>2
  <2>2. PICK f \in Record : /\ f.event = publishing[t].rec.event
                            /\ Answers(t) => /\ f.msg = publishing[t].rec.msg
                                             /\ f.act = publishing[t].rec.act
                                             /\ f.seq = publishing[t].rec.seq
                                             /\ f.accepted = publishing[t].rec.accepted
                            /\ InFlight(t)
                            /\ Reports' \subseteq Reports \cup {f}
    BY <2>1, LoadShape
  <2>3. c \in Reports \/ c = f
    BY <2>2
  <2>4. CASE c = f
    <3>1. Answers(t) /\ publishing[t].rec \in Reports
      BY <2>2, <2>4, ReportsAreTrue DEF Answers
    <3> QED
      BY <2>2, <2>4, <3>1 DEF Answers
  <2> QED
    BY <2>3, <2>4
<1>3. CASE \E t \in Threads : PublishNowhere(t) \/ Publish(t)
  <2>1. c \in Reports
    BY <1>3, LeaveShape
  <2> QED
    BY <2>1
<1>4. CASE Emit
  <2> DEFINE rec == [event |-> "callback", instance |-> 0, id |-> 0, msg |-> cb.cmd.msg,
                     act |-> cb.cmd.act, seq |-> cb.cmd.seq, accepted |-> cb.pc = "write"]
  <2>1. Begin("executor", "begin", rec) /\ records' = records /\ "executor" \in Threads
    BY <1>4 DEF Emit, Threads
  <2> HIDE DEF rec
  <2>2. Reports' \subseteq Reports \cup {rec}
    BY <2>1, EnterShape
  <2>3. c \in Reports \/ c = rec
    BY <2>2
  <2>4. CASE c = rec
    BY <1>4, <2>4 DEF rec
  <2>5. CASE c \in Reports
    BY <2>5
  <2> QED
    BY <2>3, <2>4, <2>5
<1>5. CASE \E t \in Threads : Drain(t)
  <2>1. PICK t \in Threads : Drain(t)
    BY <1>5
  <2>2. PICK rec \in SamplesRecord :
          rec.event = "samples" /\ Begin(t, "pop", rec) /\ records' = records
    BY <2>1, DrainShape
  <2>3. Reports' \subseteq Reports \cup {rec}
    BY <2>2, EnterShape
  <2>4. c \in Reports
    BY <2>2, <2>3
  <2> QED
    BY <2>4
<1>6. CASE \E t \in Threads : Popping(t)
  <2>1. PICK t \in Threads : Popping(t)
    BY <1>6
  <2>2. PICK f \in SamplesRecord : f.event = "samples" /\ Reports' \subseteq Reports \cup {f}
    BY <2>1, PopShape
  <2>3. c \in Reports
    BY <2>2
  <2> QED
    BY <2>3
<1>7. TimerDrain \/ CleanupDrain => \E t \in Threads : Drain(t)
  BY DEF TimerDrain, CleanupDrain, Threads
<1> QED
  BY <1>1, <1>2, <1>3, <1>4, <1>5, <1>6, <1>7 DEF LogNext, Still, Popping

(* A callback's record agrees with its command. *)
LEMMA AgreeStep ==
  ASSUME IInv, EvidenceInv, OnceInv, AgreeInv, [LogNext]_allVars
  PROVE  AgreeInv'
<1> SUFFICES ASSUME NEW c \in Reports', c.event = "callback"
             PROVE  /\ c.accepted => c.msg \in accepted'
                    /\ \A x \in Written' : c.msg = x.msg => c.act = x.act /\ c.seq = x.seq
  BY DEF AgreeInv
<1>1. accepted \subseteq accepted'
  <2>1. [Next]_vars
    BY LogStepsAreSteps
  <2> QED
    BY <2>1 DEF Next, Lifecycles, RealTime, Callback, OnConfigure, OnCleanup, OnDeactivate,
         ActivateRefused, ActivateStore, ActivateHold, ActivateReset, ActivateCommand, Update,
         UpdateError, UpdateTo, UpdateNoState, CallbackEnter, CallbackReject, CallbackCheck,
         CallbackSequence, CallbackWrite, vars
<1>2. received \in Nat
  BY BoundsAssumption DEF IInv, TypeOK, Targets
<1>3. CASE \E d \in Reports : /\ d.event = "callback"
                              /\ d.msg = c.msg /\ d.act = c.act /\ d.seq = c.seq
                              /\ d.accepted = c.accepted
  <2>1. PICK d \in Reports : /\ d.event = "callback"
                             /\ d.msg = c.msg /\ d.act = c.act /\ d.seq = c.seq
                             /\ d.accepted = c.accepted
    BY <1>3
  <2>2. /\ d.accepted => d.msg \in accepted
        /\ \A x \in Written : d.msg = x.msg => d.act = x.act /\ d.seq = x.seq
    BY <2>1 DEF AgreeInv
  <2>3. CASE NothingWritten
    BY <1>1, <2>1, <2>2, <2>3 DEF NothingWritten
  <2>4. CASE LastWritten
    <3>1. ~InFlight("executor")
      BY <2>4 DEF LastWritten, OnceInv, ReportedOnceInv
    <3>2. d \in Callbacks
      <4>1. d \in Received \/ \E t \in Threads : InFlight(t) /\ d = publishing[t].rec
        BY ReportsAreTrue
      <4>2. InFlight("manager") => publishing["manager"].rec.event # "callback"
        BY DEF OnceInv, ReportedOnceInv
      <4>3. d \in Received
        BY <2>1, <3>1, <4>1, <4>2 DEF Threads
      <4> QED
        BY <2>1, <4>3 DEF Callbacks
    <3>3. d.msg < received
      BY <2>4, <3>2 DEF LastWritten, OnceInv, ReportedOnceInv
    <3>4. \A x \in Written' : x \in Written \/ x.msg = received
      BY <2>4 DEF LastWritten
    <3>5. d.msg # received
      <4>1. d \in CallbackRecord
        BY <2>1, ReportsAreTrue
      <4>2. d.msg \in Nat
        BY <4>1, BoundsAssumption DEF CallbackRecord, Targets
      <4> QED
        BY <1>2, <3>3, <4>2
    <3> QED
      BY <1>1, <2>1, <2>2, <3>4, <3>5
  <2> QED
    BY <2>3, <2>4, WritingStep
<1>4. CASE /\ Emit
           /\ c.msg = cb.cmd.msg /\ c.act = cb.cmd.act /\ c.seq = cb.cmd.seq
           /\ c.accepted = (cb.pc = "write")
  <2>1. cb.pc # "idle" /\ cb.cmd.msg = received /\ cb.cmd \in Command
    BY <1>4 DEF Emit, CallbackWrite, CallbackReject, IInv, ArrivalInv, TypeOK
  <2>2. c.accepted => c.msg \in accepted
    BY <1>4, <2>1 DEF IInv, ArrivalInv, Carrying
  <2>3. \A x \in Written : x.msg # received
    <3>1. \A x \in Written : x.msg < received
      BY <2>1 DEF OnceInv, WrittenOnceInv
    <3>2. Written \subseteq Command
      BY DEF Written, EvidenceInv, LogTypeOK, TypeOK, Application
    <3>3. \A x \in Written : x.msg \in Nat
      BY <3>2, BoundsAssumption DEF Command, Targets
    <3> QED
      BY <1>2, <3>1, <3>3
  <2>4. \A x \in Written' : x \in Written \/ x = [cb.cmd EXCEPT !.wrote = activation]
    <3>1. /\ rtBuf' = rtBuf /\ installed' = installed
          /\ buf' = buf \/ buf' = [cb.cmd EXCEPT !.wrote = activation]
      BY <1>4 DEF Emit, CallbackWrite, CallbackReject
    <3> QED
      BY <3>1 DEF Written
  <2>5. /\ [cb.cmd EXCEPT !.wrote = activation].act = cb.cmd.act
        /\ [cb.cmd EXCEPT !.wrote = activation].seq = cb.cmd.seq
    BY <2>1 DEF Command
  <2> QED
    BY <1>1, <1>4, <2>1, <2>2, <2>3, <2>4, <2>5
<1> QED
  BY <1>3, <1>4, CallbackSources

(* The lifecycle as far as the evidence goes. *)
LEMMA LifeShape ==
  ASSUME IInv, EvidenceInv, [LogNext]_allVars
  PROVE  \/ UNCHANGED <<activation, life, lastApplied>> /\ ~CapturedUpdate
         \/ ActivateStore /\ Switch
         \/ /\ activation' = activation /\ ~CapturedUpdate
            /\ Commanding' => (Commanding /\ lastApplied' = lastApplied) \/ Activating
            /\ Activating' => Activating
         \/ CapturedUpdate /\ activation' = activation /\ Commanding /\ Commanding'
<1>1. CASE CapturedUpdate
  BY <1>1 DEF CapturedUpdate, Update, UpdateError, UpdateTo, Commanding
<1>2. CASE ~CapturedUpdate /\ [LogNext]_allVars
  <2>1. CASE UNCHANGED vars
    BY <1>2, <2>1 DEF vars
  <2>2. CASE TakeMessage \/ CallbackGoesOn \/ Emit
    BY <1>2, <2>2 DEF TakeMessage, CallbackGoesOn, Emit, CallbackEnter, CallbackReject,
         CallbackCheck, CallbackSequence, CallbackWrite
  <2>3. CASE EarlyUpdate \/ Configure \/ CleanupReset
    BY <1>2, <2>3 DEF EarlyUpdate, Configure, CleanupReset, UpdateNoState, OnConfigure, OnCleanup,
         Commanding, Activating
  <2>4. CASE Switch
    BY <1>2, <2>4 DEF Switch, ActivateRefused, ActivateHold, ActivateReset,
         ActivateCommand, OnDeactivate, Commanding, Activating
  <2>5. CASE UNCHANGED allVars \/ TimerDrain \/ CleanupDrain
             \/ \E t \in Threads : Popping(t) \/ PublishNowhere(t) \/ LoadId(t) \/ Publish(t)
    BY <1>2, <2>1, <2>5 DEF allVars, TimerDrain, CleanupDrain, Drain, PublishNowhere, LoadId,
         Publish, Popping, LoadRead, StoreRead, EndDrain
  <2> QED
    BY <1>2, <2>2, <2>3, <2>4, <2>5 DEF LogNext, Popping
<1> QED
  BY <1>1, <1>2

(* Numbers. *)
LEMMA Numbers ==
  ASSUME IInv, EvidenceInv
  PROVE  /\ installed \subseteq Application
         /\ \A x \in installed : x.cmd.seq \in Nat /\ x.act \in Nat /\ x.cmd.msg \in Nat
         /\ activation \in Nat /\ lastApplied \in Nat /\ received \in Nat
         /\ evidenceId \in Nat /\ droppedApps \in Nat /\ instance \in Nat
         /\ \A r \in Reports : r.id \in Nat
         /\ \A b \in BatchesIn(Reports) : b.dropped \in Nat
<1>1. installed \subseteq Application
  BY DEF EvidenceInv, LogTypeOK
<1>2. \A x \in installed : x.cmd.seq \in Nat /\ x.act \in Nat /\ x.cmd.msg \in Nat
  BY <1>1, BoundsAssumption DEF Application, Command, Targets, Activations
<1>3. activation \in Nat /\ lastApplied \in Nat /\ received \in Nat
  BY BoundsAssumption DEF IInv, TypeOK, Targets, Activations
<1>4. evidenceId \in Nat /\ droppedApps \in Nat /\ instance \in Nat
  BY LogAssumption DEF EvidenceInv, LogTypeOK
<1>5. \A r \in Reports : r.id \in Nat
  BY ReportsAreTrue DEF Record, CallbackRecord, SamplesRecord
<1>6. \A b \in BatchesIn(Reports) : b.dropped \in Nat
  BY ReportsAreTrue DEF SamplesRecord
<1> QED
  BY <1>1, <1>2, <1>3, <1>4, <1>5, <1>6

(* An update installs the youngest application of its activation, or none. *)
LEMMA CaptureShape ==
  ASSUME IInv, IInv', EvidenceInv, CapturedUpdate
  PROVE  /\ activation' = activation /\ Commanding /\ Commanding' /\ life' # "inactive"
         /\ ~Activating'
         /\ publishing' = publishing
         /\ \/ UNCHANGED <<ring, droppedApps, installed, lastApplied>>
            \/ \E app \in Application :
                 /\ app.act = activation /\ app.cmd.seq > lastApplied
                 /\ lastApplied' = app.cmd.seq
                 /\ installed' = installed \cup {app}
                 /\ \/ ring' = Append(ring, app) /\ droppedApps' = droppedApps
                    \/ droppedApps' = droppedApps + 1 /\ ring' = ring
<1>1. /\ activation' = activation /\ life = "active" /\ life' \in {"active", "failed"}
      /\ publishing' = publishing /\ Install(rtBuf') /\ Capture
  BY DEF CapturedUpdate, Update, UpdateError, UpdateTo
<1>2. CASE rtBuf'.seq > lastApplied
  <2> DEFINE app == [cmd |-> rtBuf', act |-> activation]
  <2>1. app \in Application
    <3>1. rtBuf' \in Command
      BY DEF IInv, TypeOK
    <3>2. activation \in Activations
      BY DEF IInv, TypeOK
    <3> QED
      BY <3>1, <3>2 DEF Application
  <2>2. lastApplied' = app.cmd.seq /\ app.act = activation /\ app.cmd.seq > lastApplied
    BY <1>1, <1>2 DEF Install
  <2>3. /\ installed' = installed \cup {app}
        /\ \/ ring' = Append(ring, app) /\ droppedApps' = droppedApps
           \/ droppedApps' = droppedApps + 1 /\ ring' = ring
    BY <1>1, <1>2 DEF Capture
  <2> HIDE DEF app
  <2> QED
    BY <1>1, <2>1, <2>2, <2>3 DEF Commanding, Activating
<1>3. CASE ~(rtBuf'.seq > lastApplied)
  BY <1>1, <1>3 DEF Install, Capture, Commanding, Activating
<1> QED
  BY <1>2, <1>3

(* Activations install ever younger sequence numbers. *)
LEMMA NewestStep ==
  ASSUME IInv, IInv', EvidenceInv, NewestInv, [LogNext]_allVars
  PROVE  NewestInv'
<1>1. ~CapturedUpdate => installed' = installed
  BY DEF LogNext, allVars, logVars, history, LoadRead, StoreRead, EndDrain, PublishNowhere,
         LoadId, Publish, TakeMessage, CallbackGoesOn, Emit, TimerDrain, CleanupDrain, Drain,
         EarlyUpdate, Configure, Switch, CleanupReset
<1>2. CASE UNCHANGED <<activation, life, lastApplied>> /\ ~CapturedUpdate
  BY <1>1, <1>2 DEF NewestInv, Activating, Commanding
<1>3. CASE ActivateStore /\ Switch /\ ~CapturedUpdate
  <2>1. activation' = activation + 1 /\ ~Commanding'
    BY <1>3 DEF ActivateStore, Commanding
  <2>2. \A x \in installed' : x.act < activation'
    BY <1>1, <1>3, <2>1, Numbers DEF NewestInv
  <2>3. \A x \in installed' : x.act <= activation' /\ x.act # activation'
    BY <1>1, <1>3, <2>1, <2>2, Numbers
  <2> QED
    BY <2>1, <2>3 DEF NewestInv
<1>4. CASE /\ activation' = activation /\ ~CapturedUpdate
           /\ Commanding' => (Commanding /\ lastApplied' = lastApplied) \/ Activating
           /\ Activating' => Activating
  <2>1. installed' = installed /\ activation' = activation
    BY <1>1, <1>4
  <2>2. Activating' => \A x \in installed' : x.act # activation'
    BY <1>4, <2>1 DEF NewestInv
  <2>3. Commanding' => \A x \in installed' : x.act = activation' => x.cmd.seq <= lastApplied'
    BY <1>4, <2>1 DEF NewestInv
  <2> QED
    BY <2>1, <2>2, <2>3 DEF NewestInv
<1>5. CASE CapturedUpdate
  <2>1. CASE UNCHANGED <<installed, lastApplied>>
    <3>1. activation' = activation /\ ~Activating' /\ Commanding
      BY <1>5, CaptureShape
    <3> QED
      BY <2>1, <3>1 DEF NewestInv
  <2>2. CASE \E app \in Application :
                 /\ app.act = activation /\ app.cmd.seq > lastApplied
                 /\ lastApplied' = app.cmd.seq
                 /\ installed' = installed \cup {app}
    <3>1. PICK app \in Application :
                 /\ app.act = activation /\ app.cmd.seq > lastApplied
                 /\ lastApplied' = app.cmd.seq
                 /\ installed' = installed \cup {app}
      BY <2>2
    <3>2. activation' = activation /\ ~Activating' /\ Commanding
      BY <1>5, CaptureShape
    <3>3. app.cmd.seq \in Nat
      BY BoundsAssumption DEF Application, Command, Targets
    <3>4. \A x \in installed : x.act = activation => x.cmd.seq <= lastApplied'
      BY <3>1, <3>2, <3>3, Numbers DEF NewestInv
    <3>5. app.act <= activation /\ app.cmd.seq <= lastApplied'
      BY <3>1, <3>3, Numbers
    <3> QED
      BY <3>1, <3>2, <3>4, <3>5 DEF NewestInv
  <2> QED
    BY <1>5, <2>1, <2>2, CaptureShape
<1> QED
  BY <1>2, <1>3, <1>4, <1>5, LifeShape

(* Nothing is pushed once on_cleanup has begun. *)
LEMMA CleanStep ==
  ASSUME IInv, IInv', EvidenceInv, CleanInv, [LogNext]_allVars
  PROVE  CleanInv'
<1>0. publishing \in [Threads -> Publication] /\ "executor" \in Threads /\ "manager" \in Threads
  BY DEF EvidenceInv, LogTypeOK, Threads
<1>1. CASE CapturedUpdate
  <2>1. publishing' = publishing /\ Commanding /\ Commanding' /\ ~Activating'
    BY <1>1, CaptureShape
  <2>2. life' # "unconfigured" /\ Subscribed /\ ~Cleaning
    BY <2>1 DEF CleanInv, Commanding, Subscribed
  <2> QED
    BY <2>1, <2>2 DEF CleanInv, Cleaning, Commanding, Subscribed
<1>2. CASE Switch
  <2>1. ~Cleaning' /\ Subscribed'
    BY <1>2 DEF Switch, Cleaning, Subscribed, logVars, ActivateRefused, ActivateStore,
         ActivateHold, ActivateReset, ActivateCommand, OnDeactivate
  <2> QED
    BY <2>1 DEF CleanInv
<1>3. CASE CleanupDrain
  BY <1>3 DEF CleanupDrain, Drain, CleanInv, Commanding, Activating, vars
<1>4. CASE Configure \/ CleanupReset
  <2>1. ~Commanding' /\ ~Activating'
    BY <1>4 DEF Configure, CleanupReset, OnConfigure, OnCleanup, Commanding, Activating
  <2> QED
    BY <2>1 DEF CleanInv
<1>5. CASE EarlyUpdate
  <2>1. life = "active" /\ life' = "failed" /\ publishing' = publishing
    BY <1>5 DEF EarlyUpdate, UpdateNoState, logVars
  <2> QED
    BY <2>1 DEF CleanInv, Cleaning, Commanding, Activating, Subscribed
<1>6. CASE life' = life /\ (Cleaning' => Cleaning)
  BY <1>6 DEF CleanInv, Subscribed, Commanding, Activating
<1>7. CASE TakeMessage \/ CallbackGoesOn \/ UNCHANGED allVars
  <2>1. life' = life /\ publishing' = publishing
    BY <1>7 DEF TakeMessage, CallbackGoesOn, CallbackEnter, CallbackCheck, CallbackSequence,
       logVars, allVars, vars
  <2> QED
    BY <1>6, <2>1 DEF Cleaning
<1>8. CASE Emit \/ TimerDrain
  <2>1. publishing'["manager"] = publishing["manager"] /\ life' = life
    BY <1>0, <1>8 DEF Emit, TimerDrain, Drain, Begin, Proceed, vars, CallbackWrite, CallbackReject
  <2> QED
    BY <1>6, <2>1 DEF Cleaning
<1>9. CASE \E t \in Threads : Popping(t) \/ PublishNowhere(t) \/ LoadId(t) \/ Publish(t)
  <2>1. PICK t \in Threads : Popping(t) \/ PublishNowhere(t) \/ LoadId(t) \/ Publish(t)
    BY <1>9
  <2>2. InFlight(t) /\ \A u \in Threads : u # t => publishing'[u] = publishing[u]
    <3>1. CASE Popping(t)
      <4>1. Draining(t) /\ \A u \in Threads : u # t => publishing'[u] = publishing[u]
        BY <3>1, PopShape
      <4> QED
        BY <4>1 DEF InFlight
    <3>2. CASE PublishNowhere(t) \/ LoadId(t) \/ Publish(t)
      BY <3>2, LoadShape, LeaveShape
    <3> QED
      BY <2>1, <3>1, <3>2
  <2>3. life' = life
    BY <2>1 DEF Popping, LoadRead, StoreRead, EndDrain, PublishNowhere, LoadId, Publish, vars
  <2>4. Cleaning' => Cleaning
    BY <1>0, <2>2 DEF Cleaning, InFlight, Draining
  <2> QED
    BY <1>6, <2>3, <2>4
<1> QED
  BY <1>1, <1>2, <1>3, <1>4, <1>5, <1>7, <1>8, <1>9 DEF LogNext, Popping

(* What is pushed is younger than what the activation has pushed before. *)
LEMMA PushedStep ==
  ASSUME IInv, IInv', EvidenceInv, NewestInv, PushedInv, [LogNext]_allVars
  PROVE  PushedInv'
<1>1. ring \in Seq(Application) /\ ring \in Seq(installed) /\ Len(ring) \in Nat
  BY DEF EvidenceInv, LogTypeOK, CarriedInv
<1>2. CASE ring' = ring
  BY <1>2 DEF PushedInv
<1>3. CASE \E app \in Application :
             /\ app.act = activation /\ app.cmd.seq > lastApplied
             /\ Commanding /\ ring' = Append(ring, app)
  <2>1. PICK app \in Application :
             /\ app.act = activation /\ app.cmd.seq > lastApplied
             /\ Commanding /\ ring' = Append(ring, app)
    BY <1>3
  <2>2. /\ DOMAIN ring = 1..Len(ring) /\ DOMAIN ring' = 1..(Len(ring) + 1)
        /\ ring'[Len(ring) + 1] = app
        /\ \A i \in 1..Len(ring) : ring'[i] = ring[i] /\ ring[i] \in installed
    BY <1>1, <2>1
  <2>3. app.cmd.seq \in Nat
    BY BoundsAssumption DEF Application, Command, Targets
  <2>4. \A x \in installed : x.act = activation => x.cmd.seq < app.cmd.seq
    BY <2>1, <2>3, Numbers DEF NewestInv
  <2>5. ASSUME NEW i \in DOMAIN ring', NEW j \in DOMAIN ring', i < j, ring'[i].act = ring'[j].act
        PROVE  ring'[i].cmd.seq < ring'[j].cmd.seq
    <3>1. i \in 1..Len(ring)
      BY <1>1, <2>2, <2>5
    <3>2. CASE j = Len(ring) + 1
      BY <2>1, <2>2, <2>4, <2>5, <3>1, <3>2
    <3>3. CASE j \in 1..Len(ring)
      BY <2>2, <2>5, <3>1, <3>3 DEF PushedInv
    <3> QED
      BY <1>1, <2>2, <3>2, <3>3
  <2> QED
    BY <2>5 DEF PushedInv
<1>4. CASE CapturedUpdate
  BY <1>2, <1>3, <1>4, CaptureShape
<1>5. ~CapturedUpdate => ring' = ring
  <2>1. CASE Still
    BY <2>1, StillShape
  <2>2. CASE \E t \in Threads : Popping(t) \/ PublishNowhere(t) \/ LoadId(t) \/ Publish(t)
    BY <2>2 DEF Popping, LoadRead, StoreRead, EndDrain, PublishNowhere, LoadId, Publish
  <2>3. CASE Emit \/ TimerDrain \/ CleanupDrain
    BY <2>3 DEF Emit, TimerDrain, CleanupDrain, Drain
  <2> QED
    BY <2>1, <2>2, <2>3 DEF LogNext, Still, Popping
<1> QED
  BY <1>2, <1>4, <1>5

(* A sample is in one place of the ring, and younger than those before it. *)
LEMMA Pushed ==
  ASSUME EvidenceInv, PushedInv
  PROVE  /\ \A i, j \in DOMAIN ring : ring[i] = ring[j] => i = j
         /\ \A i, j \in DOMAIN ring : i <= j => ~Later(ring[i], ring[j])
<1>1. ring \in Seq(Application) /\ DOMAIN ring = 1..Len(ring) /\ Len(ring) \in Nat
  BY DEF EvidenceInv, LogTypeOK
<1>2. \A i \in DOMAIN ring : ring[i].cmd.seq \in Nat
  <2>1. \A i \in DOMAIN ring : ring[i] \in Application
    BY <1>1
  <2> QED
    BY <2>1, BoundsAssumption DEF Application, Command, Targets
<1>3. \A i, j \in DOMAIN ring : ring[i] = ring[j] => ~(i < j)
  BY <1>2 DEF PushedInv
<1>4. \A i, j \in DOMAIN ring : ring[i] = ring[j] => i = j
  BY <1>1, <1>3
<1>5. \A i, j \in DOMAIN ring : i <= j => ~Later(ring[i], ring[j])
  <2> SUFFICES ASSUME NEW i \in DOMAIN ring, NEW j \in DOMAIN ring, i <= j, Later(ring[i], ring[j])
               PROVE  FALSE
    OBVIOUS
  <2>1. ring[i].act = ring[j].act /\ ring[i].cmd.seq > ring[j].cmd.seq
    BY DEF Later
  <2>2. i # j
    BY <1>2, <2>1
  <2>3. ring[i].cmd.seq < ring[j].cmd.seq
    BY <1>1, <2>1, <2>2 DEF PushedInv
  <2> QED
    BY <1>2, <2>1, <2>3
<1> QED
  BY <1>4, <1>5

(* A drain that another one joins is remembered. *)
LEMMA DrainersStep ==
  ASSUME EvidenceInv, [LogNext]_allVars
  PROVE  \/ \E t \in Threads : Drain(t)
         \/ /\ \A u \in Threads : Draining(u)' => Draining(u)
            /\ drainsMet' = drainsMet /\ (overlapped => overlapped')
<1>1. CASE Still
  BY <1>1, StillShape
<1>2. CASE \E t \in Threads : Popping(t)
  <2>1. PICK t \in Threads : Popping(t)
    BY <1>2
  <2> QED
    BY <2>1, PopShape
<1>3. CASE \E t \in Threads : LoadId(t)
  <2>1. PICK t \in Threads : LoadId(t)
    BY <1>3
  <2> QED
    BY <2>1, LoadShape DEF Passive
<1>4. CASE \E t \in Threads : PublishNowhere(t) \/ Publish(t)
  <2>1. PICK t \in Threads : PublishNowhere(t) \/ Publish(t)
    BY <1>4
  <2> QED
    BY <2>1, LeaveShape DEF Passive
<1>5. CASE Emit
  <2> DEFINE rec == [event |-> "callback", instance |-> 0, id |-> 0, msg |-> cb.cmd.msg,
                     act |-> cb.cmd.act, seq |-> cb.cmd.seq, accepted |-> cb.pc = "write"]
  <2>1. Begin("executor", "begin", rec) /\ records' = records /\ "executor" \in Threads
        /\ drainsMet' = drainsMet
    BY <1>5 DEF Emit, Threads
  <2> HIDE DEF rec
  <2>2. /\ publishing'["executor"] = [pc |-> "begin", rec |-> rec]
        /\ \A u \in Threads : u # "executor" => (Draining(u)' <=> Draining(u))
    BY <2>1, EnterShape
  <2>3. ~Draining("executor")'
    BY <2>2 DEF Draining
  <2> QED
    BY <2>1, <2>2, <2>3 DEF Begin
<1>6. TimerDrain \/ CleanupDrain => \E t \in Threads : Drain(t)
  BY DEF TimerDrain, CleanupDrain, Threads
<1> QED
  BY <1>1, <1>2, <1>3, <1>4, <1>5, <1>6 DEF LogNext, Still, Popping

(* Two drains at once are remembered. *)
LEMMA MetStep ==
  ASSUME EvidenceInv, MetInv, [LogNext]_allVars
  PROVE  MetInv'
<1>1. CASE \E t \in Threads : Drain(t)
  <2>1. PICK t \in Threads : Drain(t)
    BY <1>1
  <2>2. PICK rec \in SamplesRecord :
          /\ Begin(t, "pop", rec) /\ records' = records
          /\ drainsMet' = (drainsMet \/ \E u \in Threads : Draining(u))
    BY <2>1, DrainShape
  <2>3. \A u \in Threads : u # t => (Draining(u)' <=> Draining(u))
    BY <2>2, EnterShape
  <2>4. drainsMet' => overlapped'
    BY <2>2 DEF Begin, MetInv, InFlight
  <2>5. \A u, v \in Threads : Draining(u)' /\ Draining(v)' /\ u # v => drainsMet'
    BY <2>2, <2>3 DEF MetInv
  <2> QED
    BY <2>4, <2>5 DEF MetInv
<1>2. CASE /\ \A u \in Threads : Draining(u)' => Draining(u)
           /\ drainsMet' = drainsMet /\ (overlapped => overlapped')
  BY <1>2 DEF MetInv
<1> QED
  BY <1>1, <1>2, DrainersStep

(* A list without repetitions, with another element. *)
LEMMA InjectiveAppend ==
  ASSUME NEW S, NEW s \in Seq(S), NEW e \in S, IsInjective(s), e \notin Range(s)
  PROVE  IsInjective(Append(s, e))
<1>1. /\ DOMAIN Append(s, e) = 1..(Len(s) + 1) /\ DOMAIN s = 1..Len(s) /\ Len(s) \in Nat
      /\ Append(s, e)[Len(s) + 1] = e
      /\ \A i \in 1..Len(s) : Append(s, e)[i] = s[i]
  OBVIOUS
<1>2. \A i \in 1..Len(s) : s[i] # e
  BY <1>1 DEF Range
<1>3. \A i, j \in 1..Len(s) : s[i] = s[j] => i = j
  BY <1>1 DEF IsInjective
<1>4. \A i \in 1..(Len(s) + 1) : i \in 1..Len(s) \/ i = Len(s) + 1
  BY <1>1
<1>5. \A i, j \in 1..(Len(s) + 1) : Append(s, e)[i] = Append(s, e)[j] => i = j
  BY <1>1, <1>2, <1>3, <1>4
<1> QED
  BY <1>1, <1>5 DEF IsInjective

(* A sample popped is the oldest of those pushed. *)
LEMMA PoppedShape ==
  ASSUME EvidenceInv, PushedInv, ring' = ring, read < Len(ring), read' = read + 1
  PROVE  LET e == ring[read + 1]
         IN /\ e \in Ringed /\ Ringed' \subseteq Ringed \ {e} /\ Ringed \subseteq Ringed' \cup {e}
            /\ \A x \in Ringed' : ~Later(e, x)
<1> DEFINE e == ring[read + 1]
<1>1. DOMAIN ring = 1..Len(ring) /\ Len(ring) \in Nat /\ read \in Nat
  BY DEF EvidenceInv, LogTypeOK
<1>2. Ringed' = {ring[i] : i \in (read + 2)..Len(ring)}
  BY <1>1 DEF Ringed
<1>3. Ringed = {ring[i] : i \in (read + 1)..Len(ring)}
  BY DEF Ringed
<1>4. e \in Ringed
  <2>1. read + 1 \in (read + 1)..Len(ring)
    BY <1>1
  <2> QED
    BY <1>3, <2>1
<1>5. ASSUME NEW x \in Ringed' PROVE x \in Ringed /\ x # e /\ ~Later(e, x)
  <2>1. PICK i \in (read + 2)..Len(ring) : x = ring[i]
    BY <1>2
  <2>2. i \in DOMAIN ring /\ read + 1 \in DOMAIN ring /\ read + 1 <= i /\ read + 1 # i
        /\ i \in (read + 1)..Len(ring)
    BY <1>1, <2>1
  <2>3. x \in Ringed
    BY <1>3, <2>1, <2>2
  <2>4. ring[read + 1] # ring[i] /\ ~Later(ring[read + 1], ring[i])
    BY <2>2, Pushed
  <2> QED
    BY <2>1, <2>3, <2>4
<1>6. ASSUME NEW x \in Ringed PROVE x \in Ringed' \/ x = e
  <2>1. PICK i \in (read + 1)..Len(ring) : x = ring[i]
    BY <1>3
  <2>2. i = read + 1 \/ i \in (read + 2)..Len(ring)
    BY <1>1, <2>1
  <2> QED
    BY <1>2, <2>1, <2>2
<1> QED
  BY <1>4, <1>5, <1>6

(* One thread's record changes, by samples that leave the ring. *)
LEMMA TakenChange ==
  ASSUME EvidenceInv, TakenOnceInv, NEW t \in Threads, NEW f, NEW E \in SUBSET Ringed,
         publishing'[t].rec = f,
         \A u \in Threads : u # t => publishing'[u] = publishing[u],
         \A u \in Threads : Carries(u)' => (u = t /\ f.event = "samples") \/ (u # t /\ Carries(u)),
         records' = records, Reports' \subseteq Reports \cup {f},
         f.event = "samples" =>
           /\ IsInjective(f.apps)
           /\ AppsOf(f) \subseteq E \/ (Carries(t) /\ AppsOf(f) \subseteq AppsOf(publishing[t].rec) \cup E),
         Ringed' \subseteq Ringed \ E,
         \A u \in Threads : publishing'[u].pc = "copy" => from'[u] = read'
  PROVE  TakenOnceInv'
<1> DEFINE r == publishing[t].rec
<1>1. Batches' = Batches /\ \A b \in Batches : b \in BatchesIn(Reports)
  BY ReportsAreTrue DEF Batches, BatchesIn, Received
<1>2. \A u \in Threads : Carries(u) => publishing[u].rec \in BatchesIn(Reports)
  BY DEF Carries, BatchesIn, Reports
<1>3. \A b \in BatchesIn(Reports) : IsInjective(b.apps) /\ AppsOf(b) \cap Ringed = {}
  BY DEF TakenOnceInv
<1>4. f.event = "samples" => AppsOf(f) \cap Ringed' = {}
  BY <1>2, <1>3
<1>5. \A b \in BatchesIn(Reports') : IsInjective(b.apps) /\ AppsOf(b) \cap Ringed' = {}
  <2>1. \A b \in BatchesIn(Reports') : b \in BatchesIn(Reports) \/ (b = f /\ f.event = "samples")
    BY DEF BatchesIn
  <2> QED
    BY <1>3, <1>4, <2>1
<1>6. f.event = "samples" =>
        /\ \A b \in Batches : Apart(f, b)
        /\ \A u \in Threads : u # t /\ Carries(u) =>
             Apart(f, publishing[u].rec) /\ Apart(publishing[u].rec, f)
  <2> SUFFICES ASSUME f.event = "samples"
               PROVE  /\ \A b \in Batches : Apart(f, b)
                      /\ \A u \in Threads : u # t /\ Carries(u) =>
                           Apart(f, publishing[u].rec) /\ Apart(publishing[u].rec, f)
    OBVIOUS
  <2>1. \A b \in Batches : AppsOf(f) \cap AppsOf(b) = {}
    <3>1. \A b \in Batches : Carries(t) => AppsOf(r) \cap AppsOf(b) = {}
      BY DEF TakenOnceInv, Apart
    <3>2. \A b \in Batches : E \cap AppsOf(b) = {}
      BY <1>1, <1>3
    <3> QED
      BY <3>1, <3>2
  <2>2. \A u \in Threads : u # t /\ Carries(u) => AppsOf(f) \cap AppsOf(publishing[u].rec) = {}
    <3>1. \A u \in Threads : u # t /\ Carries(u) /\ Carries(t) =>
            AppsOf(r) \cap AppsOf(publishing[u].rec) = {}
      BY DEF TakenOnceInv, Apart
    <3>2. \A u \in Threads : Carries(u) => E \cap AppsOf(publishing[u].rec) = {}
      BY <1>2, <1>3
    <3> QED
      BY <3>1, <3>2
  <2> QED
    BY <2>1, <2>2 DEF Apart
<1>7. \A u \in Threads : Carries(u)' =>
        /\ \A b \in Batches : Apart(publishing'[u].rec, b)
        /\ \A v \in Threads : Carries(v)' /\ v # u => Apart(publishing'[u].rec, publishing'[v].rec)
  <2> SUFFICES ASSUME NEW u \in Threads, Carries(u)'
               PROVE  /\ \A b \in Batches : Apart(publishing'[u].rec, b)
                      /\ \A v \in Threads : Carries(v)' /\ v # u =>
                           Apart(publishing'[u].rec, publishing'[v].rec)
    OBVIOUS
  <2>1. CASE u = t
    BY <1>6, <2>1
  <2>2. CASE u # t
    <3>1. Carries(u) /\ publishing'[u] = publishing[u]
      BY <2>2
    <3>2. \A b \in Batches : Apart(publishing[u].rec, b)
      BY <3>1 DEF TakenOnceInv
    <3>3. \A v \in Threads : v # t /\ Carries(v)' /\ v # u => Apart(publishing[u].rec, publishing[v].rec)
      BY <3>1 DEF TakenOnceInv
    <3>4. Carries(t)' => Apart(publishing[u].rec, f)
      BY <1>6, <2>2, <3>1
    <3> QED
      BY <3>1, <3>2, <3>3, <3>4
  <2> QED
    BY <2>1, <2>2
<1>8. \A i, j \in DOMAIN records :
       /\ records[i].event = "samples" /\ records[j].event = "samples"
       /\ i # j
       => Apart(records[i], records[j])
  BY DEF TakenOnceInv
<1> QED
  BY <1>1, <1>5, <1>7, <1>8 DEF TakenOnceInv, BatchesIn, Apart, AppsOf

(* Until two drains meet, a sample is popped once and reported once. *)
LEMMA TakenOnceStep ==
  ASSUME IInv, IInv', EvidenceInv, NewestInv, PushedInv, MetInv, TakenOnceInv,
         [LogNext]_allVars, ~drainsMet'
  PROVE  TakenOnceInv'
<1>0. /\ \A u \in Threads : publishing[u].pc = "copy" => from[u] = read
      /\ \A b \in BatchesIn(Reports) : IsInjective(b.apps) /\ AppsOf(b) \cap Ringed = {}
  BY DEF TakenOnceInv
<1>1. CASE Still /\ ~CapturedUpdate
  <2>1. /\ records' = records /\ Reports' = Reports /\ Batches' = Batches
        /\ read' = read /\ from' = from /\ Ringed' = Ringed
        /\ \A t \in Threads : /\ Draining(t)' <=> Draining(t)
                              /\ InFlight(t)' <=> InFlight(t)
                              /\ InFlight(t) => publishing'[t] = publishing[t]
    BY <1>1, StillShape
  <2>2. \A t \in Threads : /\ Carries(t)' => Carries(t) /\ publishing'[t] = publishing[t]
                           /\ publishing'[t].pc = "copy" => publishing[t].pc = "copy"
    BY <2>1 DEF Carries, InFlight, Draining
  <2> QED
    BY <2>1, <2>2 DEF TakenOnceInv, BatchesIn, Apart, AppsOf
<1>2. CASE CapturedUpdate
  <2>1. /\ records' = records /\ Reports' = Reports /\ Batches' = Batches
        /\ read' = read /\ from' = from
    BY <1>2, StillShape DEF Still
  <2>2. publishing' = publishing /\ Commanding
    BY <1>2, CaptureShape
  <2>3. \A b \in BatchesIn(Reports) : AppsOf(b) \cap Ringed' = {}
    <3>1. CASE ring' = ring
      BY <1>0, <2>1, <3>1 DEF Ringed
    <3>2. CASE \E app \in Application :
                 app.act = activation /\ app.cmd.seq > lastApplied /\ ring' = Append(ring, app)
      <4>1. PICK app \in Application :
                 app.act = activation /\ app.cmd.seq > lastApplied /\ ring' = Append(ring, app)
        BY <3>2
      <4>2. app \notin installed
        BY <2>2, <4>1, Numbers DEF NewestInv
      <4>3. ring \in Seq(Application) /\ Len(ring) \in Nat /\ read \in Nat
        BY DEF EvidenceInv, LogTypeOK
      <4>4. /\ Len(ring') = Len(ring) + 1 /\ ring'[Len(ring) + 1] = app
            /\ \A i \in 1..Len(ring) : ring'[i] = ring[i]
        BY <4>1, <4>3
      <4>5. Ringed' \subseteq Ringed \cup {app}
        <5>1. \A i \in (read + 1)..Len(ring') :
                (i \in (read + 1)..Len(ring) /\ ring'[i] = ring[i]) \/ ring'[i] = app
          BY <4>3, <4>4
        <5> QED
          BY <2>1, <5>1 DEF Ringed
      <4> QED
        BY <1>0, <4>2, <4>5, ReportsAreTrue
    <3> QED
      BY <1>2, <3>1, <3>2, CaptureShape
  <2> QED
    BY <2>1, <2>2, <2>3 DEF TakenOnceInv, BatchesIn, Carries, InFlight, Draining, Apart
<1>3. CASE Emit
  <2> DEFINE rec == [event |-> "callback", instance |-> 0, id |-> 0, msg |-> cb.cmd.msg,
                     act |-> cb.cmd.act, seq |-> cb.cmd.seq, accepted |-> cb.pc = "write"]
  <2>1. /\ Begin("executor", "begin", rec) /\ records' = records /\ "executor" \in Threads
        /\ read' = read /\ from' = from /\ ring' = ring
    BY <1>3 DEF Emit, Threads
  <2>2. rec.event # "samples"
    OBVIOUS
  <2> HIDE DEF rec
  <2>3. /\ publishing'["executor"] = [pc |-> "begin", rec |-> rec]
        /\ \A u \in Threads : u # "executor" => publishing'[u] = publishing[u]
        /\ Reports' \subseteq Reports \cup {rec}
    BY <2>1, EnterShape
  <2>4. publishing'["executor"].rec = rec /\ publishing'["executor"].pc = "begin"
    BY <2>3
  <2>5. Ringed' = Ringed
    BY <2>1 DEF Ringed
  <2>6. \A u \in Threads : Carries(u)' => u # "executor" /\ Carries(u)
    BY <2>2, <2>3, <2>4 DEF Carries, InFlight, Draining
  <2>7. \A u \in Threads : publishing'[u].pc = "copy" => from'[u] = read'
    BY <1>0, <2>1, <2>3, <2>4
  <2>8. {} \in SUBSET Ringed /\ Ringed' \subseteq Ringed \ {}
    BY <2>5
  <2> QED
    BY <2>1, <2>2, <2>3, <2>4, <2>6, <2>7, <2>8, TakenChange
<1>4. ASSUME NEW t \in Threads, Drain(t) PROVE TakenOnceInv'
  <2>1. PICK rec \in SamplesRecord :
          /\ rec.event = "samples" /\ rec.apps = <<>> /\ AppsOf(rec) = {}
          /\ Begin(t, "pop", rec) /\ records' = records
          /\ UNCHANGED <<read, from>> /\ Ringed' = Ringed
    BY <1>4, DrainShape
  <2>2. /\ publishing'[t] = [pc |-> "pop", rec |-> rec]
        /\ \A u \in Threads : u # t => publishing'[u] = publishing[u]
        /\ Reports' \subseteq Reports \cup {rec}
    BY <2>1, EnterShape
  <2>3. publishing'[t].rec = rec /\ publishing'[t].pc = "pop"
    BY <2>2
  <2>4. IsInjective(rec.apps)
    BY <2>1 DEF IsInjective
  <2>5. \A u \in Threads : Carries(u)' => u = t \/ (u # t /\ Carries(u))
    BY <2>2 DEF Carries, InFlight, Draining
  <2>6. \A u \in Threads : publishing'[u].pc = "copy" => from'[u] = read'
    BY <1>0, <2>1, <2>2, <2>3
  <2>7. {} \in SUBSET Ringed /\ Ringed' \subseteq Ringed \ {} /\ AppsOf(rec) \subseteq {}
    BY <2>1
  <2> QED
    BY <2>1, <2>2, <2>3, <2>4, <2>5, <2>6, <2>7, TakenChange
<1>5. ASSUME NEW t \in Threads, LoadId(t) PROVE TakenOnceInv'
  <2>1. PICK f \in Record :
           /\ f.event = publishing[t].rec.event
           /\ Carries(t) => /\ f.apps = publishing[t].rec.apps
                            /\ AppsOf(f) = AppsOf(publishing[t].rec)
           /\ InFlight(t) /\ publishing'[t] = [pc |-> "publish", rec |-> f]
           /\ \A u \in Threads : u # t => publishing'[u] = publishing[u]
           /\ \A u \in Threads : Carries(u)' <=> Carries(u)
           /\ Reports' \subseteq Reports \cup {f}
           /\ Passive /\ records' = records /\ from' = from
    BY <1>5, LoadShape
  <2>2. publishing'[t].rec = f /\ publishing'[t].pc = "publish"
    BY <2>1
  <2>3. f.event = "samples" <=> Carries(t)
    BY <2>1 DEF Carries
  <2>4. Carries(t) => publishing[t].rec \in BatchesIn(Reports)
    BY DEF Carries, BatchesIn, Reports
  <2>5. f.event = "samples" => IsInjective(f.apps)
    BY <1>0, <2>1, <2>3, <2>4
  <2>6. \A u \in Threads : publishing'[u].pc = "copy" => from'[u] = read'
    BY <1>0, <2>1, <2>2 DEF Passive
  <2>7. {} \in SUBSET Ringed /\ Ringed' \subseteq Ringed \ {}
    BY <2>1 DEF Passive
  <2>8. \A u \in Threads : Carries(u)' => (u = t /\ f.event = "samples") \/ (u # t /\ Carries(u))
    BY <2>1, <2>3
  <2>9. f.event = "samples" => Carries(t) /\ AppsOf(f) \subseteq AppsOf(publishing[t].rec) \cup {}
    BY <2>1, <2>3
  <2> QED
    BY <2>1, <2>2, <2>5, <2>6, <2>7, <2>8, <2>9, TakenChange
<1>6. ASSUME NEW t \in Threads, Popping(t) PROVE TakenOnceInv'
  <2> DEFINE r == publishing[t].rec
             e == ring[from[t] + 1]
  <2>1. PICK f \in SamplesRecord :
           /\ f.event = "samples" /\ publishing'[t].rec = f
           /\ Draining(t) /\ Carries(t) /\ r \in BatchesIn(Reports) /\ r \in SamplesRecord
           /\ \A u \in Threads : u # t => publishing'[u] = publishing[u]
           /\ \A u \in Threads : Carries(u)' <=> Carries(u)
           /\ Reports' \subseteq Reports \cup {f}
           /\ UNCHANGED <<ring, drainsMet>> /\ records' = records
           /\ \/ /\ StoreRead(t) /\ publishing[t].pc = "copy"
                 /\ from[t] \in Nat /\ from[t] < Len(ring) /\ e \in Application
                 /\ f.apps = Append(r.apps, e)
                 /\ AppsOf(f) = AppsOf(r) \cup {e}
                 /\ read' = from[t] + 1 /\ from' = [from EXCEPT ![t] = 0]
                 /\ publishing'[t].pc = "pop"
              \/ /\ ~StoreRead(t) /\ f.apps = r.apps
                 /\ AppsOf(f) = AppsOf(r)
                 /\ read' = read /\ Ringed' = Ringed
                 /\ publishing'[t].pc = "copy" => from' = [from EXCEPT ![t] = read]
                 /\ publishing'[t].pc # "copy" => from' = from
    BY <1>6, PopShape
  <2>2. \A u \in Threads : u # t => publishing'[u].pc # "copy"
    <3>1. \A u \in Threads : u # t => ~Draining(u)
      BY <2>1 DEF MetInv
    <3> QED
      BY <2>1, <3>1 DEF Draining
  <2>3. from \in [Threads -> Nat]
    BY DEF EvidenceInv, LogTypeOK
  <2>4. \A u \in Threads : Carries(u)' => (u = t /\ f.event = "samples") \/ (u # t /\ Carries(u))
    BY <2>1
  <2>5. CASE StoreRead(t)
    <3>1. from[t] = read /\ read < Len(ring) /\ read' = read + 1
      BY <1>0, <2>1, <2>5
    <3>2. e \in Ringed /\ Ringed' \subseteq Ringed \ {e}
      <4>1. e = ring[read + 1]
        BY <3>1
      <4> QED
        BY <2>1, <3>1, <4>1, PoppedShape
    <3>3. e \notin Range(r.apps) /\ IsInjective(r.apps)
      BY <1>0, <2>1, <3>2 DEF AppsOf
    <3>4. r.apps \in Seq(Application) /\ e \in Application
      BY <2>1, <2>5 DEF SamplesRecord
    <3> HIDE DEF e, r
    <3>5. IsInjective(f.apps)
      <4>1. IsInjective(Append(r.apps, e))
        BY <3>3, <3>4, InjectiveAppend
      <4> QED
        BY <2>1, <2>5, <4>1
    <3>6. \A u \in Threads : publishing'[u].pc = "copy" => from'[u] = read'
      BY <2>1, <2>2, <2>5
    <3>7. {e} \in SUBSET Ringed /\ AppsOf(f) \subseteq AppsOf(r) \cup {e}
      BY <2>1, <2>5, <3>2
    <3> QED
      BY <2>1, <2>4, <3>2, <3>5, <3>6, <3>7, TakenChange DEF r
  <2>6. CASE ~StoreRead(t)
    <3>1. IsInjective(f.apps)
      BY <1>0, <2>1, <2>6
    <3>2. \A u \in Threads : publishing'[u].pc = "copy" => from'[u] = read'
      BY <2>1, <2>2, <2>3, <2>6
    <3>3. {} \in SUBSET Ringed /\ Ringed' \subseteq Ringed \ {} /\ AppsOf(f) \subseteq AppsOf(r) \cup {}
      BY <2>1, <2>6
    <3> QED
      BY <2>1, <2>4, <3>1, <3>2, <3>3, TakenChange
  <2> QED
    BY <2>5, <2>6
<1>7. ASSUME NEW t \in Threads, PublishNowhere(t) \/ Publish(t) PROVE TakenOnceInv'
  <2> DEFINE r == publishing[t].rec
  <2>1. /\ InFlight(t) /\ r \in Record
        /\ \A u \in Threads : u # t => publishing'[u] = publishing[u]
        /\ \A u \in Threads : /\ InFlight(u)' => u # t /\ InFlight(u)
                              /\ Draining(u)' <=> Draining(u)
        /\ ~Draining(t) /\ Reports' \subseteq Reports /\ Passive /\ from' = from
        /\ records' = records \/ records' = Append(records, r)
    BY <1>7, LeaveShape
  <2>2. \A u \in Threads : Carries(u)' => u # t /\ Carries(u) /\ publishing'[u] = publishing[u]
    BY <2>1 DEF Carries
  <2>3. \A u \in Threads : publishing'[u].pc = "copy" => from'[u] = read'
    <3>1. \A u \in Threads : publishing'[u].pc = "copy" => Draining(u) /\ u # t
      BY <2>1 DEF Draining
    <3> QED
      BY <1>0, <2>1, <3>1 DEF Passive
  <2>4. \A b \in BatchesIn(Reports') : IsInjective(b.apps) /\ AppsOf(b) \cap Ringed' = {}
    BY <1>0, <2>1 DEF BatchesIn, Passive
  <2>5. r.event = "samples" => Carries(t)
    BY <2>1 DEF Carries
  <2>6. CASE records' = records
    <3>1. Batches' = Batches
      BY <2>6 DEF Batches, Received
    <3> QED
      BY <2>2, <2>3, <2>4, <2>6, <3>1 DEF TakenOnceInv, BatchesIn, Apart, AppsOf
  <2>7. CASE records' = Append(records, r)
    <3>1. /\ Received' = Received \cup {r}
          /\ DOMAIN records' = DOMAIN records \cup {Len(records) + 1}
          /\ records'[Len(records) + 1] = r
          /\ \A i \in DOMAIN records : records'[i] = records[i] /\ records[i] \in Received
      <4>1. \A i \in DOMAIN records : records[i] \in Received
        BY DEF Received, Range
      <4> QED
        BY <2>1, <2>7, <4>1, ReceivedStep
    <3> HIDE DEF r
    <3>2. \A b \in Batches' : b \in Batches \/ (b = r /\ Carries(t))
      BY <2>5, <3>1 DEF Batches
    <3>3. Carries(t) => \A b \in Batches : Apart(r, b) /\ Apart(b, r)
      BY DEF TakenOnceInv, Apart, r
    <3>4. \A i, j \in DOMAIN records' :
            records'[i].event = "samples" /\ records'[j].event = "samples" /\ i # j
              => Apart(records'[i], records'[j])
      <4>1. \A i, j \in DOMAIN records :
              records[i].event = "samples" /\ records[j].event = "samples" /\ i # j
                => Apart(records[i], records[j])
        BY DEF TakenOnceInv
      <4>2. \A i \in DOMAIN records : records[i].event = "samples" => records[i] \in Batches
        BY <3>1 DEF Batches
      <4> QED
        BY <2>5, <3>1, <3>3, <4>1, <4>2
    <3>5. \A u \in Threads : Carries(u)' =>
            /\ \A b \in Batches' : Apart(publishing'[u].rec, b)
            /\ \A v \in Threads : Carries(v)' /\ v # u =>
                 Apart(publishing'[u].rec, publishing'[v].rec)
      <4> SUFFICES ASSUME NEW u \in Threads, Carries(u)'
                   PROVE  /\ \A b \in Batches' : Apart(publishing'[u].rec, b)
                          /\ \A v \in Threads : Carries(v)' /\ v # u =>
                               Apart(publishing'[u].rec, publishing'[v].rec)
        OBVIOUS
      <4>1. u # t /\ Carries(u) /\ publishing'[u] = publishing[u]
        BY <2>2
      <4>2. \A b \in Batches : Apart(publishing[u].rec, b)
        BY <4>1 DEF TakenOnceInv
      <4>3. Carries(t) => Apart(publishing[u].rec, r)
        BY <4>1 DEF TakenOnceInv, r
      <4>4. \A v \in Threads : Carries(v)' /\ v # u => Apart(publishing[u].rec, publishing[v].rec)
        BY <2>2, <4>1 DEF TakenOnceInv
      <4> QED
        BY <2>2, <3>2, <4>1, <4>2, <4>3, <4>4
    <3> QED
      BY <2>3, <2>4, <3>4, <3>5 DEF TakenOnceInv, BatchesIn, Apart, AppsOf
  <2> QED
    BY <2>1, <2>6, <2>7
<1>8. TimerDrain \/ CleanupDrain => \E t \in Threads : Drain(t)
  BY DEF TimerDrain, CleanupDrain, Threads
<1> QED
  BY <1>1, <1>2, <1>3, <1>4, <1>5, <1>6, <1>7, <1>8 DEF LogNext, Still, Popping

\* What holds until two publications overlap.
OrderlyInv == SerialInv /\ EmptiedInv /\ InstanceInv /\ OrderInv /\ FateInv

(* A ring that told of losses tells of more. *)
LEMMA DroppedKept ==
  ASSUME IInv, EvidenceInv, NEW x, Dropped(x), droppedApps' >= droppedApps, droppedApps' \in Nat,
         \A b \in BatchesIn(Counted') :
            \/ b \in BatchesIn(Counted)
            \/ \E d \in BatchesIn(Counted) : AppsOf(b) = AppsOf(d) /\ b.dropped = d.dropped
            \/ b.dropped > 0
  PROVE  Dropped(x)'
<1>1. droppedApps' > 0
  BY Numbers DEF Dropped
<1>2. \A b \in BatchesIn(Counted') : (\E y \in AppsOf(b) : Later(y, x)) => b.dropped > 0
  BY DEF Dropped
<1> QED
  BY <1>1, <1>2 DEF Dropped, BatchesIn, Later

(* What is lost stays lost: the IDs go on. *)
LEMMA LostKept ==
  ASSUME IInv, EvidenceInv, NEW x, Lost(x), evidenceId' >= evidenceId, evidenceId' \in Nat,
         \A r \in Received' : r \in Received \/ r.id = evidenceId + 1,
         \A c \in Callbacks' : c \in Callbacks \/ c.msg # x.cmd.msg,
         \A t \in Threads : Answers(t)' => publishing'[t].rec.msg # x.cmd.msg
  PROVE  Lost(x)'
<1>1. PICK k \in 1..evidenceId :
        /\ \A r \in Received : r.id # k
        /\ \A c \in Callbacks : c.msg = x.cmd.msg => c.id < k
        /\ \A t \in Threads : Answers(t) => publishing[t].rec.msg # x.cmd.msg
        /\ \A b \in Batches : (\E y \in AppsOf(b) : Later(y, x)) => b.id > k
  BY DEF Lost
<1>2. k \in 1..evidenceId' /\ evidenceId + 1 # k /\ evidenceId + 1 > k
  BY Numbers
<1>3. \A r \in Received' : r.id # k
  BY <1>1, <1>2
<1>4. \A c \in Callbacks' : c.msg = x.cmd.msg => c.id < k
  BY <1>1
<1>5. \A b \in Batches' : (\E y \in AppsOf(b) : Later(y, x)) => b.id > k
  BY <1>1, <1>2 DEF Batches
<1> QED
  BY <1>2, <1>3, <1>4, <1>5 DEF Lost, Later

(* What becomes of an application while no record is lost or dropped. *)
LEMMA FateKept ==
  ASSUME IInv, EvidenceInv, FateInv, NEW x \in installed,
         \A y \in Ringed : y \in Ringed' \/ \E b \in BatchesIn(Reports') : y \in AppsOf(b),
         \A b \in BatchesIn(Reports) :
           \A y \in AppsOf(b) : \E d \in BatchesIn(Reports') : y \in AppsOf(d),
         droppedApps' >= droppedApps, droppedApps' \in Nat,
         \A b \in BatchesIn(Counted') :
            \/ b \in BatchesIn(Counted)
            \/ \E d \in BatchesIn(Counted) : AppsOf(b) = AppsOf(d) /\ b.dropped = d.dropped
            \/ (droppedApps > 0 => b.dropped > 0),
         evidenceId' >= evidenceId, evidenceId' \in Nat,
         \A r \in Received' : r \in Received \/ r.id = evidenceId + 1,
         \A c \in Callbacks' : c \in Callbacks \/ c.msg # x.cmd.msg,
         \A t \in Threads : Answers(t)' =>
           \/ publishing'[t].rec.msg # x.cmd.msg
           \/ Answers(t) /\ publishing'[t].rec.msg = publishing[t].rec.msg
  PROVE  \/ x \in Ringed'
         \/ \E b \in BatchesIn(Reports') : x \in AppsOf(b)
         \/ Dropped(x)'
         \/ Lost(x)'
<1>1. CASE x \in Ringed \/ \E b \in BatchesIn(Reports) : x \in AppsOf(b)
  BY <1>1
<1>2. CASE Dropped(x)
  <2>1. droppedApps > 0
    BY <1>2 DEF Dropped
  <2> QED
    BY <1>2, <2>1, DroppedKept
<1>3. CASE Lost(x)
  <2>1. \A t \in Threads : Answers(t)' => publishing'[t].rec.msg # x.cmd.msg
    BY <1>3 DEF Lost
  <2> QED
    BY <1>3, <2>1, LostKept
<1> QED
  BY <1>1, <1>2, <1>3 DEF FateInv

(* Load an ID. *)
LEMMA OrderlyLoad ==
  ASSUME IInv, EvidenceInv, OrderlyInv, NEW t \in Threads, LoadId(t)
  PROVE  OrderlyInv'
<1> DEFINE r == publishing[t].rec
<1>1. PICK f \in Record :
           /\ f.event = r.event
           /\ f.id = evidenceId + 1 /\ f.instance = instance
           /\ Answers(t) => f.msg = r.msg
           /\ Carries(t) => /\ AppsOf(f) \subseteq Live /\ AppsOf(f) = AppsOf(r)
                            /\ f.dropped = r.dropped
           /\ InFlight(t) /\ ~Draining(t) /\ r \in Counted
           /\ publishing'[t] = [pc |-> "publish", rec |-> f]
           /\ \A u \in Threads : u # t => publishing'[u] = publishing[u]
           /\ \A u \in Threads : /\ InFlight(u)' <=> InFlight(u)
                                 /\ Draining(u)' <=> Draining(u)
                                 /\ Carries(u)' <=> Carries(u)
                                 /\ Answers(u)' <=> Answers(u)
           /\ Received' = Received /\ Batches' = Batches /\ Callbacks' = Callbacks
           /\ Reports' \subseteq Reports \cup {f} /\ f \in Reports'
           /\ \A q \in Reports : q \in Reports' \/ q = r
           /\ Counted' \subseteq Counted \cup {f}
           /\ Given' \subseteq Given \cup {f}
           /\ Live' \subseteq Live
           /\ Passive /\ evidenceId' = evidenceId
  BY LoadShape
<1>2. /\ publishing'[t].pc = "publish" /\ publishing'[t].rec = f
      /\ \A u \in Threads : /\ Carries(u) => AppsOf(publishing'[u].rec) = AppsOf(publishing[u].rec)
                            /\ Answers(u) => publishing'[u].rec.msg = publishing[u].rec.msg
  BY <1>1
<1>3. /\ UNCHANGED <<life, activation, droppedApps, instance, installed>> /\ Ringed' = Ringed
      /\ Commanding' = Commanding /\ Activating' = Activating /\ Subscribed' = Subscribed
  BY <1>1 DEF Passive, vars, Commanding, Activating, Subscribed
<1>4. Cleaning' <=> Cleaning
  BY <1>1, <1>2 DEF Cleaning, InFlight, Draining, Threads
<1>5. SerialInv'
  <2>1. \A u \in Threads : publishing'[u].pc = "publish" => publishing'[u].rec.id = evidenceId' + 1
    BY <1>1, <1>2 DEF OrderlyInv, SerialInv
  <2> QED
    BY <1>1, <1>3, <1>4, <2>1 DEF OrderlyInv, SerialInv
<1>6. EmptiedInv'
  BY <1>1, <1>3, <1>4 DEF OrderlyInv, EmptiedInv, Threads
<1>7. f.event = "samples" => Carries(t) /\ r \in BatchesIn(Reports) /\ r \in BatchesIn(Counted)
  BY <1>1 DEF Carries, BatchesIn, Reports
<1>8. InstanceInv'
  <2>1. \A b \in BatchesIn(Given') : b \in BatchesIn(Given) \/ (b = f /\ f.event = "samples")
    BY <1>1 DEF BatchesIn
  <2>2. \A b \in BatchesIn(Given') : \A x \in AppsOf(b) :
          /\ Commanding \/ Activating => (x.act = activation => b.instance = instance)
          /\ \A y \in Live : x.act = y.act => b.instance = instance
    BY <1>1, <2>1 DEF OrderlyInv, InstanceInv
  <2>3. \A b, d \in BatchesIn(Given') : \A x \in AppsOf(b), y \in AppsOf(d) :
          x.act = y.act => b.instance = d.instance
    <3>1. ASSUME NEW b \in BatchesIn(Given'), NEW d \in BatchesIn(Given'), NEW x \in AppsOf(b),
                 NEW y \in AppsOf(d), x.act = y.act
          PROVE  b.instance = d.instance
      <4>1. CASE b \in BatchesIn(Given) /\ d \in BatchesIn(Given)
        BY <3>1, <4>1 DEF OrderlyInv, InstanceInv
      <4>2. CASE b = f /\ d = f
        BY <4>2
      <4>3. CASE b \in BatchesIn(Given) /\ d = f /\ f.event = "samples"
        <5>1. y \in Live
          BY <1>1, <1>7, <4>3
        <5> QED
          BY <1>1, <3>1, <4>3, <5>1 DEF OrderlyInv, InstanceInv
      <4>4. CASE d \in BatchesIn(Given) /\ b = f /\ f.event = "samples"
        <5>1. x \in Live
          BY <1>1, <1>7, <4>4
        <5> QED
          BY <1>1, <3>1, <4>4, <5>1 DEF OrderlyInv, InstanceInv
      <4> QED
        BY <2>1, <4>1, <4>2, <4>3, <4>4
    <3> QED
      BY <3>1
  <2> QED
    BY <1>1, <1>3, <2>2, <2>3 DEF InstanceInv, BatchesIn
<1>9. \A b \in BatchesIn(Reports') :
         b \in BatchesIn(Reports) \/ (b = f /\ f.event = "samples")
  BY <1>1 DEF BatchesIn
<1>10. OrderInv'
  <2>1. \A x \in Ringed : \A b \in BatchesIn(Reports') : \A y \in AppsOf(b) : ~Later(y, x)
    BY <1>1, <1>7, <1>9 DEF OrderlyInv, OrderInv
  <2>2. \A u \in Threads : Carries(u)' => \A x \in AppsOf(publishing'[u].rec) :
          \A b \in Batches : \A y \in AppsOf(b) : ~Later(y, x)
    BY <1>1, <1>2 DEF OrderlyInv, OrderInv
  <2> QED
    BY <1>1, <1>3, <2>1, <2>2 DEF OrderInv, BatchesIn, Later, AppsOf
<1>11. ASSUME NEW x \in installed'
       PROVE  \/ x \in Ringed'
              \/ \E b \in BatchesIn(Reports') : x \in AppsOf(b)
              \/ Dropped(x)'
              \/ Lost(x)'
  <2>1. x \in installed /\ FateInv
    BY <1>3 DEF OrderlyInv
  <2>2. \A b \in BatchesIn(Reports) :
           \A y \in AppsOf(b) : \E d \in BatchesIn(Reports') : y \in AppsOf(d)
    <3>1. \A b \in BatchesIn(Reports) : b \in BatchesIn(Reports') \/
            (b = r /\ f \in BatchesIn(Reports') /\ AppsOf(f) = AppsOf(b))
      BY <1>1, <1>7 DEF BatchesIn
    <3> QED
      BY <3>1
  <2>3. \A b \in BatchesIn(Counted') :
            \/ b \in BatchesIn(Counted)
            \/ \E d \in BatchesIn(Counted) : AppsOf(b) = AppsOf(d) /\ b.dropped = d.dropped
    <3>1. \A b \in BatchesIn(Counted') :
            b \in BatchesIn(Counted) \/ (b = f /\ f.event = "samples")
      BY <1>1 DEF BatchesIn
    <3> QED
      BY <1>1, <1>7, <3>1
  <2>4. /\ droppedApps' >= droppedApps /\ droppedApps' \in Nat
        /\ evidenceId' >= evidenceId /\ evidenceId' \in Nat
    BY <1>1, <1>3, Numbers
  <2> QED
    BY <1>1, <1>2, <1>3, <2>1, <2>2, <2>3, <2>4, FateKept
<1> QED
  BY <1>5, <1>6, <1>8, <1>10, <1>11 DEF OrderlyInv, FateInv

(* A sample is popped, or none. *)
LEMMA OrderlyPop ==
  ASSUME IInv, EvidenceInv, PushedInv, TakenOnceInv, OrderlyInv, ~drainsMet,
         NEW t \in Threads, Popping(t)
  PROVE  OrderlyInv'
<1> DEFINE r == publishing[t].rec
           e == ring[read + 1]
<1>1. PICK f \in SamplesRecord :
           /\ f.event = "samples" /\ publishing'[t].rec = f /\ publishing'[t].pc # "publish"
           /\ Draining(t) /\ Carries(t) /\ r \in BatchesIn(Reports) /\ r \in SamplesRecord
           /\ \A u \in Threads : u # t => publishing'[u] = publishing[u]
           /\ \A u \in Threads : /\ InFlight(u)' <=> InFlight(u)
                                 /\ Draining(u)' => Draining(u)
                                 /\ Carries(u)' <=> Carries(u)
                                 /\ Answers(u)' <=> Answers(u)
           /\ Received' = Received /\ Batches' = Batches /\ Callbacks' = Callbacks
           /\ Reports' \subseteq Reports \cup {f} /\ f \in Reports'
           /\ \A q \in Reports : q \in Reports' \/ q = r
           /\ EndDrain(t) => /\ Counted' \subseteq Counted \cup {f} /\ f.dropped = droppedApps
                             /\ read = Len(ring) \/ t = "executor" \/ drainsMet
           /\ ~EndDrain(t) => Counted' \subseteq Counted /\ Draining(t)'
           /\ Given' \subseteq Given
           /\ UNCHANGED <<vars, ring, droppedApps, instance, installed, overlapped, drainsMet>>
           /\ records' = records /\ evidenceId' = evidenceId
           /\ \/ /\ StoreRead(t) /\ publishing[t].pc = "copy"
                 /\ from[t] \in Nat /\ from[t] < Len(ring)
                 /\ AppsOf(f) = AppsOf(r) \cup {ring[from[t] + 1]}
                 /\ read' = from[t] + 1
              \/ /\ ~StoreRead(t)
                 /\ AppsOf(f) = AppsOf(r)
                 /\ read' = read /\ Ringed' = Ringed
  BY PopShape
<1>2. \A u \in Threads : u # t => ~InFlight(u)
  BY <1>1 DEF OrderlyInv, SerialInv, InFlight
<1>3. /\ UNCHANGED <<life, activation, droppedApps, instance, installed>>
      /\ Commanding' = Commanding /\ Activating' = Activating /\ Subscribed' = Subscribed
  BY <1>1 DEF vars, Commanding, Activating, Subscribed
<1>4. Cleaning' => Cleaning
  BY <1>1 DEF Cleaning, InFlight, Draining, Threads
<1>5. PICK E \in SUBSET Ringed : /\ AppsOf(f) = AppsOf(r) \cup E
                                 /\ Ringed' \subseteq Ringed /\ Ringed \subseteq Ringed' \cup E
                                 /\ \A y \in E : \A x \in Ringed' : ~Later(y, x)
  <2>1. CASE StoreRead(t)
    <3>1. from[t] = read /\ read < Len(ring) /\ read' = read + 1
      BY <1>1, <2>1 DEF TakenOnceInv
    <3>2. /\ e \in Ringed /\ Ringed' \subseteq Ringed /\ Ringed \subseteq Ringed' \cup {e}
          /\ \A x \in Ringed' : ~Later(e, x)
      BY <1>1, <3>1, PoppedShape
    <3>3. AppsOf(f) = AppsOf(r) \cup {e}
      BY <1>1, <2>1, <3>1
    <3> HIDE DEF e, r
    <3>4. {e} \in SUBSET Ringed
      BY <3>2
    <3> QED
      BY <3>2, <3>3, <3>4
  <2>2. CASE ~StoreRead(t)
    <3>1. {} \in SUBSET Ringed /\ AppsOf(f) = AppsOf(r) \cup {} /\ Ringed' = Ringed
      BY <1>1, <2>2
    <3> QED
      BY <3>1
  <2> QED
    BY <2>1, <2>2
<1>6. SerialInv'
  BY <1>1, <1>2, <1>3, <1>4 DEF OrderlyInv, SerialInv, InFlight
<1>7. EmptiedInv'
  <2>1. Subscribed /\ (t = "executor" => ~Cleaning)
    BY <1>1 DEF OrderlyInv, SerialInv
  <2>2. ASSUME Cleaning', ~Draining("manager")' PROVE Ringed' = {}
    <3>1. t = "manager"
      BY <1>4, <2>1, <2>2 DEF Threads
    <3>2. EndDrain(t) /\ ~StoreRead(t)
      BY <1>1, <2>2, <3>1 DEF EndDrain
    <3>3. read = Len(ring) /\ Ringed' = Ringed
      BY <1>1, <3>1, <3>2
    <3>4. Len(ring) \in Nat
      BY DEF EvidenceInv, LogTypeOK
    <3>5. Ringed = {}
      BY <3>3, <3>4 DEF Ringed
    <3> QED
      BY <3>3, <3>5
  <2> QED
    BY <1>3, <2>1, <2>2 DEF EmptiedInv
<1>8. Live' \subseteq Live
  <2>1. Live' \subseteq Ringed' \cup AppsOf(f)
    BY <1>1, <1>2 DEF Live, Carries, AppsOf
  <2>2. Ringed \subseteq Live
    BY DEF Live
  <2>3. AppsOf(r) \subseteq Live
    <3>1. publishing[t].pc # "publish"
      BY <1>1 DEF Draining
    <3> QED
      BY <1>1, <3>1 DEF Live
  <2> QED
    BY <1>5, <2>1, <2>2, <2>3
<1>9. BatchesIn(Given') \subseteq BatchesIn(Given)
  BY <1>1 DEF BatchesIn
<1>10. InstanceInv'
  BY <1>3, <1>8, <1>9 DEF OrderlyInv, InstanceInv, BatchesIn
<1>11. OrderInv'
  <2>1. \A x \in Ringed : \A b \in BatchesIn(Reports) : \A y \in AppsOf(b) : ~Later(y, x)
    BY DEF OrderlyInv, OrderInv
  <2>2. \A x \in AppsOf(r) : \A b \in Batches : \A y \in AppsOf(b) : ~Later(y, x)
    BY <1>1 DEF OrderlyInv, OrderInv
  <2>3. \A b \in BatchesIn(Reports') : b \in BatchesIn(Reports) \/ b = f
    BY <1>1 DEF BatchesIn
  <2>4. \A b \in Batches : b \in BatchesIn(Reports)
    BY ReportsAreTrue DEF Batches, BatchesIn
  <2>5. \A x \in Ringed' : \A b \in BatchesIn(Reports') : \A y \in AppsOf(b) : ~Later(y, x)
    BY <1>1, <1>5, <2>1, <2>3
  <2>6. \A x \in AppsOf(f) : \A b \in Batches : \A y \in AppsOf(b) : ~Later(y, x)
    BY <1>5, <2>1, <2>2, <2>4
  <2>7. \A u \in Threads : Carries(u)' => u = t
    BY <1>1, <1>2 DEF Carries
  <2>8. \A u \in Threads : Carries(u)' => \A x \in AppsOf(publishing'[u].rec) :
          \A b \in Batches : \A y \in AppsOf(b) : ~Later(y, x)
    BY <1>1, <2>6, <2>7
  <2> QED
    BY <1>1, <2>5, <2>8 DEF OrderInv, BatchesIn, Later, AppsOf
<1>12. ASSUME NEW x \in installed'
       PROVE  \/ x \in Ringed'
              \/ \E b \in BatchesIn(Reports') : x \in AppsOf(b)
              \/ Dropped(x)'
              \/ Lost(x)'
  <2>1. x \in installed /\ FateInv
    BY <1>3 DEF OrderlyInv
  <2>2. f \in BatchesIn(Reports')
    BY <1>1 DEF BatchesIn
  <2>3. \A y \in Ringed : y \in Ringed' \/ \E b \in BatchesIn(Reports') : y \in AppsOf(b)
    BY <1>5, <2>2
  <2>4. \A b \in BatchesIn(Reports) :
           \A y \in AppsOf(b) : \E d \in BatchesIn(Reports') : y \in AppsOf(d)
    <3>1. \A b \in BatchesIn(Reports) : b \in BatchesIn(Reports') \/ b = r
      BY <1>1 DEF BatchesIn
    <3> QED
      BY <1>5, <2>2, <3>1
  <2>5. \A b \in BatchesIn(Counted') :
            b \in BatchesIn(Counted) \/ (droppedApps > 0 => b.dropped > 0)
    BY <1>1 DEF BatchesIn
  <2>6. /\ droppedApps' >= droppedApps /\ droppedApps' \in Nat
        /\ evidenceId' >= evidenceId /\ evidenceId' \in Nat
    BY <1>1, <1>3, Numbers
  <2>7. \A u \in Threads : Answers(u)' =>
          Answers(u) /\ publishing'[u].rec.msg = publishing[u].rec.msg
    BY <1>1, <1>2 DEF Answers, Carries
  <2> QED
    BY <1>1, <2>1, <2>3, <2>4, <2>5, <2>6, <2>7, FateKept
<1> QED
  BY <1>6, <1>7, <1>10, <1>11, <1>12 DEF OrderlyInv, FateInv

(* A record leaves its thread. *)
LEMMA OrderlyLeave ==
  ASSUME IInv, EvidenceInv, OnceInv, OrderlyInv, NEW t \in Threads, PublishNowhere(t) \/ Publish(t)
  PROVE  OrderlyInv'
<1> DEFINE r == publishing[t].rec
<1>1. /\ InFlight(t) /\ ~InFlight(t)' /\ ~Draining(t)
      /\ \A u \in Threads : u # t => publishing'[u] = publishing[u]
      /\ \A u \in Threads : /\ InFlight(u)' => u # t /\ InFlight(u)
                            /\ Draining(u)' <=> Draining(u)
      /\ t = "manager" => publishing'[t].pc = "reset"
      /\ t = "executor" => publishing'[t].pc = "idle"
      /\ Reports' \subseteq Reports
      /\ \A q \in Reports : q \in Reports' \/ q = r
      /\ Counted' \subseteq Counted
      /\ Given' \subseteq Given
      /\ Live' \subseteq Live
      /\ Passive
      /\ PublishNowhere(t) => records' = records /\ evidenceId' = evidenceId /\ ~Subscribed
      /\ Publish(t) => /\ publishing[t].pc = "publish"
                       /\ Received' \subseteq Received \cup {r}
                       /\ evidenceId' = r.id
  BY LeaveShape
<1>2. \A u \in Threads : ~InFlight(u)' /\ ~Carries(u)' /\ ~Answers(u)'
  <2>1. \A u \in Threads : u # t => ~InFlight(u)
    BY <1>1 DEF OrderlyInv, SerialInv
  <2>2. \A u \in Threads : ~InFlight(u)'
    BY <1>1, <2>1
  <2> QED
    BY <2>2 DEF Carries, Answers
<1>3. /\ UNCHANGED <<life, activation, droppedApps, instance, installed>> /\ Ringed' = Ringed
      /\ Commanding' = Commanding /\ Activating' = Activating /\ Subscribed' = Subscribed
      /\ Received \subseteq Received'
  BY <1>1 DEF Passive, vars, Commanding, Activating, Subscribed
<1>4. r \in Reports /\ (Answers(t) \/ Carries(t))
  BY <1>1, ReportsAreTrue
<1>5. Publish(t) => r.id = evidenceId + 1 /\ evidenceId' = evidenceId + 1
  BY <1>1 DEF OrderlyInv, SerialInv
<1>6. evidenceId' \in {evidenceId, evidenceId + 1} /\ evidenceId' >= evidenceId /\ evidenceId' \in Nat
  BY <1>1, <1>5, Numbers
<1>7. Received' \subseteq Received \cup {r} /\ (r \in Received' => r \in Received \/ Publish(t))
  <2>1. PublishNowhere(t) => Received' = Received
    BY <1>1 DEF Received
  <2> QED
    BY <1>1, <2>1
<1>8. SerialInv'
  <2>1. \A q \in Received' : q.id <= evidenceId'
    <3>1. \A q \in Received : q.id <= evidenceId /\ q.id \in Nat
      BY Numbers, ReportsAreTrue DEF OrderlyInv, SerialInv
    <3>2. \A q \in Received : q.id <= evidenceId'
      BY <1>6, <3>1, Numbers
    <3>3. Publish(t) => r.id <= evidenceId'
      BY <1>5, <1>6
    <3> QED
      BY <1>7, <3>2, <3>3
  <2>2. \A u \in Threads : publishing'[u].pc # "publish"
    BY <1>2 DEF InFlight
  <2> QED
    BY <1>2, <2>1, <2>2 DEF SerialInv
<1>9. EmptiedInv'
  <2>1. ASSUME Cleaning', ~Draining("manager") PROVE Ringed = {}
    <3>1. CASE t = "manager"
      <4>1. Cleaning
        BY <1>1, <3>1 DEF Cleaning, InFlight, Draining
      <4> QED
        BY <2>1, <4>1 DEF OrderlyInv, EmptiedInv
    <3>2. CASE t = "executor"
      <4>1. Cleaning
        BY <1>1, <2>1, <3>2 DEF Cleaning, Threads
      <4> QED
        BY <2>1, <4>1 DEF OrderlyInv, EmptiedInv
    <3> QED
      BY <3>1, <3>2 DEF Threads
  <2>2. Draining("manager")' <=> Draining("manager")
    BY <1>1 DEF Threads
  <2> QED
    BY <1>3, <2>1, <2>2 DEF OrderlyInv, EmptiedInv
<1>10. InstanceInv'
  <2>1. BatchesIn(Given') \subseteq BatchesIn(Given)
    BY <1>1 DEF BatchesIn
  <2> QED
    BY <1>1, <1>3, <2>1 DEF OrderlyInv, InstanceInv, BatchesIn
<1>11. OrderInv'
  <2>1. BatchesIn(Reports') \subseteq BatchesIn(Reports)
    BY <1>1 DEF BatchesIn
  <2> QED
    BY <1>2, <1>3, <2>1 DEF OrderlyInv, OrderInv, BatchesIn, Later
<1>12. ASSUME NEW x \in installed'
       PROVE  \/ x \in Ringed'
              \/ \E b \in BatchesIn(Reports') : x \in AppsOf(b)
              \/ Dropped(x)'
              \/ Lost(x)'
  <2>1. x \in installed
    BY <1>3
  <2>2. CASE x \in Ringed
    BY <1>3, <2>2
  <2>3. CASE \E b \in BatchesIn(Reports) : x \in AppsOf(b)
    <3>1. PICK b \in BatchesIn(Reports) : x \in AppsOf(b)
      BY <2>3
    <3>2. CASE b \in Reports'
      <4>1. b \in BatchesIn(Reports')
        BY <3>1, <3>2 DEF BatchesIn
      <4> QED
        BY <3>1, <4>1
    <3>3. CASE b \notin Reports'
      <4>1. b = r /\ r \notin Received'
        <5>1. b \in Reports /\ b = r
          BY <1>1, <3>1, <3>3 DEF BatchesIn
        <5>2. Received' \subseteq Reports'
          BY DEF Reports
        <5> QED
          BY <3>3, <5>1, <5>2
      <4>2. Carries(t) /\ ~Answers(t)
        BY <1>4, <3>1, <4>1 DEF BatchesIn, Answers, Carries
      <4>3. Publish(t)
        BY <1>1, <4>2 DEF OrderlyInv, SerialInv
      <4>4. Received' = Received /\ Batches' = Batches /\ Callbacks' = Callbacks
        <5>1. Received' = Received
          BY <1>3, <1>7, <4>1
        <5> QED
          BY <5>1 DEF Batches, Callbacks
      <4>5. \A q \in Received : q.id < evidenceId + 1 /\ q.id # evidenceId + 1
        BY Numbers, ReportsAreTrue DEF OrderlyInv, SerialInv
      <4>6. evidenceId + 1 \in 1..evidenceId'
        BY <1>5, <4>3, Numbers
      <4>7. \A c \in Callbacks' : c.id < evidenceId + 1
        BY <4>4, <4>5 DEF Callbacks
      <4>8. \A d \in Batches' : ~\E y \in AppsOf(d) : Later(y, x)
        BY <3>1, <4>1, <4>2, <4>4 DEF OrderlyInv, OrderInv
      <4>9. Lost(x)'
        BY <1>2, <4>4, <4>5, <4>6, <4>7, <4>8 DEF Lost, Later
      <4> QED
        BY <4>9
    <3> QED
      BY <3>2, <3>3
  <2>4. CASE Dropped(x)
    <3>1. droppedApps' >= droppedApps /\ droppedApps' \in Nat
      BY <1>3, Numbers
    <3>2. \A b \in BatchesIn(Counted') : b \in BatchesIn(Counted)
      BY <1>1 DEF BatchesIn
    <3>3. Dropped(x)'
      BY <2>4, <3>1, <3>2, DroppedKept
    <3> QED
      BY <3>3
  <2>5. CASE Lost(x)
    <3>1. \A q \in Received' : q \in Received \/ q.id = evidenceId + 1
      BY <1>1, <1>5, <1>7
    <3>2. \A c \in Callbacks' : c \in Callbacks \/ c.msg # x.cmd.msg
      <4>1. ASSUME NEW c \in Callbacks', c \notin Callbacks PROVE c.msg # x.cmd.msg
        <5>1. c = r /\ c.event = "callback"
          BY <1>7, <4>1 DEF Callbacks
        <5>2. Answers(t)
          BY <1>1, <5>1 DEF Answers
        <5> QED
          BY <2>5, <5>1, <5>2 DEF Lost
      <4> QED
        BY <4>1
    <3>3. Lost(x)'
      BY <1>2, <1>6, <2>5, <3>1, <3>2, LostKept
    <3> QED
      BY <3>3
  <2> QED
    BY <2>1, <2>2, <2>3, <2>4, <2>5 DEF OrderlyInv, FateInv
<1> QED
  BY <1>8, <1>9, <1>10, <1>11, <1>12 DEF OrderlyInv, FateInv

(* A record enters a thread while the other has none: a callback's ... *)
LEMMA OrderlyEmit ==
  ASSUME IInv, EvidenceInv, OnceInv, OrderlyInv, Emit, ~overlapped'
  PROVE  OrderlyInv'
<1> DEFINE t == "executor"
           rec == [event |-> "callback", instance |-> 0, id |-> 0, msg |-> cb.cmd.msg,
                   act |-> cb.cmd.act, seq |-> cb.cmd.seq, accepted |-> cb.pc = "write"]
<1>1. Begin(t, "begin", rec) /\ records' = records /\ t \in Threads
  BY DEF Emit, Threads
<1>2. rec.event = "callback" /\ rec.msg = cb.cmd.msg
  OBVIOUS
<1> HIDE DEF rec
<1>3. /\ publishing'[t] = [pc |-> "begin", rec |-> rec] /\ InFlight(t)'
      /\ \A u \in Threads : u # t => publishing'[u] = publishing[u]
      /\ Received' = Received /\ Batches' = Batches /\ Callbacks' = Callbacks
      /\ Reports' \subseteq Reports \cup {rec}
      /\ Counted' \subseteq Counted \cup {rec}
      /\ Given' \subseteq Given
      /\ \A u \in Threads : ~InFlight(u)
      /\ Reports = Received /\ Received \subseteq Reports'
      /\ \A u \in Threads : InFlight(u)' => u = t
  BY <1>1, EnterShape
<1>4. /\ UNCHANGED <<life, activation, droppedApps, instance, installed, ring, read, evidenceId>>
      /\ Ringed' = Ringed
      /\ Commanding' = Commanding /\ Activating' = Activating /\ Subscribed' = Subscribed
  BY DEF Emit, CallbackWrite, CallbackReject, Ringed, Commanding, Activating, Subscribed
<1>5. /\ publishing'[t].pc = "begin" /\ publishing'[t].rec = rec
      /\ \A u \in Threads : ~Carries(u)'
  BY <1>2, <1>3 DEF Carries
<1>6. \A u \in Threads : publishing'[u].pc # "publish"
  BY <1>3, <1>5 DEF InFlight
<1>7. SerialInv'
  BY <1>3, <1>4, <1>5, <1>6 DEF OrderlyInv, SerialInv
<1>8. EmptiedInv'
  BY <1>3, <1>4 DEF OrderlyInv, EmptiedInv, Cleaning, InFlight, Threads
<1>9. Live' \subseteq Live
  BY <1>4, <1>5 DEF Live
<1>10. /\ BatchesIn(Reports') \subseteq BatchesIn(Reports)
       /\ BatchesIn(Counted') \subseteq BatchesIn(Counted)
       /\ BatchesIn(Given') \subseteq BatchesIn(Given)
  BY <1>2, <1>3 DEF BatchesIn
<1>11. InstanceInv'
  BY <1>4, <1>9, <1>10 DEF OrderlyInv, InstanceInv, BatchesIn
<1>12. OrderInv'
  BY <1>4, <1>5, <1>10 DEF OrderlyInv, OrderInv, BatchesIn, Later
<1>13. ASSUME NEW x \in installed'
       PROVE  \/ x \in Ringed'
              \/ \E b \in BatchesIn(Reports') : x \in AppsOf(b)
              \/ Dropped(x)'
              \/ Lost(x)'
  <2>1. x \in installed /\ FateInv
    BY <1>4 DEF OrderlyInv
  <2>2. cb.pc # "idle" /\ cb.cmd.msg = received
    BY DEF Emit, CallbackWrite, CallbackReject, IInv, ArrivalInv
  <2>3. x.cmd \in Written
    BY <2>1 DEF Written, EvidenceInv, InstalledInv
  <2>4. x.cmd.msg # received
    BY <2>1, <2>2, <2>3, Numbers DEF OnceInv, WrittenOnceInv
  <2>5. \A u \in Threads : Answers(u)' => publishing'[u].rec.msg # x.cmd.msg
    BY <1>2, <1>3, <1>5, <2>2, <2>4 DEF Answers
  <2>6. \A b \in BatchesIn(Reports) :
           \A y \in AppsOf(b) : \E d \in BatchesIn(Reports') : y \in AppsOf(d)
    BY <1>3 DEF BatchesIn
  <2>7. /\ droppedApps' >= droppedApps /\ droppedApps' \in Nat
        /\ evidenceId' >= evidenceId /\ evidenceId' \in Nat
    BY <1>4, Numbers
  <2> QED
    BY <1>3, <1>4, <1>10, <2>1, <2>5, <2>6, <2>7, FateKept
<1> QED
  BY <1>7, <1>8, <1>11, <1>12, <1>13 DEF OrderlyInv, FateInv

(* ... or the batch of a drain, which is empty yet. *)
LEMMA OrderlyDrain ==
  ASSUME IInv, EvidenceInv, OrderlyInv, NEW t \in Threads, Drain(t), ~overlapped',
         Subscribed, t = "executor" => ~Cleaning'
  PROVE  OrderlyInv'
<1>1. PICK rec \in SamplesRecord :
           /\ rec.event = "samples" /\ AppsOf(rec) = {}
           /\ Begin(t, "pop", rec) /\ records' = records
           /\ UNCHANGED <<vars, ring, read, droppedApps, instance, evidenceId, installed>>
           /\ Ringed' = Ringed
  BY DrainShape
<1>2. /\ publishing'[t] = [pc |-> "pop", rec |-> rec] /\ InFlight(t)'
      /\ \A u \in Threads : u # t => publishing'[u] = publishing[u]
      /\ Received' = Received /\ Batches' = Batches /\ Callbacks' = Callbacks
      /\ Reports' \subseteq Reports \cup {rec} /\ rec \in Reports'
      /\ Counted' \subseteq Counted
      /\ Given' \subseteq Given
      /\ \A u \in Threads : ~InFlight(u)
      /\ Reports = Received /\ Received \subseteq Reports'
      /\ \A u \in Threads : InFlight(u)' => u = t
  BY <1>1, EnterShape
<1>3. /\ UNCHANGED <<life, activation, droppedApps, instance, installed, evidenceId>>
      /\ Commanding' = Commanding /\ Activating' = Activating /\ Subscribed' = Subscribed
  BY <1>1 DEF vars, Commanding, Activating, Subscribed
<1>4. /\ publishing'[t].pc = "pop" /\ publishing'[t].rec = rec
      /\ \A u \in Threads : (Carries(u)' => u = t) /\ ~Answers(u)'
  BY <1>1, <1>2 DEF Carries, Answers
<1>5. \A u \in Threads : publishing'[u].pc # "publish"
  BY <1>2, <1>4 DEF InFlight
<1>6. SerialInv'
  BY <1>2, <1>3, <1>4, <1>5 DEF OrderlyInv, SerialInv
<1>7. EmptiedInv'
  <2>1. t = "manager" => Draining("manager")'
    BY <1>4 DEF Draining
  <2> QED
    BY <1>3, <2>1 DEF EmptiedInv, Threads
<1>8. Live' \subseteq Live
  <2>1. Live' \subseteq Ringed' \cup AppsOf(rec)
    BY <1>4 DEF Live, AppsOf
  <2> QED
    BY <1>1, <2>1 DEF Live
<1>9. BatchesIn(Given') \subseteq BatchesIn(Given) /\ BatchesIn(Counted') \subseteq BatchesIn(Counted)
  BY <1>2 DEF BatchesIn
<1>10. InstanceInv'
  BY <1>3, <1>8, <1>9 DEF OrderlyInv, InstanceInv, BatchesIn
<1>11. OrderInv'
  <2>1. \A x \in Ringed' : \A b \in BatchesIn(Reports') : \A y \in AppsOf(b) : ~Later(y, x)
    <3>1. \A b \in BatchesIn(Reports') : b \in BatchesIn(Reports) \/ b = rec
      BY <1>2 DEF BatchesIn
    <3> QED
      BY <1>1, <3>1 DEF OrderlyInv, OrderInv
  <2>2. \A u \in Threads : Carries(u)' => AppsOf(publishing'[u].rec) = {}
    BY <1>1, <1>4
  <2> QED
    BY <2>1, <2>2 DEF OrderInv, BatchesIn, Later, AppsOf
<1>12. ASSUME NEW x \in installed'
       PROVE  \/ x \in Ringed'
              \/ \E b \in BatchesIn(Reports') : x \in AppsOf(b)
              \/ Dropped(x)'
              \/ Lost(x)'
  <2>1. x \in installed /\ FateInv
    BY <1>3 DEF OrderlyInv
  <2>2. \A b \in BatchesIn(Reports) :
           \A y \in AppsOf(b) : \E d \in BatchesIn(Reports') : y \in AppsOf(d)
    BY <1>2 DEF BatchesIn
  <2>3. /\ droppedApps' >= droppedApps /\ droppedApps' \in Nat
        /\ evidenceId' >= evidenceId /\ evidenceId' \in Nat
    BY <1>3, Numbers
  <2> QED
    BY <1>1, <1>2, <1>4, <1>9, <2>1, <2>2, <2>3, FateKept
<1> QED
  BY <1>6, <1>7, <1>10, <1>11, <1>12 DEF OrderlyInv, FateInv

(* The steps that take no part in a publication: an update ... *)
LEMMA OrderlyCapture ==
  ASSUME IInv, IInv', EvidenceInv, NewestInv, CleanInv, OrderlyInv, CapturedUpdate
  PROVE  OrderlyInv'
<1>1. /\ Reports' = Reports /\ Counted' = Counted /\ Given' = Given /\ Received' = Received
      /\ Batches' = Batches /\ Callbacks' = Callbacks
      /\ evidenceId' = evidenceId /\ read' = read
  BY StillShape DEF Still
<1>2. /\ activation' = activation /\ Commanding /\ Commanding' /\ publishing' = publishing
      /\ instance' = instance /\ Subscribed'
  BY CaptureShape DEF CapturedUpdate, Subscribed, Commanding
<1>3. \A t \in Threads : /\ Carries(t)' <=> Carries(t)
                         /\ Answers(t)' <=> Answers(t)
                         /\ InFlight(t)' <=> InFlight(t)
  BY <1>2 DEF Carries, Answers, InFlight, Draining
<1>4. SerialInv'
  BY <1>1, <1>2, <1>3 DEF OrderlyInv, SerialInv, Cleaning
<1>5. EmptiedInv'
  <2>1. ~Cleaning
    BY <1>2 DEF CleanInv
  <2> QED
    BY <1>2, <2>1 DEF EmptiedInv, Cleaning
<1>6. \A b \in BatchesIn(Reports) : AppsOf(b) \subseteq installed
  BY ReportsAreTrue
<1>7. \A b \in BatchesIn(Given) : b \in BatchesIn(Reports)
  BY ReportsAreTrue DEF BatchesIn
<1>8. CASE UNCHANGED <<ring, droppedApps, installed>>
  <2>1. Ringed' = Ringed /\ Live' = Live
    BY <1>1, <1>2, <1>3, <1>8 DEF Ringed, Live
  <2>2. InstanceInv'
    BY <1>1, <1>2, <2>1 DEF OrderlyInv, InstanceInv, BatchesIn
  <2>3. OrderInv'
    BY <1>1, <1>2, <1>3, <2>1 DEF OrderlyInv, OrderInv, BatchesIn, Later
  <2>4. FateInv'
    BY <1>1, <1>2, <1>3, <1>8, <2>1 DEF OrderlyInv, FateInv, Dropped, Lost, BatchesIn, Later
  <2> QED
    BY <1>4, <1>5, <2>2, <2>3, <2>4 DEF OrderlyInv
<1>9. CASE \E app \in Application :
             /\ app.act = activation /\ app.cmd.seq > lastApplied
             /\ installed' = installed \cup {app}
             /\ \/ ring' = Append(ring, app) /\ droppedApps' = droppedApps
                \/ droppedApps' = droppedApps + 1 /\ ring' = ring
  <2>1. PICK app \in Application :
             /\ app.act = activation /\ app.cmd.seq > lastApplied
             /\ installed' = installed \cup {app}
             /\ \/ ring' = Append(ring, app) /\ droppedApps' = droppedApps
                \/ droppedApps' = droppedApps + 1 /\ ring' = ring
    BY <1>9
  <2>2. \A b \in BatchesIn(Reports) : \A y \in AppsOf(b) : ~Later(y, app)
    <3>1. app.cmd.seq \in Nat
      BY BoundsAssumption DEF Application, Command, Targets
    <3>2. \A y \in installed : y.act = activation => ~(y.cmd.seq > app.cmd.seq)
      BY <1>2, <2>1, <3>1, Numbers DEF NewestInv
    <3> QED
      BY <1>6, <2>1, <3>2 DEF Later
  <2>3. /\ Ringed \subseteq Ringed' /\ Ringed' \subseteq Ringed \cup {app}
        /\ app \in Ringed' \/ droppedApps' = droppedApps + 1
    <3>1. CASE ring' = ring /\ droppedApps' = droppedApps + 1
      BY <1>1, <3>1 DEF Ringed
    <3>2. CASE ring' = Append(ring, app)
      <4>1. ring \in Seq(Application) /\ Len(ring) \in Nat /\ read \in Nat /\ read <= Len(ring)
        BY DEF EvidenceInv, LogTypeOK, CarriedInv
      <4>2. /\ Len(ring') = Len(ring) + 1 /\ ring'[Len(ring) + 1] = app
            /\ \A i \in 1..Len(ring) : ring'[i] = ring[i]
        BY <3>2, <4>1
      <4>3. \A i \in (read + 1)..Len(ring) : i \in (read + 1)..Len(ring') /\ ring'[i] = ring[i]
        BY <4>1, <4>2
      <4>4. \A i \in (read + 1)..Len(ring') :
              (i \in (read + 1)..Len(ring) /\ ring'[i] = ring[i]) \/ ring'[i] = app
        BY <4>1, <4>2
      <4>5. Len(ring) + 1 \in (read + 1)..Len(ring')
        BY <4>1, <4>2
      <4> QED
        BY <1>1, <4>2, <4>3, <4>4, <4>5 DEF Ringed
    <3> QED
      BY <2>1, <3>1, <3>2
  <2>4. Live' \subseteq Live \cup {app}
    BY <1>2, <1>3, <2>3 DEF Live
  <2>5. InstanceInv'
    <3>1. \A b \in BatchesIn(Given) : \A x \in AppsOf(b) :
            /\ x.act = activation => b.instance = instance
            /\ \A y \in Live' : x.act = y.act => b.instance = instance
      BY <1>2, <2>1, <2>4 DEF OrderlyInv, InstanceInv
    <3> QED
      BY <1>1, <1>2, <3>1 DEF OrderlyInv, InstanceInv, BatchesIn
  <2>6. OrderInv'
    <3>1. \A x \in Ringed' : \A b \in BatchesIn(Reports) : \A y \in AppsOf(b) : ~Later(y, x)
      BY <2>2, <2>3 DEF OrderlyInv, OrderInv
    <3> QED
      BY <1>1, <1>2, <1>3, <3>1 DEF OrderlyInv, OrderInv, BatchesIn, Later
  <2>7. ASSUME NEW x \in installed'
        PROVE  \/ x \in Ringed'
               \/ \E b \in BatchesIn(Reports') : x \in AppsOf(b)
               \/ Dropped(x)'
               \/ Lost(x)'
    <3>1. /\ droppedApps' >= droppedApps /\ droppedApps' \in Nat /\ droppedApps + 1 > 0
          /\ evidenceId' >= evidenceId /\ evidenceId' \in Nat
      BY <1>1, <2>1, Numbers
    <3>2. CASE x = app
      <4>1. CASE app \in Ringed'
        BY <3>2, <4>1
      <4>2. CASE droppedApps' = droppedApps + 1
        <5>1. \A b \in BatchesIn(Counted) : ~\E y \in AppsOf(b) : Later(y, app)
          BY <2>2, ReportsAreTrue DEF BatchesIn
        <5>2. Dropped(x)'
          BY <1>1, <3>1, <3>2, <4>2, <5>1 DEF Dropped, BatchesIn, Later
        <5> QED
          BY <5>2
      <4> QED
        BY <2>3, <4>1, <4>2
    <3>3. CASE x \in installed
      <4>1. FateInv
        BY DEF OrderlyInv
      <4>2. \A t \in Threads : Answers(t)' =>
              Answers(t) /\ publishing'[t].rec.msg = publishing[t].rec.msg
        BY <1>2, <1>3
      <4> QED
        BY <1>1, <2>3, <3>1, <3>3, <4>1, <4>2, FateKept
    <3> QED
      BY <2>1, <3>2, <3>3
  <2> QED
    BY <1>4, <1>5, <2>5, <2>6, <2>7 DEF OrderlyInv, FateInv
<1> QED
  BY <1>8, <1>9, CaptureShape

(* ... a callback that goes on, or a switch. *)
LEMMA OrderlyStill ==
  ASSUME IInv, IInv', EvidenceInv, NewestInv, OrderlyInv, [LogNext]_allVars,
         Still, ~CapturedUpdate
  PROVE  OrderlyInv'
<1>1. /\ Reports' = Reports /\ Counted' = Counted /\ Given' = Given /\ Received' = Received
      /\ Batches' = Batches /\ Callbacks' = Callbacks
      /\ evidenceId' = evidenceId
      /\ \A t \in Threads : /\ InFlight(t)' <=> InFlight(t)
                            /\ Draining(t)' <=> Draining(t)
                            /\ InFlight(t) => publishing'[t] = publishing[t]
                            /\ publishing[t].pc = "publish" <=> publishing'[t].pc = "publish"
      /\ publishing' = publishing \/ (CleanupReset /\ publishing'["manager"].pc = "idle")
      /\ ring' = ring /\ Ringed' = Ringed /\ Live' = Live
      /\ droppedApps' = droppedApps /\ installed' = installed
  BY StillShape
<1>2. \A t \in Threads : /\ Carries(t)' <=> Carries(t)
                         /\ Answers(t)' <=> Answers(t)
                         /\ Carries(t) => publishing'[t] = publishing[t]
                         /\ Answers(t) => publishing'[t] = publishing[t]
                         /\ publishing[t].pc = "publish" => publishing'[t] = publishing[t]
  BY <1>1 DEF Carries, Answers, InFlight
<1>3. ~CleanupReset => (Subscribed => Subscribed')
  <2>1. TakeMessage \/ CallbackGoesOn \/ EarlyUpdate \/ UNCHANGED allVars =>
          (Subscribed => Subscribed')
    BY DEF TakeMessage, CallbackGoesOn, EarlyUpdate, allVars, vars, CallbackEnter,
         CallbackCheck, CallbackSequence, UpdateNoState, Subscribed
  <2>2. Switch => Subscribed'
    BY DEF Switch, ActivateRefused, ActivateStore, ActivateHold, ActivateReset, ActivateCommand,
         OnDeactivate, Subscribed
  <2>3. Configure => ~Subscribed
    BY DEF Configure, OnConfigure, Subscribed
  <2> QED
    BY <2>1, <2>2, <2>3 DEF Still
<1>4. \A t \in Threads : Carries(t) => Subscribed'
  <2> SUFFICES ASSUME NEW t \in Threads, Carries(t) PROVE Subscribed'
    OBVIOUS
  <2>1. Subscribed /\ (t = "executor" => ~Cleaning)
    BY DEF OrderlyInv, SerialInv
  <2>2. ~CleanupReset
    <3>1. CASE t = "executor"
      BY <2>1, <3>1 DEF CleanupReset, Cleaning
    <3>2. CASE t = "manager"
      BY <3>2 DEF CleanupReset, Carries, InFlight, Draining
    <3> QED
      BY <3>1, <3>2 DEF Threads
  <2> QED
    BY <1>3, <2>1, <2>2
<1>5. Cleaning' => Cleaning
  BY <1>1 DEF Cleaning
<1>6. SerialInv'
  BY <1>1, <1>2, <1>4, <1>5 DEF OrderlyInv, SerialInv
<1>7. EmptiedInv'
  <2>1. CleanupReset => Cleaning /\ ~Draining("manager")
    BY DEF CleanupReset, Cleaning, Draining
  <2>2. Draining("manager")' <=> Draining("manager")
    BY <1>1 DEF Threads
  <2> QED
    BY <1>1, <1>3, <1>5, <2>1, <2>2 DEF OrderlyInv, EmptiedInv
<1>8. OrderInv'
  BY <1>1, <1>2 DEF OrderlyInv, OrderInv, BatchesIn, Later
<1>9. FateInv'
  BY <1>1, <1>2 DEF OrderlyInv, FateInv, Dropped, Lost, BatchesIn, Later
<1>10. InstanceInv'
  <2>1. CASE Configure
    <3>1. ~Subscribed /\ ~Commanding' /\ ~Activating'
      BY <2>1 DEF Configure, OnConfigure, Subscribed, Commanding, Activating
    <3>2. \A t \in Threads : ~Carries(t)
      BY <3>1 DEF OrderlyInv, SerialInv
    <3>3. Ringed = {}
      BY <3>1 DEF OrderlyInv, EmptiedInv
    <3>4. Live = {}
      BY <3>2, <3>3 DEF Live
    <3> QED
      BY <1>1, <3>1, <3>4 DEF OrderlyInv, InstanceInv, BatchesIn
  <2>2. CASE ActivateStore /\ Switch
    <3>1. activation' = activation + 1 /\ instance' = instance
      BY <2>2 DEF ActivateStore, Switch, logVars
    <3>2. \A b \in BatchesIn(Given) : AppsOf(b) \subseteq installed
      BY ReportsAreTrue DEF BatchesIn
    <3>3. \A b \in BatchesIn(Given) : \A x \in AppsOf(b) : x.act # activation'
      BY <3>1, <3>2, Numbers DEF NewestInv
    <3> QED
      BY <1>1, <3>1, <3>3 DEF OrderlyInv, InstanceInv, BatchesIn
  <2>3. CASE ~Configure /\ ~(ActivateStore /\ Switch)
    <3>1. instance' = instance
      BY <2>3 DEF Still, TakeMessage, CallbackGoesOn, EarlyUpdate, Switch, CleanupReset, allVars,
           logVars
    <3>2. activation' = activation /\ (Commanding' \/ Activating' => Commanding \/ Activating)
      BY <2>3, LifeShape DEF Commanding, Activating
    <3> QED
      BY <1>1, <3>1, <3>2 DEF OrderlyInv, InstanceInv, BatchesIn
  <2> QED
    BY <2>1, <2>2, <2>3
<1> QED
  BY <1>6, <1>7, <1>8, <1>9, <1>10 DEF OrderlyInv

(* Every sample has one way, until two drains meet; every application has a *)
(* known fate, until two publications overlap. *)
THEOREM WayInvariant == LogSpec => []WayInv
<1>1. LogInit => WayInv
  <2> SUFFICES ASSUME LogInit PROVE WayInv
    OBVIOUS
  <2>1. /\ \A t \in Threads : ~InFlight(t) /\ ~Draining(t) /\ publishing[t].pc = "idle"
        /\ Received = {} /\ installed = {} /\ ring = <<>> /\ records = <<>> /\ read = 0
        /\ ~drainsMet
    BY DEF LogInit, InFlight, Draining, Quiet, Received, Range
  <2>2. Reports = {} /\ Given = {} /\ Counted = {} /\ Ringed = {} /\ Batches = {}
    BY <2>1 DEF Reports, Given, Counted, Ringed, Batches, InFlight
  <2>3. AgreeInv /\ NewestInv
    BY <2>1, <2>2 DEF AgreeInv, NewestInv
  <2>4. CleanInv /\ PushedInv
    BY <2>1 DEF CleanInv, PushedInv, LogInit, Init, Commanding, Activating
  <2>5. MetInv /\ TakenOnceInv
    BY <2>1, <2>2 DEF MetInv, TakenOnceInv, BatchesIn, Carries
  <2>6. SerialInv /\ EmptiedInv
    BY <2>1, <2>2 DEF SerialInv, EmptiedInv, Carries
  <2>7. InstanceInv /\ OrderInv /\ FateInv
    BY <2>1, <2>2 DEF InstanceInv, OrderInv, FateInv, BatchesIn, Carries
  <2> QED
    BY <2>3, <2>4, <2>5, <2>6, <2>7 DEF WayInv
<1>2. IInv /\ IInv' /\ EvidenceInv /\ OnceInv /\ WayInv /\ [LogNext]_allVars => WayInv'
  <2> SUFFICES ASSUME IInv, IInv', EvidenceInv, OnceInv, WayInv, [LogNext]_allVars PROVE WayInv'
    OBVIOUS
  <2>1. AgreeInv' /\ NewestInv' /\ PushedInv' /\ CleanInv' /\ MetInv'
    BY AgreeStep, NewestStep, PushedStep, CleanStep, MetStep DEF WayInv
  <2>2. (overlapped => overlapped') /\ (drainsMet => drainsMet')
    <3>1. CASE \E t \in Threads : Drain(t)
      BY <3>1 DEF Drain, Begin
    <3> QED
      BY <3>1, DrainersStep
  <2>3. ASSUME ~drainsMet' PROVE TakenOnceInv'
    BY <2>2, <2>3, TakenOnceStep DEF WayInv
  <2>4. ASSUME ~overlapped' PROVE OrderlyInv'
    <3>1. ~overlapped /\ ~drainsMet
      BY <2>2, <2>4 DEF WayInv, MetInv
    <3>2. OrderlyInv /\ NewestInv /\ PushedInv /\ CleanInv /\ TakenOnceInv
      BY <3>1 DEF WayInv, OrderlyInv
    <3>3. CASE \E t \in Threads : LoadId(t)
      BY <3>2, <3>3, OrderlyLoad
    <3>4. CASE \E t \in Threads : PublishNowhere(t) \/ Publish(t)
      BY <3>2, <3>4, OrderlyLeave
    <3>5. CASE \E t \in Threads : Popping(t)
      BY <3>1, <3>2, <3>5, OrderlyPop
    <3>6. CASE Emit
      BY <2>4, <3>2, <3>6, OrderlyEmit
    <3>7. CASE TimerDrain
      <4>1. /\ Drain("executor") /\ Subscribed /\ ~Cleaning /\ "executor" \in Threads
            /\ publishing \in [Threads -> Publication]
        BY <3>7 DEF TimerDrain, Publisher, Threads, EvidenceInv, LogTypeOK
      <4>2. ~Cleaning'
        BY <4>1 DEF Drain, Begin, Proceed, Cleaning, Threads
      <4> QED
        BY <2>4, <3>2, <4>1, <4>2, OrderlyDrain
    <3>8. CASE CleanupDrain
      <4>1. Drain("manager") /\ Subscribed /\ "manager" \in Threads
        BY <3>8 DEF CleanupDrain, Subscribed, Threads
      <4> QED
        BY <2>4, <3>2, <4>1, OrderlyDrain
    <3>9. CASE CapturedUpdate
      BY <3>2, <3>9, OrderlyCapture
    <3>10. CASE Still /\ ~CapturedUpdate
      BY <3>2, <3>10, OrderlyStill
    <3> QED
      BY <3>3, <3>4, <3>5, <3>6, <3>7, <3>8, <3>9, <3>10 DEF LogNext, Still, Popping
  <2> QED
    BY <2>1, <2>3, <2>4 DEF WayInv, OrderlyInv
<1> QED
  BY <1>1, <1>2, EvidenceInvariant, OnceInvariant, IsAController, InductiveInvariant, PTL DEF LogSpec

(* A target has one verdict, however often activations install it, until the *)
(* timer's drain and on_cleanup's meet. *)
THEOREM TargetsAreNotAmbiguous == LogSpec => []NeverAmbiguous
<1>1. EvidenceInv /\ OnceInv /\ WayInv => NeverAmbiguous
  <2> SUFFICES ASSUME EvidenceInv, OnceInv, WayInv, ~drainsMet, NEW m \in 1..MaxTargets
               PROVE  Verdict(m) # "ambiguous"
    BY DEF NeverAmbiguous
  <2>1. \A i, j \in PlacesOf(m) : i = j
    BY DEF OnceInv, ReportedOnceInv
  <2>2. TakenOnceInv
    BY DEF WayInv
  <2>3. ASSUME NEW a \in ApplicationsOf(m)
        PROVE  /\ a \in Applications /\ a.app = [cmd |-> a.app.cmd, act |-> a.app.act]
               /\ a.app.cmd \in Written /\ a.app.cmd.msg = m
               /\ \E i \in PlacesOf(m) : Joins(records[i], a)
    <3>1. a \in Applications /\ \E i \in PlacesOf(m) : Joins(records[i], a)
      BY DEF ApplicationsOf
    <3>2. a.app.cmd.msg = m
      BY <3>1 DEF Joins, PlacesOf
    <3>3. a.app \in installed
      BY <3>1, ApplicationPlace
    <3>4. a.app = [cmd |-> a.app.cmd, act |-> a.app.act]
      BY <3>3 DEF EvidenceInv, LogTypeOK, Application
    <3>5. a.app.cmd \in Written
      BY <3>3 DEF Written, EvidenceInv, InstalledInv
    <3> QED
      BY <3>1, <3>2, <3>4, <3>5
  <2>4. ASSUME NEW a \in ApplicationsOf(m), NEW b \in ApplicationsOf(m) PROVE a = b
    <3>1. a.app.cmd = b.app.cmd
      BY <2>3 DEF OnceInv, WrittenOnceInv
    <3>2. PICK p \in PlacesOf(m) : Joins(records[p], a)
      BY <2>3
    <3>3. PICK q \in PlacesOf(m) : Joins(records[q], b)
      BY <2>3
    <3>4. a.app.act = b.app.act
      BY <2>1, <3>2, <3>3 DEF Joins
    <3>5. a.app = b.app
      BY <2>3, <3>1, <3>4
    <3>6. PICK i \in DOMAIN records : \E j \in DOMAIN records[i].apps :
            /\ a = [at |-> <<i, j>>, app |-> records[i].apps[j], instance |-> records[i].instance]
            /\ a.app = records[i].apps[j]
            /\ records[i] \in Batches /\ a.app \in AppsOf(records[i])
      BY <2>3, ApplicationPlace
    <3>7. PICK j \in DOMAIN records[i].apps :
            /\ a = [at |-> <<i, j>>, app |-> records[i].apps[j], instance |-> records[i].instance]
            /\ a.app = records[i].apps[j]
      BY <3>6
    <3>8. PICK k \in DOMAIN records : \E l \in DOMAIN records[k].apps :
            /\ b = [at |-> <<k, l>>, app |-> records[k].apps[l], instance |-> records[k].instance]
            /\ b.app = records[k].apps[l]
            /\ records[k] \in Batches /\ b.app \in AppsOf(records[k])
      BY <2>3, ApplicationPlace
    <3>9. PICK l \in DOMAIN records[k].apps :
            /\ b = [at |-> <<k, l>>, app |-> records[k].apps[l], instance |-> records[k].instance]
            /\ b.app = records[k].apps[l]
      BY <3>8
    <3>10. i = k
      <4>1. records[i].event = "samples" /\ records[k].event = "samples"
        BY <3>6, <3>8 DEF Batches
      <4>2. ~Apart(records[i], records[k])
        BY <3>5, <3>6, <3>8 DEF Apart
      <4> QED
        BY <2>2, <4>1, <4>2 DEF TakenOnceInv
    <3>11. j = l
      <4>1. records[i] \in BatchesIn(Reports)
        BY <3>6, ReportsAreTrue DEF Batches, BatchesIn
      <4>2. IsInjective(records[i].apps)
        BY <2>2, <4>1 DEF TakenOnceInv
      <4> QED
        BY <3>5, <3>7, <3>9, <3>10, <4>2 DEF IsInjective
    <3> QED
      BY <3>7, <3>9, <3>10, <3>11
  <2>5. ~(Cardinality(PlacesOf(m)) > 1) /\ ~(Cardinality(ApplicationsOf(m)) > 1)
    BY <2>1, <2>4, AtMostOne
  <2> QED
    BY <2>5 DEF Verdict
<1> QED
  BY <1>1, EvidenceInvariant, OnceInvariant, WayInvariant, PTL

(* IDs without a gap leave none out. *)
LEMMA NoGap ==
  ASSUME NEW ids \in SUBSET Nat, \A j, k \in ids : j < k => j + 1 \in ids,
         NEW j \in ids, NEW l \in ids, NEW k \in Nat, j < k, k < l
  PROVE  k \in ids
<1> DEFINE missing == {n \in Nat : j < n /\ n \notin ids}
<1>1. SUFFICES ASSUME k \notin ids PROVE FALSE
  OBVIOUS
<1>2. k \in missing
  BY <1>1
<1>3. PICK n \in missing : \A m \in missing : n <= m
  <2>1. missing \subseteq Nat /\ missing # {}
    BY <1>2
  <2>2. PICK n \in missing : \A m \in missing : ~(<<m, n>> \in OpToRel(<, Nat))
    <3> HIDE DEF missing
    <3> QED
      BY <2>1, NatLessThanWellFounded, WFMin
  <2>3. ASSUME NEW m \in missing PROVE n <= m
    <3>1. m \in Nat /\ n \in Nat
      BY <2>1
    <3>2. ~(m < n)
      BY <2>2, <3>1 DEF OpToRel
    <3> QED
      BY <3>1, <3>2
  <2> QED
    BY <2>2, <2>3
<1>4. n \in Nat /\ j \in Nat /\ l \in Nat /\ j < n /\ n <= k /\ n \notin ids
  BY <1>2, <1>3
<1>5. n - 1 \in Nat /\ n - 1 < n /\ n - 1 >= j /\ n - 1 < l
  BY <1>4
<1>6. n - 1 \notin missing
  BY <1>3, <1>4, <1>5
<1>7. n - 1 \in ids
  BY <1>4, <1>5, <1>6
<1>8. (n - 1) + 1 \in ids
  BY <1>5, <1>7
<1> QED
  BY <1>4, <1>8

(* A target the analysis calls superseded was accepted, and passed over in   *)
(* its activation by a later one. *)
THEOREM SupersededTargetsWereSuperseded == LogSpec => []SupersededIsTrue
<1>1. IInv /\ EvidenceInv /\ OnceInv /\ WayInv => SupersededIsTrue
  <2> SUFFICES ASSUME IInv, EvidenceInv, OnceInv, WayInv, NEW m \in 1..MaxTargets,
                      Verdict(m) = "superseded", ~overlapped
               PROVE  /\ m \in accepted
                      /\ \A c \in CallbacksOf(m) :
                           /\ ~\E i \in installed : i.cmd.msg = m /\ i.act = c.act
                           /\ \E i \in installed : i.cmd.seq > c.seq /\ i.act = c.act
    BY DEF SupersededIsTrue
  <2>1. /\ ApplicationsOf(m) = {} /\ CallbacksOf(m) # {}
        /\ \A c \in CallbacksOf(m) : c.accepted
        /\ \E c \in CallbacksOf(m) : Overtaken(c) /\ Complete(c.instance)
    <3>1. ~(Cardinality(PlacesOf(m)) > 1 \/ Cardinality(ApplicationsOf(m)) > 1)
      BY DEF Verdict
    <3>2. ApplicationsOf(m) = {}
      BY <3>1 DEF Verdict
    <3>3. CallbacksOf(m) # {}
      BY <3>1, <3>2 DEF Verdict
    <3>4. ~\E c \in CallbacksOf(m) : ~c.accepted
      BY <3>1, <3>2, <3>3 DEF Verdict
    <3>5. \E c \in CallbacksOf(m) : Overtaken(c) /\ Complete(c.instance)
      BY <3>1, <3>2, <3>3, <3>4 DEF Verdict
    <3> QED
      BY <3>2, <3>3, <3>4, <3>5
  <2>2. \A c, d \in CallbacksOf(m) : c = d
    <3>1. \A i, j \in PlacesOf(m) : i = j
      BY DEF OnceInv, ReportedOnceInv
    <3> QED
      BY <3>1 DEF CallbacksOf
  <2>3. PICK c \in CallbacksOf(m) : Overtaken(c) /\ Complete(c.instance)
    BY <2>1
  <2>4. /\ c \in Received /\ c \in Reports /\ c.event = "callback" /\ c.msg = m /\ c \in Callbacks
        /\ \E i \in PlacesOf(m) : c = records[i]
    <3>1. PICK i \in PlacesOf(m) : c = records[i]
      BY DEF CallbacksOf
    <3>2. c \in Received /\ c.event = "callback" /\ c.msg = m
      BY <3>1 DEF PlacesOf, Received, Range
    <3> QED
      BY <3>1, <3>2, ReportsAreTrue DEF Callbacks
  <2>5. m \in accepted
    BY <2>1, <2>4 DEF WayInv, AgreeInv
  <2>6. PICK a \in Applications :
          a.instance = c.instance /\ a.app.act = c.act /\ a.app.cmd.seq > c.seq
    BY <2>3 DEF Overtaken
  <2>7. PICK j \in DOMAIN records :
          /\ a.instance = records[j].instance
          /\ records[j] \in Batches /\ a.app \in AppsOf(records[j]) /\ a.app \in installed
    BY <2>6, ApplicationPlace
  <2> DEFINE b == records[j]
  <2>8. a.app \in AppsOf(b) /\ b.instance = c.instance /\ b \in Batches
    BY <2>6, <2>7
  <2> HIDE DEF b
  <2>9. b \in Received /\ b \in BatchesIn(Reports) /\ b \in BatchesIn(Given)
        /\ b \in BatchesIn(Counted) /\ a.app \in installed
    BY <2>7, <2>8, ReportsAreTrue DEF Batches, BatchesIn
  <2>10. ASSUME NEW i \in installed, i.cmd.msg = m, i.act = c.act PROVE FALSE
    <3>1. i.cmd \in Written
      BY DEF Written, EvidenceInv, InstalledInv
    <3>2. c.act = i.cmd.act /\ c.seq = i.cmd.seq
      BY <2>4, <2>10, <3>1 DEF WayInv, AgreeInv
    <3>3. Later(a.app, i)
      BY <2>6, <2>10, <3>2 DEF Later
    <3>4. CASE i \in Ringed
      BY <2>8, <2>9, <3>3, <3>4 DEF WayInv, OrderInv
    <3>5. CASE \E d \in BatchesIn(Reports) : i \in AppsOf(d)
      <4>1. PICK d \in BatchesIn(Reports) : i \in AppsOf(d)
        BY <3>5
      <4>2. CASE d \in Received
        <5>1. d \in BatchesIn(Given) /\ d.event = "samples"
          BY <4>1, <4>2, ReportsAreTrue DEF BatchesIn
        <5>2. d.instance = b.instance
          BY <2>6, <2>8, <2>9, <2>10, <4>1, <5>1 DEF WayInv, InstanceInv
        <5>3. PICK k \in DOMAIN records : d = records[k]
          BY <4>2 DEF Received, Range
        <5>4. PICK l \in DOMAIN d.apps : i = d.apps[l]
          BY <4>1 DEF AppsOf, Range
        <5> DEFINE app == [at |-> <<k, l>>, app |-> i, instance |-> d.instance]
        <5>5. app \in Applications
          BY <5>1, <5>3, <5>4 DEF Applications
        <5>6. Joins(c, app)
          BY <2>4, <2>8, <2>10, <3>2, <5>2 DEF Joins
        <5>7. app \in ApplicationsOf(m)
          BY <2>4, <5>5, <5>6 DEF ApplicationsOf
        <5> QED
          BY <2>1, <5>7
      <4>3. CASE d \notin Received
        <5>1. PICK t \in Threads : InFlight(t) /\ d = publishing[t].rec
          BY <4>1, <4>3, ReportsAreTrue DEF BatchesIn
        <5>2. Carries(t)
          BY <4>1, <5>1 DEF Carries, BatchesIn
        <5> QED
          BY <2>8, <3>3, <4>1, <5>1, <5>2 DEF WayInv, OrderInv
      <4> QED
        BY <4>2, <4>3
    <3>6. CASE Dropped(i)
      <4>1. b.dropped > 0 /\ b.dropped \in Nat
        BY <2>8, <2>9, <3>3, <3>6, Numbers DEF Dropped
      <4>2. b.dropped = 0
        BY <2>3, <2>8 DEF Complete
      <4> QED
        BY <4>1, <4>2
    <3>7. CASE Lost(i)
      <4>1. PICK k \in 1..evidenceId :
              /\ \A r \in Received : r.id # k
              /\ c.id < k /\ b.id > k
        BY <2>4, <2>8, <2>10, <3>3, <3>7 DEF Lost
      <4> DEFINE ids == {r.id : r \in {q \in Received : q.instance = c.instance}}
      <4>2. \A p, q \in ids : p < q => p + 1 \in ids
        BY <2>3 DEF Complete
      <4>3. c.id \in ids /\ b.id \in ids /\ k \notin ids
        BY <2>4, <2>8, <2>9, <4>1
      <4>4. ids \in SUBSET Nat
        BY Numbers, ReportsAreTrue
      <4>5. k \in Nat /\ c.id < k /\ k < b.id
        BY <4>1, <4>3, <4>4, Numbers
      <4> HIDE DEF ids
      <4> QED
        BY <4>2, <4>3, <4>4, <4>5, NoGap
    <3> QED
      BY <3>4, <3>5, <3>6, <3>7 DEF WayInv, FateInv
  <2>11. ASSUME NEW d \in CallbacksOf(m)
         PROVE  /\ ~\E i \in installed : i.cmd.msg = m /\ i.act = d.act
                /\ \E i \in installed : i.cmd.seq > d.seq /\ i.act = d.act
    <3>1. d = c
      BY <2>2
    <3> QED
      BY <2>6, <2>9, <2>10, <3>1
  <2> QED
    BY <2>5, <2>11
<1> QED
  BY <1>1, EvidenceInvariant, OnceInvariant, WayInvariant, IsAController, InductiveInvariant, PTL

=============================================================================
