-------------------------- MODULE TimingRingProofs --------------------------
(***************************************************************************)
(* Proofs about TimingRing for any capacity, drain limit and number of     *)
(* updates.  Until on_cleanup overlaps the timer callback, the plain slots *)
(* are never raced for, the ring hands out the log in order, it implements *)
(* the queue of EvidenceQueue, and every published record explains its own *)
(* gaps.  The variables keep their types whatever overlaps.                *)
(***************************************************************************)
EXTENDS TimingRing, Integers, SequenceTheorems, FiniteSetTheorems, TLAPS

(* Euclidean division, for the index of a cursor. *)
LEMMA Division ==
  \A C \in Nat, a \in Int : C > 0 =>
    /\ a = C * (a \div C) + (a % C)
    /\ a \div C \in Int
    /\ a % C \in 0..(C - 1)
<1> SUFFICES ASSUME NEW C \in Nat, NEW a \in Int, C > 0
             PROVE  /\ a = C * (a \div C) + (a % C)
                    /\ a \div C \in Int
                    /\ a % C \in 0..(C - 1)
  OBVIOUS
<1>1. a = C * (a \div C) + (a % C)
  BY SMTT(30)
<1>2. a \div C \in Int /\ a % C \in 0..(C - 1)
  OBVIOUS
<1> QED
  BY <1>1, <1>2

(* Cursors less than a capacity apart index different slots. *)
LEMMA SlotsDiffer ==
  ASSUME NEW C \in Nat, C > 0, NEW a \in Nat, NEW b \in Nat, a < b, b - a < C
  PROVE  a % C # b % C
<1> DEFINE p == a \div C
           q == b \div C
<1>0. a \in Int /\ b \in Int
  OBVIOUS
<1>1. a = C * p + (a % C) /\ p \in Int /\ a % C \in 0..(C - 1)
  BY <1>0, Division, Zenon
<1>2. b = C * q + (b % C) /\ q \in Int /\ b % C \in 0..(C - 1)
  BY <1>0, Division, Zenon
<1> HIDE DEF p, q
<1> SUFFICES ASSUME a % C = b % C PROVE FALSE
  OBVIOUS
<1>3. b - a = C * q - C * p
  BY <1>1, <1>2
<1>4. CASE q <= p
  <2>1. C * q <= C * p
    BY <1>1, <1>2, <1>4
  <2> QED
    BY <1>1, <1>2, <1>3, <2>1
<1>5. CASE q >= p + 1
  <2>1. C * q >= C * (p + 1)
    BY <1>1, <1>2, <1>5
  <2>2. C * (p + 1) = C * p + C
    BY <1>1
  <2> QED
    BY <1>1, <1>2, <1>3, <2>1, <2>2
<1> QED
  BY <1>1, <1>2, <1>4, <1>5

(* A cursor indexes a slot. *)
LEMMA SlotOf == \A i \in Nat : i % Capacity \in Slots
  BY Division, RingAssumption DEF Slots

(* Live cursors index different slots. *)
LEMMA LiveSlotsDiffer ==
  ASSUME NEW i \in Nat, NEW j \in Nat, i < j, j - i < Capacity
  PROVE  i % Capacity # j % Capacity
  BY SlotsDiffer, RingAssumption

(* The ring is empty and idle initially. *)
LEMMA RingInit == Init => RingInv
<1> SUFFICES ASSUME Init PROVE RingInv
  OBVIOUS
<1> USE RingAssumption DEF Init, NoDrain
<1>1. RingTypes
  BY DEF RingTypes, ProducerPcs, DrainPcs
<1>2. OneDrain /\ ProducerInv /\ DrainInv
  BY DEF OneDrain, ProducerInv, DrainInv, Popping, Consumers
<1>3. CursorInv
  BY DEF CursorInv
<1> QED
  BY <1>1, <1>2, <1>3 DEF RingInv

(* Every step keeps the ring invariant, unless two drains come to overlap. *)
LEMMA RingStep == ~overlapped' /\ RingInv /\ [Next]_vars => RingInv'
<1> SUFFICES ASSUME ~overlapped', RingInv, [Next]_vars PROVE RingInv'
  OBVIOUS
<1> USE RingAssumption DEF RingInv, RingTypes
<1>1. ASSUME NEW applied \in BOOLEAN, PushLoad(applied) PROVE RingInv'
  BY <1>1 DEF PushLoad, OneDrain, CursorInv, ProducerInv, DrainInv, Popping,
     ringVars, ProducerPcs
<1>2. CASE PushCopy
  <2> USE <1>2 DEF PushCopy
  <2>1. write % Capacity \in Slots
    BY SlotOf
  <2>2. RingTypes'
    BY <2>1 DEF ProducerPcs
  <2>3. CursorInv'
    <3>1. write - read < Capacity
      BY DEF ProducerInv
    <3>2. ASSUME NEW i \in read..(write - 1)
          PROVE  data'[i % Capacity] = log[i + 1]
      <4>1. i \in Nat /\ i < write /\ write - i < Capacity
        BY <3>1
      <4>2. i % Capacity # write % Capacity
        BY <4>1, LiveSlotsDiffer
      <4>3. i % Capacity \in Slots
        BY <4>1, SlotOf
      <4> QED
        BY <4>2, <4>3, <2>1 DEF CursorInv
    <3> QED
      BY <3>2 DEF CursorInv
  <2>4. (OneDrain /\ ProducerInv /\ DrainInv)'
    BY <2>1 DEF OneDrain, ProducerInv, DrainInv, Popping
  <2> QED
    BY <2>2, <2>3, <2>4
<1>3. CASE PushStore
  <2> USE <1>3 DEF PushStore
  <2>1. cycle \in Cycles
    BY DEF ProducerInv, Cycles
  <2>2. /\ log' \in Seq(Cycles)
        /\ Len(log') = write + 1
        /\ \A i \in 1..Len(log) : log'[i] = log[i]
        /\ log'[write + 1] = cycle
    BY <2>1 DEF CursorInv
  <2>3. RingTypes'
    BY <2>2 DEF ProducerPcs
  <2>4. CursorInv'
    <3>1. write' = write + 1 /\ write + 1 <= read + Capacity /\ read <= write
      BY DEF CursorInv, ProducerInv
    <3>2. ASSUME NEW i \in read..write
          PROVE  data[i % Capacity] = log'[i + 1]
      <4>1. CASE i = write
        BY <2>2, <4>1 DEF ProducerInv
      <4>2. CASE i \in read..(write - 1)
        <5>1. data[i % Capacity] = log[i + 1]
          BY <4>2 DEF CursorInv
        <5>2. i + 1 \in 1..Len(log)
          BY <4>2 DEF CursorInv
        <5> QED
          BY <2>2, <5>1, <5>2
      <4>3. i = write \/ i \in read..(write - 1)
        OBVIOUS
      <4> QED
        BY <4>1, <4>2, <4>3
    <3>3. read'..(write' - 1) = read..write /\ UNCHANGED <<read, data>>
      BY <3>1
    <3>4. \A i \in read'..(write' - 1) : data'[i % Capacity] = log'[i + 1]
      BY <3>2, <3>3
    <3>5. Len(log') = write' /\ read' <= write' /\ write' <= read' + Capacity
      BY <2>2, <3>1, <3>3
    <3> QED
      BY <3>4, <3>5, Zenon DEF CursorInv
  <2>5. (OneDrain /\ ProducerInv)'
    BY DEF OneDrain, ProducerInv
  <2>6. DrainInv'
    BY <2>2 DEF CursorInv, DrainInv, Popping
  <2> QED
    BY <2>3, <2>4, <2>5, <2>6
<1>4. CASE PushDrop \/ PushDropApplication
  <2> USE <1>4 DEF PushDrop, PushDropApplication
  <2>1. RingTypes'
    BY DEF ProducerPcs
  <2>2. (OneDrain /\ CursorInv)'
    BY DEF OneDrain, CursorInv
  <2>3. ProducerInv'
    BY DEF ProducerInv
  <2>4. DrainInv'
    BY DEF DrainInv, Popping
  <2> QED
    BY <2>1, <2>2, <2>3, <2>4
<1>5. CASE TimerFires
  <2> USE <1>5 DEF TimerFires, ringVars
  <2>1. [NoDrain EXCEPT !.pc = "pop"] \in
          [pc : DrainPcs, from : Nat, sample : 0..MaxCycles, pops : Nat,
           dropped : Nat]
    <3>1. 0 \in Nat /\ 0 \in 0..MaxCycles /\ "pop" \in DrainPcs
      BY DEF DrainPcs
    <3> QED
      BY <3>1 DEF NoDrain
  <2>2. RingTypes'
    BY <2>1 DEF Consumers
  <2>3. (CursorInv /\ ProducerInv)'
    BY DEF CursorInv, ProducerInv
  <2>4. OneDrain'
    BY DEF OneDrain, Consumers
  <2>5. DrainInv'
    BY DEF DrainInv, Popping, NoDrain, Consumers
  <2> QED
    BY <2>2, <2>3, <2>4, <2>5
<1>6. ASSUME NEW c \in Consumers, PopLoad(c) PROVE RingInv'
  <2> USE <1>6 DEF PopLoad, MoveTo, ringVars
  <2>1. (OneDrain /\ CursorInv /\ ProducerInv)'
    BY DEF OneDrain, CursorInv, ProducerInv, Consumers
  <2>2. CASE drain' = [drain EXCEPT ![c].pc = "copy", ![c].from = read]
             /\ read # write
    <3>1. RingTypes'
      <4>1. drain' = [drain EXCEPT ![c] =
                        [drain[c] EXCEPT !.pc = "copy", !.from = read]]
        BY <2>2
      <4>2. [drain[c] EXCEPT !.pc = "copy", !.from = read] \in
              [pc : DrainPcs, from : Nat, sample : 0..MaxCycles, pops : Nat,
               dropped : Nat]
        BY DEF DrainPcs
      <4> QED
        BY <4>1, <4>2
    <3>2. read < write
      BY <2>2 DEF CursorInv
    <3>3. drain'[c].pc = "copy" /\ drain'[c].from = read
      BY <2>2
    <3>4. \A d \in Consumers : d # c => drain'[d] = drain[d]
      BY <2>2
    <3>5. DrainInv'
      BY <3>2, <3>3, <3>4 DEF DrainInv, Popping
    <3> QED
      BY <2>1, <3>1, <3>5
  <2>3. CASE drain' = [drain EXCEPT ![c].pc = "dropped"]
    BY <2>1, <2>3 DEF DrainInv, Popping, DrainPcs
  <2> QED
    BY <2>2, <2>3
<1>7. ASSUME NEW c \in Consumers, PopCopy(c) PROVE RingInv'
  <2> USE <1>7 DEF PopCopy, ringVars
  <2>1. drain[c].from = read /\ read < write /\ read % Capacity \in Slots
    <3>1. drain[c].from = read /\ read < write
      BY DEF DrainInv, Popping
    <3> QED
      BY <3>1, SlotOf
  <2>2. data[drain[c].from % Capacity] = log[read + 1]
    <3>1. read \in read..(write - 1)
      BY <2>1
    <3> QED
      BY <2>1, <3>1 DEF CursorInv
  <2>3. RingTypes'
    BY <2>1 DEF DrainPcs
  <2>4. (OneDrain /\ CursorInv /\ ProducerInv)'
    BY DEF OneDrain, CursorInv, ProducerInv, Consumers
  <2>5. DrainInv'
    BY <2>1, <2>2 DEF DrainInv, Popping
  <2> QED
    BY <2>3, <2>4, <2>5
<1>8. ASSUME NEW c \in Consumers, PopStore(c) PROVE RingInv'
  <2> USE <1>8 DEF PopStore
  <2>1. drain[c].from = read /\ read < write
    BY DEF DrainInv, Popping
  <2>2. \A d \in Consumers : d # c => drain[d].pc = "idle"
    BY DEF OneDrain, Consumers
  <2>3. RingTypes'
    BY <2>1 DEF DrainPcs
  <2>4. (OneDrain /\ ProducerInv)'
    <3>1. \A d \in Consumers : drain'[d].pc = "idle" <=> drain[d].pc = "idle"
      OBVIOUS
    <3>2. OneDrain'
      BY <3>1 DEF OneDrain, Consumers
    <3>3. ProducerInv'
      BY <2>1 DEF ProducerInv
    <3> QED
      BY <3>2, <3>3
  <2>5. CursorInv'
    BY <2>1 DEF CursorInv
  <2>6. DrainInv'
    BY <2>2 DEF DrainInv, Popping
  <2> QED
    BY <2>3, <2>4, <2>5, <2>6
<1>9. ASSUME NEW c \in Consumers, ReadDropped(c) PROVE RingInv'
  BY <1>9 DEF ReadDropped, OneDrain, CursorInv, ProducerInv, DrainInv, Popping,
     ringVars, Consumers, DrainPcs
<1>10. ASSUME NEW c \in Consumers, PublishSamples(c) PROVE RingInv'
  BY <1>10 DEF PublishSamples, MoveTo, OneDrain, CursorInv, ProducerInv,
     DrainInv, Popping, ringVars, Consumers, DrainPcs
<1>11. CASE OnConfigure \/ OnActivate \/ OnDeactivate
  BY <1>11 DEF OnConfigure, OnActivate, OnDeactivate, OneDrain, CursorInv,
     ProducerInv, DrainInv, Popping, ringVars
<1>12. CASE OnCleanup
  <2> USE <1>12 DEF OnCleanup, ringVars
  <2>1. /\ drain["timer"].pc = "idle" /\ "timer" \in Consumers
        /\ life' = "cleaning" /\ "cleanup" \in Consumers
    BY DEF Consumers
  <2>2. [NoDrain EXCEPT !.pc = "pop"] \in
          [pc : DrainPcs, from : Nat, sample : 0..MaxCycles, pops : Nat,
           dropped : Nat]
    <3>1. 0 \in Nat /\ 0 \in 0..MaxCycles /\ "pop" \in DrainPcs
      BY DEF DrainPcs
    <3> QED
      BY <3>1 DEF NoDrain
  <2>3. RingTypes'
    BY <2>1, <2>2
  <2>4. drain'["cleanup"].pc = "pop" /\ drain'["timer"].pc = "idle"
    BY <2>1 DEF NoDrain, Consumers
  <2>5. OneDrain'
    BY <2>1, <2>4 DEF OneDrain
  <2>6. (CursorInv /\ ProducerInv)'
    BY DEF CursorInv, ProducerInv
  <2>7. DrainInv'
    BY <2>4 DEF DrainInv, Popping, Consumers
  <2> QED
    BY <2>3, <2>5, <2>6, <2>7
<1>13. CASE UNCHANGED vars
  BY <1>13 DEF vars, ringVars, OneDrain, CursorInv, ProducerInv, DrainInv, Popping
<1> QED
  BY <1>1, <1>2, <1>3, <1>4, <1>5, <1>6, <1>7, <1>8, <1>9, <1>10, <1>11, <1>12,
     <1>13 DEF Next, Push, DrainStep

(* Every step keeps the log in order and in step with the counters. *)
LEMMA LogStep ==
  ~overlapped' /\ RingInv /\ LogInv /\ [Next]_vars => LogInv'
<1> SUFFICES ASSUME ~overlapped', RingInv, LogInv, [Next]_vars PROVE LogInv'
  OBVIOUS
<1> USE DEF RingInv, RingTypes
<1>1. ASSUME NEW applied \in BOOLEAN, PushLoad(applied) PROVE LogInv'
  <2>1. cycle' = cycle + 1 /\ ~Unplaced /\ Unplaced'
    BY <1>1 DEF PushLoad, Unplaced
  <2>2. UNCHANGED <<log, dropped, read, popped>>
    BY <1>1 DEF PushLoad, ringVars, history
  <2>3. \A i \in 1..Len(log) : log[i] \in Nat
    BY RingAssumption DEF Cycles
  <2> QED
    BY <2>1, <2>2, <2>3 DEF LogInv
<1>2. CASE PushStore
  <2>1. cycle \in Cycles
    BY <1>2 DEF PushStore, ProducerInv, Cycles
  <2>2. /\ Len(log') = Len(log) + 1
        /\ \A i \in 1..Len(log) : log'[i] = log[i]
        /\ log'[Len(log) + 1] = cycle
    BY <1>2, <2>1 DEF PushStore
  <2>3. Unplaced /\ ~Unplaced' /\ UNCHANGED <<cycle, dropped, read, popped>>
    BY <1>2 DEF PushStore, Unplaced, history
  <2>4. \A i \in 1..Len(log') :
          log'[i] <= cycle /\ (i <= Len(log) => log'[i] < cycle)
    <3>1. \A i \in 1..Len(log) : log[i] < cycle
      BY <2>3 DEF LogInv
    <3>2. cycle \in Nat /\ Len(log) \in Nat
      BY <2>1, RingAssumption DEF Cycles
    <3> SUFFICES ASSUME NEW i \in 1..Len(log')
                 PROVE  log'[i] <= cycle /\ (i <= Len(log) => log'[i] < cycle)
      OBVIOUS
    <3>3. i \in 1..Len(log) \/ i = Len(log) + 1
      BY <2>2, <3>2
    <3>4. CASE i \in 1..Len(log)
      <4>1. log'[i] = log[i] /\ log[i] \in Nat /\ log[i] < cycle
        BY <2>2, <3>1, <3>4, RingAssumption DEF Cycles
      <4> QED
        BY <3>2, <4>1
    <3>5. CASE i = Len(log) + 1
      BY <2>2, <3>2, <3>5
    <3> QED
      BY <3>3, <3>4, <3>5
  <2>5. \A i, j \in 1..Len(log') : i < j => log'[i] < log'[j]
    <3> SUFFICES ASSUME NEW i \in 1..Len(log'), NEW j \in 1..Len(log'), i < j
                 PROVE  log'[i] < log'[j]
      OBVIOUS
    <3>1. i \in 1..Len(log)
      BY <2>2
    <3>2. CASE j = Len(log) + 1
      BY <2>2, <2>4, <3>1, <3>2
    <3>3. CASE j \in 1..Len(log)
      BY <2>2, <3>1, <3>3 DEF LogInv
    <3> QED
      BY <2>2, <3>2, <3>3
  <2>6. popped' = {log'[i] : i \in 1..read'}
    <3>1. \A i \in 1..read : log'[i] = log[i]
      BY <2>2 DEF CursorInv
    <3> QED
      BY <2>3, <3>1 DEF LogInv
  <2>7. cycle' = Len(log') + dropped'
    BY <2>2, <2>3 DEF LogInv
  <2>8. producer' = "idle" /\ cycle' = cycle
    BY <1>2, <2>3 DEF PushStore
  <2>9. cycle' = Len(log') + dropped' + (IF Unplaced' THEN 1 ELSE 0)
    BY <2>7, <2>8, <2>2, <2>3 DEF Unplaced
  <2>10. \A i \in 1..Len(log') : log'[i] <= cycle' /\ (Unplaced' => log'[i] < cycle')
    BY <2>4, <2>8 DEF Unplaced
  <2> QED
    BY <2>5, <2>6, <2>9, <2>10, Zenon DEF LogInv
<1>3. CASE PushDrop
  <2>1. Unplaced /\ ~Unplaced' /\ dropped' = dropped + 1
    BY <1>3 DEF PushDrop, Unplaced
  <2>2. UNCHANGED <<log, cycle, read, popped>>
    BY <1>3 DEF PushDrop, history
  <2>3. cycle' = Len(log') + dropped' + (IF Unplaced' THEN 1 ELSE 0)
    BY <2>1, <2>2 DEF LogInv, Cycles
  <2>4. /\ \A i \in 1..Len(log) : log[i] <= cycle
        /\ \A i, j \in 1..Len(log) : i < j => log[i] < log[j]
        /\ popped = {log[i] : i \in 1..read}
    BY DEF LogInv
  <2> QED
    BY <2>1, <2>2, <2>3, <2>4, Zenon DEF LogInv
<1>4. ASSUME NEW c \in Consumers, PopStore(c) PROVE LogInv'
  <2>1. /\ drain[c].from = read /\ read < Len(log)
        /\ drain[c].sample = log[read + 1]
    BY <1>4 DEF PopStore, DrainInv, CursorInv, Popping
  <2>2. read' = read + 1 /\ popped' = popped \cup {log[read + 1]}
    BY <1>4, <2>1 DEF PopStore
  <2>3. UNCHANGED <<log, cycle, dropped, producer>>
    BY <1>4 DEF PopStore
  <2>4. popped' = {log[i] : i \in 1..read'}
    <3>1. read \in Nat
      BY DEF CursorInv
    <3>2. \A i : i \in 1..(read + 1) <=> i \in 1..read \/ i = read + 1
      BY <3>1
    <3>3. popped = {log[i] : i \in 1..read}
      BY DEF LogInv
    <3>4. popped' = {log[i] : i \in 1..(read + 1)}
      BY <2>2, <3>2, <3>3, Zenon
    <3> QED
      BY <2>2, <3>4
  <2> QED
    BY <2>3, <2>4 DEF LogInv, Unplaced
<1>5. CASE UNCHANGED <<cycle, log, dropped, read, popped, Unplaced>>
  BY <1>5 DEF LogInv
<1>6. CASE PushCopy \/ PushDropApplication
  BY <1>5, <1>6 DEF PushCopy, PushDropApplication, Unplaced, history
<1>7. CASE UNCHANGED <<cycle, log, dropped, read, popped, producer>>
  BY <1>5, <1>7 DEF Unplaced
<1>8. ASSUME NEW c \in Consumers, DrainStep(c) PROVE LogInv'
  BY <1>4, <1>7, <1>8 DEF DrainStep, PopLoad, PopCopy, ReadDropped,
     PublishSamples, ringVars, history
<1>9. CASE TimerFires \/ OnConfigure \/ OnActivate \/ OnDeactivate
           \/ OnCleanup \/ UNCHANGED vars
  BY <1>7, <1>9 DEF TimerFires, OnConfigure, OnActivate, OnDeactivate,
     OnCleanup, vars, ringVars, history
<1> QED
  BY <1>1, <1>2, <1>3, <1>6, <1>8, <1>9 DEF Next, Push

(* Once two drains have overlapped, they have. *)
LEMMA OverlapStays == overlapped /\ [Next]_vars => overlapped'
  BY DEF Next, Push, PushLoad, PushCopy, PushStore, PushDrop,
     PushDropApplication, TimerFires, DrainStep, PopLoad, PopCopy, PopStore,
     ReadDropped, PublishSamples, OnConfigure, OnActivate, OnDeactivate,
     OnCleanup, vars, history

(* The ring invariant holds until two drains overlap. *)
THEOREM RingInvariant == Spec => []SafeInv
<1>1. Init => SafeInv
  <2>1. Init => LogInv
    BY DEF Init, LogInv, Unplaced
  <2> QED
    BY <2>1, RingInit DEF SafeInv
<1>2. SafeInv /\ [Next]_vars => SafeInv'
  BY RingStep, LogStep, OverlapStays DEF SafeInv
<1> QED
  BY <1>1, <1>2, PTL DEF Spec

(* The real-time copy into a slot and the drain's copy out of it never meet:
   the cursors are less than a capacity apart while both are under way. *)
THEOREM SlotsAreNotRaced == Spec => []NoSlotRace
<1>1. SafeInv => NoSlotRace
  <2> SUFFICES ASSUME RingInv, NEW c \in Consumers, producer = "copy",
                      drain[c].pc = "copy"
               PROVE  write % Capacity # drain[c].from % Capacity
    BY DEF NoSlotRace, SafeInv
  <2>1. drain[c].from = read /\ read < write /\ write - read < Capacity
    BY DEF RingInv, ProducerInv, DrainInv, Popping
  <2> QED
    BY <2>1, LiveSlotsDiffer DEF RingInv, RingTypes
<1> QED
  BY RingInvariant, <1>1, PTL

(* Every sample taken out is the oldest one not taken out yet. *)
THEOREM RingIsInOrder == Spec => []PopsInOrder
<1>1. SafeInv => PopsInOrder
  BY DEF SafeInv, RingInv, CursorInv, DrainInv, Popping, PopsInOrder
<1> QED
  BY RingInvariant, <1>1, PTL

(* The ring is an empty queue initially. *)
LEMMA QueueInit == Init => Queue!Init
<1> SUFFICES ASSUME Init PROVE Queue!Init
  OBVIOUS
<1>1. Len(log) = 0 /\ read = 0 /\ dropped = 0 /\ popped = {}
  BY DEF Init
<1>2. SubSeq(log, read + 1, Len(log)) = <<>>
  BY <1>1, SubSeqEmpty
<1> QED
  BY <1>1, <1>2 DEF Queue!Init

(* Every step is a step of the queue or leaves it alone. *)
LEMMA QueueStep ==
  ~overlapped' /\ RingInv /\ LogInv /\ [Next]_vars =>
    Queue!Next \/ UNCHANGED Queue!vars
<1> SUFFICES ASSUME ~overlapped', RingInv, LogInv, [Next]_vars
             PROVE  Queue!Next \/ UNCHANGED Queue!vars
  OBVIOUS
<1> USE RingAssumption DEF RingInv, RingTypes
<1> DEFINE live == SubSeq(log, read + 1, Len(log))
<1>0. /\ Len(log) \in Nat /\ read <= Len(log) /\ Len(log) = write
      /\ \A i \in 1..Len(log) : log[i] \in Cycles
  BY DEF CursorInv
<1>1. /\ live \in Seq(Cycles)
      /\ Len(live) = Len(log) - read
      /\ \A i \in 1..Len(live) : live[i] = log[read + i]
  <2>1. read + 1 \in Int /\ Len(log) \in Int
        /\ \A i \in (read + 1)..Len(log) : log[i] \in Cycles
    BY <1>0
  <2>2. /\ live \in Seq(Cycles)
        /\ Len(live) = IF read + 1 <= Len(log) THEN Len(log) - (read + 1) + 1 ELSE 0
        /\ \A i \in 1..(Len(log) - (read + 1) + 1) : live[i] = log[read + 1 + i - 1]
    BY <2>1, SubSeqProperties
  <2> QED
    BY <1>0, <2>2
<1> HIDE DEF live
<1>2. CASE PushStore
  <2>1. cycle \in Cycles /\ Unplaced
    BY <1>2 DEF PushStore, ProducerInv, Cycles, Unplaced
  <2>2. /\ log' = Append(log, cycle)
        /\ UNCHANGED <<read, dropped, popped>>
    BY <1>2 DEF PushStore, history
  <2>3. Len(live) < Capacity
    BY <1>0, <1>1, <1>2 DEF PushStore, ProducerInv
  <2>4. /\ Len(log') = Len(log) + 1
        /\ Len(log') + dropped' = Len(log) + dropped + 1
        /\ cycle = Len(log) + dropped + 1
    BY <2>1, <2>2 DEF LogInv
  <2>5. live' = Append(live, cycle)
    <3>1. /\ log' = log \o <<cycle>> /\ <<cycle>> \in Seq(Cycles)
          /\ log' \in Seq(Cycles) /\ log'[Len(log')] = cycle
          /\ \A i \in 1..Len(log) : log'[i] = log[i]
      BY <2>1, <2>2, <2>4
    <3>2. /\ live' \in Seq(Cycles)
          /\ Len(live') = Len(live) + 1
          /\ \A i \in 1..Len(live') : live'[i] = log'[read + i]
      <4>1. read + 1 \in Int /\ Len(log') \in Int
            /\ \A i \in (read + 1)..Len(log') : log'[i] \in Cycles
        BY <1>0, <3>1
      <4>2. live' = SubSeq(log', read + 1, Len(log'))
        BY <2>2 DEF live
      <4>3. /\ live' \in Seq(Cycles)
            /\ Len(live') = IF read + 1 <= Len(log')
                            THEN Len(log') - (read + 1) + 1 ELSE 0
            /\ \A i \in 1..(Len(log') - (read + 1) + 1) :
                 live'[i] = log'[read + 1 + i - 1]
        BY <4>1, <4>2, SubSeqProperties
      <4> QED
        BY <1>0, <1>1, <2>4, <4>3
    <3>3. /\ Append(live, cycle) \in Seq(Cycles)
          /\ Len(Append(live, cycle)) = Len(live) + 1
          /\ \A i \in 1..Len(live) : Append(live, cycle)[i] = live[i]
          /\ Append(live, cycle)[Len(live) + 1] = cycle
      BY <1>1, <2>1, AppendProperties
    <3>4. ASSUME NEW i \in 1..Len(live')
          PROVE  live'[i] = Append(live, cycle)[i]
      <4>1. CASE i = Len(live) + 1
        <5>1. read + i = Len(log')
          BY <1>0, <1>1, <2>4, <4>1
        <5> QED
          BY <3>1, <3>2, <3>3, <4>1, <5>1
      <4>2. CASE i \in 1..Len(live)
        <5>1. read + i \in 1..Len(log)
          BY <1>0, <1>1, <4>2
        <5> QED
          BY <1>1, <3>1, <3>2, <3>3, <4>2, <5>1
      <4> QED
        BY <1>1, <3>2, <4>1, <4>2
    <3> QED
      BY <3>2, <3>3, <3>4, SeqEqual
  <2> QED
    BY <2>2, <2>3, <2>4, <2>5 DEF Queue!Next, Queue!Accept, live
<1>3. CASE PushDrop
  <2>1. UNCHANGED <<log, read, popped>> /\ dropped' = dropped + 1
    BY <1>3 DEF PushDrop, history
  <2>2. Len(log') + dropped' = Len(log) + dropped + 1
    BY <1>0, <2>1
  <2>3. live' = live
    BY <2>1 DEF live
  <2> QED
    BY <2>1, <2>2, <2>3 DEF Queue!Next, Queue!Refuse, live
<1>4. ASSUME NEW c \in Consumers, PopStore(c) PROVE Queue!Next
  <2>1. /\ drain[c].from = read /\ read < Len(log)
        /\ drain[c].sample = log[read + 1]
    BY <1>0, <1>4 DEF PopStore, DrainInv, Popping
  <2>2. /\ read' = read + 1 /\ popped' = popped \cup {log[read + 1]}
        /\ UNCHANGED <<log, dropped>>
    BY <1>4, <2>1 DEF PopStore
  <2>3. live # <<>>
    BY <1>0, <1>1, <2>1
  <2>4. Head(live) = log[read + 1] /\ Tail(live) = live'
    <3>1. /\ Head(live) = live[1]
          /\ Tail(live) \in Seq(Cycles)
          /\ Len(Tail(live)) = Len(live) - 1
          /\ \A i \in 1..Len(Tail(live)) : Tail(live)[i] = live[i + 1]
      BY <1>1, <2>3, HeadTailProperties
    <3>2. /\ live' \in Seq(Cycles)
          /\ Len(live') = Len(live) - 1
          /\ \A i \in 1..Len(live') : live'[i] = log[read + 1 + i]
      <4>1. read + 2 \in Int /\ Len(log) \in Int
            /\ \A i \in (read + 2)..Len(log) : log[i] \in Cycles
        BY <1>0
      <4>2. live' = SubSeq(log, read + 2, Len(log))
        BY <2>2 DEF live
      <4>3. /\ live' \in Seq(Cycles)
            /\ Len(live') = IF read + 2 <= Len(log)
                            THEN Len(log) - (read + 2) + 1 ELSE 0
            /\ \A i \in 1..(Len(log) - (read + 2) + 1) :
                 live'[i] = log[read + 2 + i - 1]
        BY <4>1, <4>2, SubSeqProperties
      <4> QED
        BY <1>0, <1>1, <2>1, <4>3
    <3>3. \A i \in 1..Len(live') : live'[i] = Tail(live)[i]
      BY <1>0, <1>1, <2>1, <3>1, <3>2
    <3>4. live' = Tail(live)
      BY <3>1, <3>2, <3>3, SeqEqual
    <3>5. Head(live) = log[read + 1]
      BY <1>0, <1>1, <2>1, <3>1
    <3> QED
      BY <3>4, <3>5
  <2>5. log[read + 1] \notin popped
    <3> SUFFICES ASSUME NEW i \in 1..read, log[i] = log[read + 1] PROVE FALSE
      BY DEF LogInv
    <3>1. i \in 1..Len(log) /\ read + 1 \in 1..Len(log) /\ i < read + 1
      BY <1>0, <2>1
    <3>2. log[i] < log[read + 1] /\ log[i] \in Cycles
      BY <1>0, <3>1 DEF LogInv
    <3> QED
      BY <3>2 DEF Cycles
  <2> QED
    BY <2>2, <2>3, <2>4, <2>5 DEF Queue!Next, Queue!Take, live
<1>5. CASE UNCHANGED <<log, read, dropped, popped>>
  BY <1>5 DEF Queue!vars
<1>6. CASE Push
  BY <1>2, <1>3, <1>5, <1>6 DEF Push, PushLoad, PushCopy, PushDropApplication,
     ringVars, history
<1>7. ASSUME NEW c \in Consumers, DrainStep(c)
      PROVE  Queue!Next \/ UNCHANGED Queue!vars
  BY <1>4, <1>5, <1>7 DEF DrainStep, PopLoad, PopCopy, ReadDropped,
     PublishSamples, ringVars, history
<1>8. CASE TimerFires \/ OnConfigure \/ OnActivate \/ OnDeactivate
           \/ OnCleanup \/ UNCHANGED vars
  BY <1>5, <1>8 DEF TimerFires, OnConfigure, OnActivate, OnDeactivate,
     OnCleanup, vars, ringVars, history
<1> QED
  BY <1>6, <1>7, <1>8 DEF Next

(***************************************************************************)
(* The ring, with its cursors and copies, implements the queue: what push  *)
(* stores or counts, drain_evidence takes out once and in order, until two *)
(* drains overlap.                                                         *)
(***************************************************************************)
THEOREM ImplementsQueue == Spec => QueueSpec
<1>1. SafeInv /\ [Next]_vars => [Queue!Next \/ overlapped']_(Queue!vars)
  <2> SUFFICES ASSUME SafeInv, [Next]_vars, ~overlapped'
               PROVE  Queue!Next \/ UNCHANGED Queue!vars
    OBVIOUS
  <2>1. ~overlapped
    BY OverlapStays
  <2> QED
    BY <2>1, QueueStep DEF SafeInv
<1> QED
  BY <1>1, QueueInit, RingInvariant, PTL DEF Spec, QueueSpec

\* Where a drain is, with what it has copied.
DrainRecord == [pc : DrainPcs, from : 0..MaxCycles, sample : 0..MaxCycles,
                pops : 0..DrainLimit, dropped : 0..MaxCycles]

(* Initially everything is zero, of its type, and nothing is in the ring. *)
LEMMA TypeInit == Init => TypeInv
<1> SUFFICES ASSUME Init PROVE TypeInv
  OBVIOUS
<1> USE RingAssumption DEF Init, NoDrain
<1>1. log \in Seq(Cycles) /\ Len(log) = 0
  BY EmptySeq
<1>2. drain \in [Consumers -> DrainRecord]
  BY DEF DrainRecord, DrainPcs
<1>3. /\ data \in [Slots -> 0..MaxCycles]
      /\ {cycle, write, read, dropped, droppedApps} \subseteq 0..MaxCycles
  OBVIOUS
<1>4. overlapped \in BOOLEAN
  BY Zenon
<1>5. /\ life \in {"unconfigured", "inactive", "active", "cleaning"}
      /\ producer \in ProducerPcs
      /\ applications \subseteq Cycles /\ popped \subseteq Cycles
  BY DEF ProducerPcs
<1>6. TypeOK
  BY <1>1, <1>2, <1>3, <1>4, <1>5 DEF TypeOK, DrainRecord
<1>7. BoundsInv
  BY <1>1 DEF BoundsInv, Unplaced, Popping, Consumers
<1> QED
  BY <1>6, <1>7 DEF TypeInv

\* What a drain has found below the writer's cursor, and copied.
DrainBounds ==
  \A c \in Consumers :
    /\ Popping(c) => drain[c].from < write /\ drain[c].pops < DrainLimit
    /\ drain[c].pc = "release" => drain[c].sample # 0

\* Every slot below a cursor, or about to be, holds a sample.
SlotsFilled ==
  /\ \A i \in 0..(write - 1) : data[i % Capacity] # 0
  /\ producer = "store" => data[write % Capacity] # 0

\* Every update is stored, counted, or on its way.
Accounted ==
  /\ Len(log) = write
  /\ cycle = write + dropped + (IF Unplaced THEN 1 ELSE 0)
  /\ droppedApps + (IF producer = "drop_application" THEN 1 ELSE 0) <= dropped
  /\ read <= write

(* A push keeps the types: it stores its sample or counts it. *)
LEMMA PushKeepsTypes == TypeInv /\ Push => TypeInv'
<1> SUFFICES ASSUME TypeOK, Accounted, SlotsFilled, DrainBounds, Push
             PROVE  TypeOK' /\ Accounted' /\ SlotsFilled' /\ DrainBounds'
  BY Zenon DEF TypeInv, BoundsInv, Accounted, SlotsFilled, DrainBounds
<1> USE RingAssumption
<1>1. ASSUME NEW applied \in BOOLEAN, PushLoad(applied)
      PROVE  TypeOK' /\ Accounted' /\ SlotsFilled' /\ DrainBounds'
  <2> USE <1>1 DEF PushLoad, ringVars, history
  <2>1. TypeOK'
    BY DEF TypeOK, ProducerPcs, Cycles
  <2>2. Accounted'
    BY DEF TypeOK, Accounted, Unplaced
  <2>3. SlotsFilled' /\ DrainBounds'
    BY DEF SlotsFilled, DrainBounds, Popping
  <2> QED
    BY <2>1, <2>2, <2>3
<1>2. CASE PushCopy
  <2> USE <1>2 DEF PushCopy, history
  <2>1. TypeOK'
    BY DEF TypeOK, ProducerPcs
  <2>2. Accounted'
    BY DEF TypeOK, Accounted, Unplaced
  <2>3. cycle # 0
    BY DEF TypeOK, Accounted, Unplaced
  <2>4. SlotsFilled'
    <3>1. \A i \in Nat : i % Capacity \in Slots
      BY SlotOf
    <3>2. \A i \in Nat : data[i % Capacity] # 0 => data'[i % Capacity] # 0
      BY <2>3, <3>1 DEF TypeOK
    <3>3. write \in Nat
      BY DEF TypeOK
    <3>4. write % Capacity \in Slots
      BY <3>1, <3>3
    <3>5. data'[write % Capacity] # 0
      BY <2>3, <3>4 DEF TypeOK
    <3>6. \A i \in 0..(write - 1) : i \in Nat
      BY <3>3
    <3> QED
      BY <3>2, <3>5, <3>6 DEF SlotsFilled
  <2>5. DrainBounds'
    BY DEF DrainBounds, Popping
  <2> QED
    BY <2>1, <2>2, <2>4, <2>5
<1>3. CASE PushStore
  <2> USE <1>3 DEF PushStore, history
  <2>1. cycle \in Cycles /\ write + 1 \in 0..MaxCycles
    BY DEF TypeOK, Accounted, Unplaced, Cycles
  <2>2. log' \in Seq(Cycles) /\ Len(log') = Len(log) + 1
    BY <2>1, AppendProperties DEF TypeOK
  <2>3. TypeOK'
    BY <2>1, <2>2 DEF TypeOK, ProducerPcs
  <2>4. Accounted'
    BY <2>2 DEF TypeOK, Accounted, Unplaced
  <2>5. SlotsFilled'
    <3>1. write \in Nat /\ write' = write + 1 /\ UNCHANGED data /\ producer' = "idle"
      BY DEF TypeOK
    <3>2. \A i \in 0..(write' - 1) : i \in 0..(write - 1) \/ i = write
      BY <3>1
    <3>3. data[write % Capacity] # 0
      BY DEF SlotsFilled
    <3> QED
      BY <3>1, <3>2, <3>3 DEF SlotsFilled
  <2>6. DrainBounds'
    BY DEF TypeOK, DrainBounds, Popping
  <2> QED
    BY <2>3, <2>4, <2>5, <2>6
<1>4. CASE PushDrop
  <2> USE <1>4 DEF PushDrop, history
  <2>1. TypeOK'
    BY DEF TypeOK, Accounted, Unplaced, ProducerPcs
  <2>2. Accounted'
    BY DEF TypeOK, Accounted, Unplaced
  <2>3. SlotsFilled' /\ DrainBounds'
    BY DEF SlotsFilled, DrainBounds, Popping
  <2> QED
    BY <2>1, <2>2, <2>3
<1>5. CASE PushDropApplication
  <2> USE <1>5 DEF PushDropApplication, history
  <2>1. TypeOK'
    BY DEF TypeOK, Accounted, Unplaced, ProducerPcs
  <2>2. Accounted'
    BY DEF TypeOK, Accounted, Unplaced
  <2>3. SlotsFilled' /\ DrainBounds'
    BY DEF SlotsFilled, DrainBounds, Popping
  <2> QED
    BY <2>1, <2>2, <2>3
<1> QED
  BY <1>1, <1>2, <1>3, <1>4, <1>5 DEF Push

(* A drain keeps the types: its copy of the cursor stays below the writer. *)
LEMMA DrainKeepsTypes ==
  ASSUME TypeInv, NEW c \in Consumers, DrainStep(c)
  PROVE  TypeInv'
<1> SUFFICES TypeOK' /\ Accounted' /\ SlotsFilled' /\ DrainBounds'
  BY Zenon DEF TypeInv, BoundsInv, Accounted, SlotsFilled, DrainBounds
<1>0. TypeOK /\ Accounted /\ SlotsFilled /\ DrainBounds
  BY Zenon DEF TypeInv, BoundsInv, Accounted, SlotsFilled, DrainBounds
<1>a. /\ drain[c].from \in 0..MaxCycles
      /\ drain[c].sample \in 0..MaxCycles
      /\ drain[c].pops \in 0..DrainLimit
      /\ drain \in [Consumers -> DrainRecord]
      /\ read \in 0..MaxCycles /\ write \in 0..MaxCycles
      /\ dropped \in 0..MaxCycles
      /\ data \in [Slots -> 0..MaxCycles]
      /\ popped \subseteq Cycles
  BY <1>0 DEF TypeOK, DrainRecord
<1>b. \A i \in Nat : i % Capacity \in Slots
  BY SlotOf
<1> USE <1>0, RingAssumption
<1>1. CASE PopLoad(c)
  <2> USE <1>1 DEF PopLoad, MoveTo, ringVars, history
  <2>1. drain' \in [Consumers -> DrainRecord]
    BY <1>a DEF DrainRecord, DrainPcs
  <2>2. TypeOK'
    BY <2>1 DEF TypeOK, DrainRecord
  <2>3. Accounted' /\ SlotsFilled'
    BY DEF Accounted, SlotsFilled, Unplaced
  <2>4. read < write \/ read = write
    BY <1>a DEF Accounted
  <2>5. DrainBounds'
    BY <1>a, <2>4 DEF DrainBounds, DrainRecord, Popping
  <2> QED
    BY <2>2, <2>3, <2>5
<1>2. CASE PopCopy(c)
  <2> USE <1>2 DEF PopCopy, ringVars, history
  <2>1. drain[c].from \in Nat /\ drain[c].from < write
    BY <1>a DEF DrainBounds, Popping
  <2>2. drain[c].from \in 0..(write - 1) /\ drain[c].from % Capacity \in Slots
    BY <1>a, <1>b, <2>1
  <2>3. /\ data[drain[c].from % Capacity] \in 0..MaxCycles
        /\ data[drain[c].from % Capacity] # 0
    BY <1>a, <2>2 DEF SlotsFilled
  <2>4. drain' \in [Consumers -> DrainRecord]
    BY <1>a, <2>3 DEF DrainRecord, DrainPcs
  <2>5. TypeOK'
    BY <2>4 DEF TypeOK, DrainRecord
  <2>6. Accounted' /\ SlotsFilled'
    BY DEF Accounted, SlotsFilled, Unplaced
  <2>7. DrainBounds'
    BY <1>a, <2>3 DEF DrainBounds, DrainRecord, Popping
  <2> QED
    BY <2>5, <2>6, <2>7
<1>3. CASE PopStore(c)
  <2> USE <1>3 DEF PopStore
  <2>1. /\ drain[c].from < write /\ drain[c].pops < DrainLimit
        /\ drain[c].sample # 0
    BY DEF DrainBounds, Popping
  <2>2. /\ drain[c].from + 1 \in 0..MaxCycles /\ drain[c].from + 1 <= write
        /\ drain[c].sample \in Cycles
        /\ drain[c].pops + 1 \in 0..DrainLimit
    BY <1>a, <2>1 DEF Cycles
  <2>3. drain' \in [Consumers -> DrainRecord]
    BY <1>a, <2>2 DEF DrainRecord, DrainPcs
  <2>4. TypeOK'
    BY <1>a, <2>2, <2>3 DEF TypeOK, DrainRecord
  <2>5. Accounted' /\ SlotsFilled'
    BY <2>2 DEF Accounted, SlotsFilled, Unplaced
  <2>6. DrainBounds'
    BY <1>a DEF DrainBounds, DrainRecord, Popping
  <2> QED
    BY <2>4, <2>5, <2>6
<1>4. CASE ReadDropped(c)
  <2> USE <1>4 DEF ReadDropped, ringVars, history
  <2>1. drain' \in [Consumers -> DrainRecord]
    BY <1>a DEF DrainRecord, DrainPcs
  <2>2. TypeOK'
    BY <2>1 DEF TypeOK, DrainRecord
  <2>3. Accounted' /\ SlotsFilled'
    BY DEF Accounted, SlotsFilled, Unplaced
  <2>4. DrainBounds'
    BY <1>a DEF DrainBounds, DrainRecord, Popping
  <2> QED
    BY <2>2, <2>3, <2>4
<1>5. CASE PublishSamples(c)
  <2> USE <1>5 DEF PublishSamples, MoveTo, ringVars, history
  <2>1. drain' \in [Consumers -> DrainRecord]
    BY <1>a DEF DrainRecord, DrainPcs
  <2>2. TypeOK'
    BY <2>1 DEF TypeOK, DrainRecord
  <2>3. Accounted' /\ SlotsFilled'
    BY DEF Accounted, SlotsFilled, Unplaced
  <2>4. DrainBounds'
    BY <1>a DEF DrainBounds, DrainRecord, Popping
  <2> QED
    BY <2>2, <2>3, <2>4
<1> QED
  BY <1>1, <1>2, <1>3, <1>4, <1>5 DEF DrainStep

(* The lifecycle and the timer start drains at most. *)
LEMMA LifecycleKeepsTypes ==
  ASSUME TypeInv,
         TimerFires \/ OnConfigure \/ OnActivate \/ OnDeactivate \/ OnCleanup
           \/ UNCHANGED vars
  PROVE  TypeInv'
<1> SUFFICES TypeOK' /\ Accounted' /\ SlotsFilled' /\ DrainBounds'
  BY Zenon DEF TypeInv, BoundsInv, Accounted, SlotsFilled, DrainBounds
<1>0. TypeOK /\ Accounted /\ SlotsFilled /\ DrainBounds
  BY Zenon DEF TypeInv, BoundsInv, Accounted, SlotsFilled, DrainBounds
<1> USE <1>0, RingAssumption DEF ringVars, history
<1>1. ASSUME TimerFires \/ OnCleanup
      PROVE  TypeOK' /\ Accounted' /\ SlotsFilled' /\ DrainBounds'
  <2> USE <1>1 DEF TimerFires, OnCleanup, NoDrain
  <2>a. drain \in [Consumers -> DrainRecord]
    BY DEF TypeOK, DrainRecord
  <2>b. drain' \in [Consumers -> DrainRecord]
    BY <2>a DEF DrainRecord, DrainPcs
  <2>c. overlapped' \in BOOLEAN
    BY Zenon DEF TypeOK
  <2>1. TypeOK'
    BY <2>b, <2>c DEF TypeOK, DrainRecord
  <2>2. Accounted' /\ SlotsFilled'
    BY DEF Accounted, SlotsFilled, Unplaced
  <2>3. DrainBounds'
    BY <2>a DEF DrainBounds, DrainRecord, Popping
  <2> QED
    BY <2>1, <2>2, <2>3
<1>2. ASSUME OnConfigure \/ OnActivate \/ OnDeactivate \/ UNCHANGED vars
      PROVE  TypeOK' /\ Accounted' /\ SlotsFilled' /\ DrainBounds'
  <2> USE <1>2 DEF OnConfigure, OnActivate, OnDeactivate, vars
  <2>1. TypeOK'
    BY DEF TypeOK
  <2>2. Accounted' /\ SlotsFilled' /\ DrainBounds'
    BY DEF Accounted, SlotsFilled, Unplaced, DrainBounds, Popping
  <2> QED
    BY <2>1, <2>2
<1> QED
  BY <1>1, <1>2

(***************************************************************************)
(* The cursors, counters and samples have their types, and nothing empty   *)
(* is popped, with overlapping drains too.                                 *)
(***************************************************************************)
THEOREM TypeCorrect == Spec => []TypeOK
<1>1. TypeInv /\ [Next]_vars => TypeInv'
  BY PushKeepsTypes, DrainKeepsTypes, LifecycleKeepsTypes DEF Next
<1>2. TypeInv => TypeOK
  BY DEF TypeInv
<1> QED
  BY TypeInit, <1>1, <1>2, PTL DEF Spec

(* The lost samples are finitely many. *)
LEMMA LostIsFinite ==
  ASSUME RingTypes
  PROVE  IsFiniteSet(Lost) /\ IsFiniteSet(LostApplications)
<1>1. cycle \in Int /\ IsFiniteSet(1..cycle)
  BY RingAssumption, FS_Interval DEF RingTypes
<1>2. Lost \in SUBSET (1..cycle) /\ LostApplications \in SUBSET (1..cycle)
  BY Zenon DEF Lost, LostApplications
<1> QED
  BY <1>1, <1>2, FS_Subset, Zenon

(* What is missing from the samples a drain has popped has been lost. *)
LEMMA MissingIsLost ==
  ASSUME RingInv, LogInv, LostInv, NEW c \in Consumers,
         drain[c].pc \notin {"idle", "release"}
  PROVE  /\ Missing(c) \in SUBSET Lost
         /\ Missing(c) \cap applications \in SUBSET LostApplications
<1> SUFFICES ASSUME NEW s \in Missing(c)
             PROVE  /\ s \in Lost
                    /\ Applied(s) => s \in LostApplications
  BY DEF Applied
<1>1. /\ Len(log) \in Nat /\ read \in Nat /\ read <= Len(log)
      /\ cycle \in Nat /\ drain[c].sample \in Nat
      /\ \A i \in 1..Len(log) : log[i] \in Nat
  BY RingAssumption DEF RingInv, RingTypes, CursorInv, Cycles
<1>2. s \in 1..drain[c].sample /\ s \notin popped
  BY DEF Missing
<1>3. read > 0 /\ drain[c].sample = log[read]
  BY <1>1, <1>2 DEF LostInv
<1>4. read \in 1..Len(log)
  BY <1>1, <1>3
<1>5. \A i \in 1..Len(log) : log[i] # s
  <2> SUFFICES ASSUME NEW i \in 1..Len(log), log[i] = s PROVE FALSE
    OBVIOUS
  <2>1. CASE i <= read
    <3>1. i \in 1..read
      BY <1>1, <2>1
    <3> QED
      BY <1>2, <3>1 DEF LogInv
  <2>2. CASE read < i
    <3>1. log[read] < log[i]
      BY <1>4, <2>2 DEF LogInv
    <3> QED
      BY <1>1, <1>2, <1>3, <3>1
  <2> QED
    BY <1>1, <2>1, <2>2
<1>6. s <= log[read] /\ log[read] <= cycle /\ (Unplaced => log[read] < cycle)
  BY <1>2, <1>3, <1>4 DEF LogInv
<1>7. s \in 1..cycle /\ (Unplaced => s # cycle)
  BY <1>1, <1>2, <1>4, <1>6
<1>8. s \in Lost
  BY <1>5, <1>7 DEF Lost
<1>9. ASSUME producer = "drop_application" PROVE s # cycle
  <2>1. log[read] # cycle
    BY <1>4, <1>9 DEF LostInv, Lost
  <2> QED
    BY <1>1, <1>2, <1>4, <1>6, <2>1
<1> QED
  BY <1>8, <1>9 DEF LostApplications

(* Initially nothing is lost. *)
LEMMA LostInit == Init => LostInv
<1> SUFFICES ASSUME Init PROVE LostInv
  OBVIOUS
<1>1. Lost = {} /\ LostApplications = {}
  BY DEF Init, Lost, LostApplications
<1>2. producer = "idle" /\ \A c \in Consumers : drain[c].pc = "idle"
  BY DEF Init, NoDrain
<1>3. dropped = 0 /\ droppedApps = 0
  BY DEF Init
<1>4. Cardinality(Lost) = 0 /\ Cardinality(LostApplications) = 0
  BY <1>1, FS_EmptySet
<1> QED
  BY <1>2, <1>3, <1>4 DEF LostInv

\* What the counters count ...
TallyInv ==
  /\ Cardinality(Lost) = dropped
  /\ Cardinality(LostApplications) = droppedApps
  /\ producer = "drop_application" => cycle \in Lost /\ Applied(cycle)

\* ... and how much of it a drain has read.
ReadInv(c) ==
  /\ drain[c].pc \notin {"idle", "release"} /\ drain[c].sample # 0 =>
       read > 0 /\ drain[c].sample = log[read]
  /\ drain[c].pc = "applications" => Cardinality(Missing(c)) <= drain[c].dropped

(* A push counts what it drops. *)
LEMMA PushKeepsTally ==
  RingInv /\ LogInv /\ TallyInv /\ Push => TallyInv'
<1> SUFFICES ASSUME RingInv, LogInv, TallyInv, Push PROVE TallyInv'
  OBVIOUS
<1>0. /\ cycle \in Nat /\ Len(log) \in Nat /\ dropped \in Nat
      /\ \A i \in 1..Len(log) : log[i] \in Nat
      /\ IsFiniteSet(Lost) /\ IsFiniteSet(LostApplications)
  BY RingAssumption, LostIsFinite DEF RingInv, RingTypes, Cycles
<1>1. ASSUME NEW applied \in BOOLEAN, PushLoad(applied) PROVE TallyInv'
  <2>1. /\ cycle' = cycle + 1 /\ producer = "idle"
        /\ producer' \in {"drop", "copy"}
        /\ UNCHANGED <<log, dropped, droppedApps>>
        /\ applications' \in {applications, applications \cup {cycle + 1}}
    BY <1>1 DEF PushLoad, ringVars
  <2>2. \A s : s \in 1..(cycle + 1) /\ s # cycle + 1 <=> s \in 1..cycle
    BY <1>0
  <2>3. Lost' = Lost
    BY <2>1, <2>2, Zenon DEF Lost, Unplaced
  <2>4. \A s \in Lost : s \in 1..cycle /\ s # cycle + 1
    BY <1>0 DEF Lost
  <2>5. LostApplications' = LostApplications
    BY <2>1, <2>3, <2>4 DEF LostApplications, Applied
  <2> QED
    BY <2>1, <2>3, <2>5 DEF TallyInv
<1>2. CASE PushCopy
  <2>1. UNCHANGED <<log, cycle, dropped, droppedApps, applications>>
        /\ producer = "copy" /\ producer' = "store"
    BY <1>2 DEF PushCopy
  <2>2. Lost' = Lost
    BY <2>1 DEF Lost, Unplaced
  <2>3. LostApplications' = LostApplications
    BY <2>1, <2>2 DEF LostApplications, Applied
  <2> QED
    BY <2>1, <2>2, <2>3 DEF TallyInv
<1>3. CASE PushStore
  <2>1. /\ log' = Append(log, cycle) /\ producer = "store" /\ producer' = "idle"
        /\ UNCHANGED <<cycle, dropped, droppedApps, applications>>
    BY <1>3 DEF PushStore
  <2>2. /\ Len(log') = Len(log) + 1
        /\ \A i \in 1..Len(log) : log'[i] = log[i]
        /\ log'[Len(log) + 1] = cycle
    <3>1. log \in Seq(Cycles) /\ cycle \in Cycles
      BY <2>1 DEF RingInv, RingTypes, ProducerInv, Cycles
    <3> QED
      BY <2>1, <3>1, AppendProperties
  <2>3. \A s : (\A i \in 1..Len(log') : log'[i] # s) <=>
                 (\A i \in 1..Len(log) : log[i] # s) /\ s # cycle
    <3>1. \A i : i \in 1..Len(log') <=> i \in 1..Len(log) \/ i = Len(log) + 1
      BY <1>0, <2>2
    <3> QED
      BY <2>2, <3>1
  <2>4. Lost' = Lost
    BY <2>1, <2>3 DEF Lost, Unplaced
  <2>5. LostApplications' = LostApplications
    BY <2>1, <2>4 DEF LostApplications, Applied
  <2> QED
    BY <2>1, <2>4, <2>5 DEF TallyInv
<1>4. CASE PushDrop
  <2>1. /\ producer = "drop" /\ dropped' = dropped + 1
        /\ producer' = IF Applied(cycle) THEN "drop_application" ELSE "idle"
        /\ UNCHANGED <<cycle, log, droppedApps, applications>>
    BY <1>4 DEF PushDrop
  <2>2. cycle \in 1..cycle /\ \A i \in 1..Len(log) : log[i] # cycle
    BY <1>0, <2>1 DEF LogInv, Unplaced
  <2>3. cycle \notin Lost
    BY <2>1 DEF Lost, Unplaced
  <2>4. Lost' = Lost \cup {cycle}
    BY <2>1, <2>2 DEF Lost, Unplaced
  <2>5. Cardinality(Lost') = dropped'
    BY <1>0, <2>1, <2>3, <2>4, FS_AddElement DEF TallyInv
  <2>6. LostApplications' = LostApplications
    BY <2>1, <2>3, <2>4 DEF LostApplications, Applied
  <2>7. producer' = "drop_application" => cycle' \in Lost' /\ Applied(cycle)'
    BY <2>1, <2>4 DEF Applied
  <2> QED
    BY <2>1, <2>5, <2>6, <2>7 DEF TallyInv
<1>5. CASE PushDropApplication
  <2>1. /\ producer = "drop_application" /\ producer' = "idle"
        /\ droppedApps' = droppedApps + 1
        /\ UNCHANGED <<cycle, log, dropped, applications>>
    BY <1>5 DEF PushDropApplication
  <2>2. Lost' = Lost
    BY <2>1 DEF Lost, Unplaced
  <2>3. cycle \in Lost /\ Applied(cycle) /\ cycle \notin LostApplications
    BY <2>1 DEF TallyInv, LostApplications
  <2>4. LostApplications' = LostApplications \cup {cycle}
    BY <2>1, <2>2, <2>3 DEF LostApplications, Applied
  <2>5. Cardinality(LostApplications') = droppedApps'
    BY <1>0, <2>1, <2>3, <2>4, FS_AddElement DEF TallyInv
  <2> QED
    BY <2>1, <2>2, <2>5 DEF TallyInv
<1> QED
  BY <1>1, <1>2, <1>3, <1>4, <1>5 DEF Push

(* A push leaves what the drains have read alone: the log only grows. *)
LEMMA PushKeepsReads ==
  ASSUME RingInv, Push, NEW c \in Consumers, ReadInv(c)
  PROVE  ReadInv(c)'
<1>1. UNCHANGED <<drain, read, popped>>
  BY DEF Push, PushLoad, PushCopy, PushStore, PushDrop, PushDropApplication,
     ringVars, history
<1>2. Missing(c)' = Missing(c)
  BY <1>1 DEF Missing
<1>3. /\ log \in Seq(Cycles) /\ read \in Nat /\ read <= Len(log) /\ Len(log) \in Nat
      /\ producer = "store" => cycle \in Cycles
  BY RingAssumption DEF RingInv, RingTypes, CursorInv, ProducerInv, Cycles
<1>4. read > 0 => log'[read] = log[read]
  <2>1. CASE PushStore
    <3>1. log' = Append(log, cycle) /\ cycle \in Cycles
      BY <1>3, <2>1 DEF PushStore
    <3>2. \A i \in 1..Len(log) : log'[i] = log[i]
      BY <1>3, <3>1, AppendProperties
    <3> QED
      BY <1>3, <3>2
  <2>2. CASE UNCHANGED log
    BY <2>2
  <2> QED
    BY <2>1, <2>2 DEF Push, PushLoad, PushCopy, PushDrop, PushDropApplication
<1> QED
  BY <1>1, <1>2, <1>4 DEF ReadInv

(* A step of a drain is the only drain's, and leaves the counters alone. *)
LEMMA DrainKeepsLost ==
  ASSUME RingInv, LogInv, LostInv, NEW c \in Consumers, DrainStep(c),
         NEW d \in Consumers
  PROVE  TallyInv' /\ ReadInv(d)'
<1>0. /\ drain[c].pc # "idle"
      /\ TallyInv /\ ReadInv(c) /\ ReadInv(d)
      /\ drain \in [Consumers -> [pc : DrainPcs, from : Nat, sample : 0..MaxCycles,
                                  pops : Nat, dropped : Nat]]
  BY DEF DrainStep, PopLoad, PopCopy, PopStore, ReadDropped, PublishSamples,
     LostInv, TallyInv, ReadInv, RingInv, RingTypes
<1>1. UNCHANGED <<cycle, log, applications, producer, dropped, droppedApps>>
  BY DEF DrainStep, PopLoad, PopCopy, PopStore, ReadDropped, PublishSamples,
     ringVars
<1>2. TallyInv'
  <2>1. Lost' = Lost
    BY <1>1 DEF Lost, Unplaced
  <2>2. LostApplications' = LostApplications
    BY <1>1, <2>1 DEF LostApplications, Applied
  <2> QED
    BY <1>0, <1>1, <2>1, <2>2 DEF TallyInv, Applied
<1>3. CASE d # c
  <2>1. drain[d].pc = "idle"
    BY <1>0, <1>3 DEF RingInv, OneDrain, Consumers
  <2>2. drain'[d] = drain[d]
    BY <1>0, <1>3 DEF DrainStep, PopLoad, PopCopy, PopStore, ReadDropped,
       PublishSamples, MoveTo
  <2> QED
    BY <1>2, <2>1, <2>2 DEF ReadInv
<1>4. CASE d = c
  <2>1. CASE PopLoad(c)
    <3>1. /\ UNCHANGED <<read, popped>> /\ drain[c].pc = "pop"
          /\ drain'[c].sample = drain[c].sample
          /\ drain'[c].pc \in {"copy", "dropped"}
      BY <1>0, <2>1 DEF PopLoad, MoveTo, ringVars, history
    <3> QED
      BY <1>0, <1>1, <1>2, <1>4, <3>1 DEF ReadInv
  <2>2. CASE PopCopy(c)
    <3>1. drain'[c].pc = "release"
      BY <1>0, <2>2 DEF PopCopy
    <3> QED
      BY <1>2, <1>4, <3>1 DEF ReadInv
  <2>3. CASE PopStore(c)
    <3>1. /\ drain[c].from = read /\ read \in Nat
          /\ drain[c].sample = log[read + 1]
      BY <2>3 DEF PopStore, RingInv, RingTypes, DrainInv, Popping
    <3>2. /\ drain'[c].pc = "pop" /\ drain'[c].sample = drain[c].sample
          /\ read' = read + 1
      BY <1>0, <2>3, <3>1 DEF PopStore
    <3> QED
      BY <1>1, <1>2, <1>4, <3>1, <3>2 DEF ReadInv
  <2>4. CASE ReadDropped(c)
    <3>1. /\ UNCHANGED <<read, popped>> /\ drain[c].pc = "dropped"
          /\ drain'[c].sample = drain[c].sample
          /\ drain'[c].dropped = dropped
      BY <1>0, <2>4 DEF ReadDropped, ringVars, history
    <3>2. Missing(c)' = Missing(c)
      BY <3>1 DEF Missing
    <3>3. Missing(c) \in SUBSET Lost /\ IsFiniteSet(Lost)
      BY <3>1, MissingIsLost, LostIsFinite DEF RingInv
    <3>4. Cardinality(Missing(c)) <= Cardinality(Lost)
      BY <3>3, FS_Subset
    <3>5. Cardinality(Missing(c)') <= drain'[c].dropped
      BY <1>0, <3>1, <3>2, <3>4 DEF TallyInv
    <3> QED
      BY <1>0, <1>1, <1>2, <1>4, <3>1, <3>5 DEF ReadInv
  <2>5. CASE PublishSamples(c)
    <3>1. drain'[c].pc = "idle"
      BY <1>0, <2>5 DEF PublishSamples, MoveTo
    <3> QED
      BY <1>2, <1>4, <3>1 DEF ReadInv
  <2> QED
    BY <2>1, <2>2, <2>3, <2>4, <2>5 DEF DrainStep
<1> QED
  BY <1>2, <1>3, <1>4

(* Every step keeps what is lost counted, unless two drains come to overlap. *)
LEMMA LostStep ==
  ~overlapped' /\ RingInv /\ LogInv /\ LostInv /\ [Next]_vars => LostInv'
<1> SUFFICES ASSUME ~overlapped', RingInv, LogInv, LostInv, [Next]_vars
             PROVE  TallyInv' /\ \A c \in Consumers : ReadInv(c)'
  BY Zenon DEF LostInv, TallyInv, ReadInv
<1>0. TallyInv /\ \A c \in Consumers : ReadInv(c)
  BY Zenon DEF LostInv, TallyInv, ReadInv
<1>1. CASE Push
  BY <1>0, <1>1, PushKeepsTally, PushKeepsReads
<1>2. ASSUME NEW c \in Consumers, DrainStep(c)
      PROVE  TallyInv' /\ \A d \in Consumers : ReadInv(d)'
  BY <1>2, DrainKeepsLost
<1>3. ASSUME TimerFires \/ OnConfigure \/ OnActivate \/ OnDeactivate
               \/ OnCleanup \/ UNCHANGED vars
      PROVE  TallyInv' /\ \A c \in Consumers : ReadInv(c)'
  <2>1. UNCHANGED <<cycle, log, applications, producer, dropped, droppedApps,
                    read, popped>>
    BY <1>3 DEF TimerFires, OnConfigure, OnActivate, OnDeactivate, OnCleanup,
       vars, ringVars, history
  <2>2. Lost' = Lost
    BY <2>1 DEF Lost, Unplaced
  <2>3. LostApplications' = LostApplications
    BY <2>1, <2>2 DEF LostApplications, Applied
  <2>4. TallyInv'
    BY <1>0, <2>1, <2>2, <2>3 DEF TallyInv, Applied
  <2>5. ASSUME NEW c \in Consumers PROVE ReadInv(c)'
    <3>1. drain \in [Consumers -> [pc : DrainPcs, from : Nat, sample : 0..MaxCycles,
                                   pops : Nat, dropped : Nat]]
      BY DEF RingInv, RingTypes
    <3>2. \/ drain'[c] = drain[c]
          \/ drain'[c].pc = "pop" /\ drain'[c].sample = 0
      BY <1>3, <3>1 DEF TimerFires, OnConfigure, OnActivate, OnDeactivate,
         OnCleanup, vars, NoDrain
    <3> QED
      BY <1>0, <2>1, <3>2 DEF ReadInv, Missing
  <2> QED
    BY <2>4, <2>5
<1> QED
  BY <1>1, <1>2, <1>3 DEF Next

(***************************************************************************)
(* A published record explains its own gaps: what is missing from the      *)
(* samples popped has been lost, the losses were counted before the record *)
(* read the counters, and it reads them after the samples.                 *)
(***************************************************************************)
THEOREM GapsAreExplained == Spec => []GapsAreCounted
<1>1. Init => CountedInv
  <2>1. Init => LogInv
    BY DEF Init, LogInv, Unplaced
  <2> QED
    BY <2>1, RingInit, LostInit DEF CountedInv
<1>2. CountedInv /\ [Next]_vars => CountedInv'
  BY RingStep, LogStep, LostStep, OverlapStays DEF CountedInv
<1>3. CountedInv => GapsAreCounted
  <2> SUFFICES ASSUME RingInv, LogInv, LostInv, NEW c \in Consumers,
                      drain[c].pc = "applications"
               PROVE  /\ Cardinality(Missing(c)) <= drain[c].dropped
                      /\ Cardinality(Missing(c) \cap applications) <= droppedApps
    BY DEF CountedInv, GapsAreCounted, Missing
  <2>1. Missing(c) \cap applications \in SUBSET LostApplications
    BY MissingIsLost
  <2>2. IsFiniteSet(LostApplications)
    BY LostIsFinite DEF RingInv
  <2>3. Cardinality(Missing(c) \cap applications) <= Cardinality(LostApplications)
    BY <2>1, <2>2, FS_Subset
  <2> QED
    BY <2>3 DEF LostInv
<1> QED
  BY <1>1, <1>2, <1>3, PTL DEF Spec

-----------------------------------------------------------------------------
(* The last drain of a life, and the end of every drain. *)

(* The way of the last drain: as it pops, the room for what is left shrinks no
   faster than what is left. *)
LEMMA LastDrainStep ==
  ~overlapped' /\ RingInv /\ LastDrainInv /\ [Next]_vars => LastDrainInv'
<1> SUFFICES ASSUME ~overlapped', RingInv, LastDrainInv, [Next]_vars
             PROVE  LastDrainInv'
  OBVIOUS
<1> USE RingAssumption DEF LastDrainInv, Popping
<1>0. /\ read \in Nat /\ write \in Nat /\ read <= write /\ write <= read + Capacity
      /\ drain \in [Consumers -> [pc : DrainPcs, from : Nat,
                      sample : 0..MaxCycles, pops : Nat, dropped : Nat]]
      /\ "cleanup" \in Consumers /\ "timer" \in Consumers
  BY DEF RingInv, RingTypes, CursorInv, Consumers
<1>1. CASE Push
  <2>1. life = "active" /\ life' = life /\ drain' = drain
    BY <1>1 DEF Push, PushLoad, PushCopy, PushStore, PushDrop, PushDropApplication
  <2>2. drain["cleanup"].pc = "idle"
    BY <1>0, <2>1 DEF RingInv, OneDrain, DrainPcs
  <2> QED
    BY <2>1, <2>2
<1>2. ASSUME NEW c \in Consumers, DrainStep(c) PROVE LastDrainInv'
  <2>1. drain[c].pc # "idle"
    BY <1>2 DEF DrainStep, PopLoad, PopCopy, PopStore, ReadDropped, PublishSamples
  <2>2. CASE c = "timer"
    <3>1. life \in {"inactive", "active"} \/ life \notin {"cleaning", "unconfigured"}
      BY <2>1, <2>2 DEF RingInv, OneDrain
    <3>2. life # "unconfigured" /\ drain["cleanup"].pc = "idle"
      BY <2>1, <2>2, <3>1 DEF RingInv, OneDrain
    <3>3. life' = life /\ producer' = producer /\ drain'["cleanup"] = drain["cleanup"]
      BY <1>0, <1>2, <2>2 DEF DrainStep, PopLoad, PopCopy, PopStore, ReadDropped,
         PublishSamples, MoveTo
    <3> QED
      BY <3>2, <3>3
  <2>3. CASE c = "cleanup"
    <3>1. life = "cleaning" /\ producer = "idle"
      BY <2>1, <2>3 DEF RingInv, OneDrain
    <3>2. CASE PopLoad(c)
      BY <1>0, <2>3, <3>1, <3>2 DEF PopLoad, MoveTo, ringVars
    <3>3. CASE PopCopy(c)
      BY <1>0, <2>3, <3>1, <3>3 DEF PopCopy, ringVars
    <3>4. CASE PopStore(c)
      <4>1. drain[c].from = read /\ read < write
        BY <2>3, <3>4, <1>0 DEF PopStore, RingInv, DrainInv
      <4> QED
        BY <1>0, <2>3, <3>1, <3>4, <4>1 DEF PopStore
    <3>5. CASE ReadDropped(c)
      BY <1>0, <2>3, <3>1, <3>5 DEF ReadDropped, ringVars
    <3>6. CASE PublishSamples(c)
      BY <1>0, <2>3, <3>1, <3>6 DEF PublishSamples, MoveTo, ringVars
    <3> QED
      BY <1>2, <3>2, <3>3, <3>4, <3>5, <3>6 DEF DrainStep
  <2> QED
    BY <2>2, <2>3 DEF Consumers
<1>3. CASE TimerFires
  BY <1>0, <1>3 DEF TimerFires, ringVars
<1>4. CASE OnConfigure \/ OnActivate \/ OnDeactivate
  BY <1>4 DEF OnConfigure, OnActivate, OnDeactivate, ringVars
<1>5. CASE OnCleanup
  BY <1>0, <1>5 DEF OnCleanup, NoDrain, ringVars
<1>6. CASE UNCHANGED vars
  BY <1>6 DEF vars
<1> QED
  BY <1>1, <1>2, <1>3, <1>4, <1>5, <1>6 DEF Next

(***************************************************************************)
(* on_cleanup leaves nothing in the ring, provided its drain may take as   *)
(* many samples as the ring holds: the update has stopped, so that no      *)
(* sample arrives beside it, and the timer's drain is over.                *)
(***************************************************************************)
THEOREM CleanupLeavesNothing == Spec => []CleanupEmpties
<1>1. Init => EmptyInv
  <2>1. Init => LogInv
    BY DEF Init, LogInv, Unplaced
  <2>2. Init => LastDrainInv
    BY DEF Init, LastDrainInv, NoDrain, Popping, Consumers
  <2> QED
    BY <2>1, <2>2, RingInit DEF EmptyInv
<1>2. EmptyInv /\ [Next]_vars => EmptyInv'
  BY RingStep, LogStep, LastDrainStep, OverlapStays DEF EmptyInv
<1>3. EmptyInv => CleanupEmpties
  <2> SUFFICES ASSUME EmptyInv, life = "unconfigured", ~overlapped,
                      DrainLimit >= Capacity, NEW s \in Cycles, Stored(s)
               PROVE  s \in popped
    BY DEF CleanupEmpties
  <2>1. read = write /\ Len(log) = write /\ popped = {log[i] : i \in 1..read}
    BY DEF EmptyInv, LastDrainInv, RingInv, CursorInv, LogInv
  <2> QED
    BY <2>1 DEF Stored
<1> QED
  BY <1>1, <1>2, <1>3, PTL DEF Spec

(* The cleanup drain is under way exactly while on_cleanup runs, overlapping
   drains or not. *)
CleaningInv == life = "cleaning" <=> drain["cleanup"].pc # "idle"

LEMMA CleaningStep == TypeOK /\ CleaningInv /\ [Next]_vars => CleaningInv'
<1> SUFFICES ASSUME TypeOK, CleaningInv, [Next]_vars PROVE CleaningInv'
  OBVIOUS
<1>0. /\ "cleanup" \in Consumers /\ "timer" \in Consumers
      /\ drain \in [Consumers -> [pc : DrainPcs, from : 0..MaxCycles,
                      sample : 0..MaxCycles, pops : 0..DrainLimit,
                      dropped : 0..MaxCycles]]
  BY DEF TypeOK, Consumers
<1> USE DEF CleaningInv
<1>1. CASE Push
  BY <1>1 DEF Push, PushLoad, PushCopy, PushStore, PushDrop, PushDropApplication
<1>2. ASSUME NEW c \in Consumers, DrainStep(c) PROVE CleaningInv'
  <2>1. CASE PublishSamples(c)
    BY <1>0, <2>1 DEF PublishSamples, MoveTo, Consumers
  <2>2. CASE PopLoad(c) \/ PopCopy(c) \/ PopStore(c) \/ ReadDropped(c)
    <3>1. life' = life /\ drain[c].pc # "idle" /\ drain'[c].pc # "idle"
      BY <1>0, <2>2 DEF PopLoad, PopCopy, PopStore, ReadDropped, MoveTo
    <3>2. \A d \in Consumers \ {c} : drain'[d] = drain[d]
      BY <1>0, <2>2 DEF PopLoad, PopCopy, PopStore, ReadDropped, MoveTo
    <3> QED
      BY <1>0, <3>1, <3>2
  <2> QED
    BY <1>2, <2>1, <2>2 DEF DrainStep
<1>3. CASE TimerFires
  BY <1>0, <1>3 DEF TimerFires
<1>4. CASE OnConfigure \/ OnActivate \/ OnDeactivate \/ UNCHANGED vars
  BY <1>4 DEF OnConfigure, OnActivate, OnDeactivate, vars
<1>5. CASE OnCleanup
  BY <1>0, <1>5 DEF OnCleanup, NoDrain
<1> QED
  BY <1>1, <1>2, <1>3, <1>4, <1>5 DEF Next

(* A step of a drain brings it nearer its end, and no other step touches it
   once it is under way. *)
LEMMA DrainNears ==
  ASSUME TypeOK, CleaningInv, [Next]_vars, NEW c \in Consumers,
         drain[c].pc # "idle", drain'[c] # drain[c]
  PROVE  Work(c)' < Work(c)
<1>0. /\ drain \in [Consumers -> [pc : DrainPcs, from : 0..MaxCycles,
                      sample : 0..MaxCycles, pops : 0..DrainLimit,
                      dropped : 0..MaxCycles]]
      /\ drain[c].pops \in Nat /\ drain[c].pops <= DrainLimit
      /\ DrainLimit \in Nat
  BY RingAssumption DEF TypeOK
<1>1. DrainStep(c)
  <2>1. ~Push
    BY DEF Push, PushLoad, PushCopy, PushStore, PushDrop, PushDropApplication
  <2>2. ~TimerFires
    BY <1>0 DEF TimerFires, Consumers
  <2>3. ~OnCleanup
    BY <1>0 DEF OnCleanup, CleaningInv, Consumers
  <2>4. ~OnConfigure /\ ~OnActivate /\ ~OnDeactivate /\ ~UNCHANGED vars
    BY DEF OnConfigure, OnActivate, OnDeactivate, vars
  <2>5. ASSUME NEW d \in Consumers, d # c PROVE ~DrainStep(d)
    BY <1>0, <2>5 DEF DrainStep, PopLoad, PopCopy, PopStore, ReadDropped,
       PublishSamples, MoveTo
  <2> QED
    BY <2>1, <2>2, <2>3, <2>4, <2>5 DEF Next
<1>2. CASE PopLoad(c)
  <2>1. \/ drain'[c].pc = "copy" /\ drain'[c].pops = drain[c].pops
        \/ drain'[c].pc = "dropped"
    BY <1>0, <1>2 DEF PopLoad, MoveTo
  <2>2. Work(c) = 3 * (DrainLimit - drain[c].pops) + 5
    BY <1>2 DEF PopLoad, Work
  <2>3. \/ Work(c)' = 3 * (DrainLimit - drain[c].pops) + 4
        \/ Work(c)' = 2
    BY <2>1 DEF Work
  <2> QED
    BY <1>0, <2>2, <2>3
<1>3. CASE PopCopy(c)
  <2>1. drain'[c].pc = "release" /\ drain'[c].pops = drain[c].pops
    BY <1>0, <1>3 DEF PopCopy
  <2>2. Work(c) = 3 * (DrainLimit - drain[c].pops) + 4
    BY <1>3 DEF PopCopy, Work
  <2>3. Work(c)' = 3 * (DrainLimit - drain[c].pops) + 3
    BY <2>1 DEF Work
  <2> QED
    BY <1>0, <2>2, <2>3
<1>4. CASE PopStore(c)
  <2>1. drain'[c].pc = "pop" /\ drain'[c].pops = drain[c].pops + 1
    BY <1>0, <1>4 DEF PopStore
  <2>2. Work(c) = 3 * (DrainLimit - drain[c].pops) + 3
    BY <1>4 DEF PopStore, Work
  <2>3. Work(c)' = 3 * (DrainLimit - (drain[c].pops + 1)) + 5
    BY <2>1 DEF Work
  <2> QED
    BY <1>0, <2>2, <2>3
<1>5. CASE ReadDropped(c)
  BY <1>0, <1>5 DEF ReadDropped, Work
<1>6. CASE PublishSamples(c)
  BY <1>0, <1>6 DEF PublishSamples, MoveTo, Work
<1> QED
  BY <1>1, <1>2, <1>3, <1>4, <1>5, <1>6 DEF DrainStep

(***************************************************************************)
(* A drain of the evidence ends after a number of its own steps that its   *)
(* limit fixes: no arrival, restart or second drain adds to it.            *)
(***************************************************************************)
THEOREM DrainsEnd == Spec => DrainsWindDown
<1>1. Init => CleaningInv
  BY DEF Init, CleaningInv, NoDrain, Consumers
<1>2. TypeOK /\ CleaningInv /\ [Next]_vars =>
        [\A c \in Consumers :
           drain[c].pc # "idle" => drain'[c] = drain[c] \/ Work(c)' < Work(c)]_vars
  BY DrainNears
<1> QED
  BY <1>1, <1>2, CleaningStep, TypeCorrect, PTL DEF Spec, DrainsWindDown
=============================================================================
