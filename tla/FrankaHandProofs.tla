-------------------------- MODULE FrankaHandProofs --------------------------
(***************************************************************************)
(* The hand's client never lets two goals live at the gripper, knows of    *)
(* every grip and issues only what is safe to issue: for any commands, any *)
(* number of requests, and a transport that raises whenever it likes.      *)
(***************************************************************************)
EXTENDS FrankaHand, SequenceTheorems, TLAPS

(* A request is disposed of in place. *)
LEMMA DisposeInPlace ==
  ASSUME requests \in Seq(Record), NEW id \in 1..Len(requests),
         NEW d \in Dispositions
  PROVE  /\ Dispose(id, d) \in Seq(Record)
         /\ Len(Dispose(id, d)) = Len(requests)
         /\ \A i \in 1..Len(requests) :
              /\ Dispose(id, d)[i].cmd = requests[i].cmd
              /\ i # id => Dispose(id, d)[i] = requests[i]
<1>1. requests[id] \in Record
  BY ElementOfSeq
<1>2. [cmd |-> requests[id].cmd, disposition |-> d] \in Record
  BY <1>1 DEF Record
<1> QED
  BY <1>2, ExceptSeq DEF Dispose

(* A request recorded leaves the ones before it alone. *)
LEMMA AppendKeeps ==
  ASSUME NEW s \in Seq(Record), NEW r \in Record
  PROVE  /\ Append(s, r) \in Seq(Record)
         /\ Len(Append(s, r)) = Len(s) + 1
         /\ \A i \in 1..Len(s) : Append(s, r)[i] = s[i]
         /\ Append(s, r)[Len(s) + 1] = r
  BY AppendProperties

(* What a request does to the book. *)
LEMMA RequestEffect ==
  ASSUME TypeOK, NEW cmd \in Commands, Request(cmd)
  PROVE  /\ requests' \in Seq(Record)
         /\ Len(requests') = Len(requests) + 1
         /\ \A i \in 1..Len(requests) :
              /\ requests'[i].cmd = requests[i].cmd
              /\ i # desired => requests'[i] = requests[i]
         /\ \/ desired' = desired /\ requests'[Len(requests) + 1].disposition = "duplicate"
            \/ desired' = Len(requests) + 1
<1> DEFINE duplicate == desired # 0 /\ requests[desired].cmd = cmd
           old == IF ~duplicate /\ Superseding
                  THEN Dispose(desired, "superseded_before_issue")
                  ELSE requests
           new == [cmd |-> cmd,
                   disposition |-> IF duplicate THEN "duplicate" ELSE "queued"]
<1>1. requests' = Append(old, new)
      /\ desired' = IF duplicate THEN desired ELSE Len(requests) + 1
  BY DEF Request
<1>2. new \in Record /\ (duplicate => new.disposition = "duplicate")
  BY DEF Record, Dispositions
<1>3. /\ old \in Seq(Record)
      /\ Len(old) = Len(requests)
      /\ \A i \in 1..Len(requests) :
           old[i].cmd = requests[i].cmd /\ (i # desired => old[i] = requests[i])
  <2>1. CASE ~duplicate /\ Superseding
    <3>1. desired \in 1..Len(requests)
      BY <2>1, LenProperties DEF Superseding, Queued, TypeOK, BookTypes
    <3>2. "superseded_before_issue" \in Dispositions /\ requests \in Seq(Record)
      BY DEF Dispositions, TypeOK, BookTypes
    <3>3. old = Dispose(desired, "superseded_before_issue")
      BY <2>1
    <3> HIDE DEF old
    <3> QED
      BY <3>1, <3>2, <3>3, DisposeInPlace
  <2>2. CASE ~(~duplicate /\ Superseding)
    <3>1. old = requests
      BY <2>2
    <3> QED
      BY <3>1 DEF TypeOK, BookTypes
  <2> QED
    BY <2>1, <2>2
<1> HIDE DEF old, new
<1>4. /\ Append(old, new) \in Seq(Record)
      /\ Len(Append(old, new)) = Len(old) + 1
      /\ \A i \in 1..Len(old) : Append(old, new)[i] = old[i]
      /\ Append(old, new)[Len(old) + 1] = new
  BY <1>2, <1>3, AppendKeeps
<1> QED
  BY <1>1, <1>2, <1>3, <1>4

(* Every step keeps the flags Boolean. *)
LEMMA FlagTypesStep == HandInv /\ [Next]_vars => FlagTypes'
<1> SUFFICES ASSUME FlagTypes, [Next]_vars PROVE FlagTypes'
  BY DEF HandInv, TypeOK
<1> USE DEF FlagTypes, reqVars, goalVars, stopVars, failVars, extVars, histVars,
           clientVars, Go, Skip, Continue, Fail, Raised, Cleared
<1>1. CASE Stop
  BY <1>1, Zenon DEF Stop
<1>2. CASE TickDeadline
  BY <1>2, Zenon DEF TickDeadline
<1>3. CASE TickStop
  BY <1>3, Zenon DEF TickStop, StopOwed
<1>4. CASE TickStopResult
  BY <1>4, Zenon DEF TickStopResult
<1>5. CASE TickReleaseFailed
  BY <1>5, Zenon DEF TickReleaseFailed
<1>6. CASE TickReleased
  BY <1>6, Zenon DEF TickReleased
<1>7. CASE TickGoalRejected
  BY <1>7, Zenon DEF TickGoalRejected
<1>8. CASE TickGoal
  BY <1>8, Zenon DEF TickGoal
<1>9. CASE TickCancel
  BY <1>9, Zenon DEF TickCancel
<1>10. CASE TickCancelResult
  BY <1>10, Zenon DEF TickCancelResult
<1>11. CASE TickResultRaised
  BY <1>11, Zenon DEF TickResultRaised
<1>12. CASE TickResult
  <2>1. PICK success, cancelled : holding' = HoldingAfter(success, cancelled)
    BY <1>12 DEF TickResult
  <2>2. holding' \in BOOLEAN
    BY <2>1, Zenon DEF HoldingAfter
  <2>3. error' \in BOOLEAN /\ stopping' \in BOOLEAN
    BY <1>12, Zenon DEF TickResult
  <2> QED
    BY <1>12, <2>2, <2>3, Zenon DEF TickResult
<1>13. CASE TickReleaseStop
  BY <1>13, Zenon DEF TickReleaseStop
<1>14. CASE TickIssue
  BY <1>14, Zenon DEF TickIssue
<1>15. ASSUME NEW id \in Ids, ServerFinishes(id) PROVE FlagTypes'
  BY <1>15, Zenon DEF ServerFinishes
<1>16. CASE StopResponseArrives
  BY <1>16, Zenon DEF StopResponseArrives, StopAnswer
<1>17. CASE ReleaseResponseArrives
  BY <1>17, Zenon DEF ReleaseResponseArrives, StopAnswer
<1>18. CASE UNCHANGED <<handle, cancelLogged, holding, error, stopping, stopSent,
                      gripping>>
  BY <1>18 DEF FlagTypes
<1> QED
  BY <1>1, <1>2, <1>3, <1>4, <1>5, <1>6, <1>7, <1>8, <1>9, <1>10, <1>11,
    <1>12, <1>13, <1>14, <1>15, <1>16, <1>17, <1>18
  DEF Next, Scheduler, TickBlocks, External, vars, reqVars, goalVars,
     stopVars, failVars, extVars, histVars, clientVars, Skip, Continue,
     Request, Tick, TickNoDeadline, TickNoStop, TickNoStopResult,
     TickNoRelease, TickNoGoal, TickNoCancel, TickNoCancelResult, TickWait,
     TickNoResult, TickNothing, TickReleaseWait, DeadlinePasses,
     ServerAnswersGoal, GoalResponseArrives, ResultArrives,
     CancelResponseArrives, Resolves

(* Every step keeps the futures among what they can resolve to. *)
LEMMA FutureTypesStep == HandInv /\ [Next]_vars => FutureTypes'
<1> SUFFICES ASSUME FutureTypes, [Next]_vars PROVE FutureTypes'
  BY DEF HandInv, TypeOK
<1> USE DEF FutureTypes, Blocks, reqVars, goalVars, stopVars, failVars, extVars, histVars,
           clientVars, Go, Skip, Continue, Fail, Raised, Cleared
<1>1. CASE Tick
  BY <1>1 DEF Tick
<1>2. CASE TickNoDeadline
  BY <1>2 DEF TickNoDeadline
<1>3. CASE TickDeadline
  BY <1>3 DEF TickDeadline
<1>4. CASE TickNoStop
  BY <1>4 DEF TickNoStop
<1>5. CASE TickStop
  BY <1>5 DEF TickStop, StopOwed
<1>6. CASE TickNoStopResult
  BY <1>6 DEF TickNoStopResult
<1>7. CASE TickStopResult
  BY <1>7 DEF TickStopResult
<1>8. CASE TickNoRelease
  BY <1>8 DEF TickNoRelease
<1>9. CASE TickReleaseFailed
  BY <1>9 DEF TickReleaseFailed
<1>10. CASE TickReleased
  BY <1>10 DEF TickReleased
<1>11. CASE TickNoGoal
  BY <1>11 DEF TickNoGoal
<1>12. CASE TickGoalRejected
  BY <1>12 DEF TickGoalRejected
<1>13. CASE TickGoal
  BY <1>13 DEF TickGoal
<1>14. CASE TickNoCancel
  BY <1>14 DEF TickNoCancel
<1>15. CASE TickCancel
  BY <1>15 DEF TickCancel
<1>16. CASE TickNoCancelResult
  BY <1>16 DEF TickNoCancelResult
<1>17. CASE TickCancelResult
  BY <1>17 DEF TickCancelResult
<1>18. CASE TickWait
  BY <1>18 DEF TickWait
<1>19. CASE TickNoResult
  BY <1>19 DEF TickNoResult
<1>20. CASE TickResultRaised
  BY <1>20 DEF TickResultRaised
<1>21. CASE TickResult
  BY <1>21 DEF TickResult
<1>22. CASE TickNothing
  BY <1>22 DEF TickNothing
<1>23. CASE TickReleaseWait
  BY <1>23 DEF TickReleaseWait
<1>24. CASE TickReleaseStop
  BY <1>24 DEF TickReleaseStop
<1>25. CASE TickIssue
  BY <1>25 DEF TickIssue
<1>26. CASE DeadlinePasses
  BY <1>26 DEF DeadlinePasses
<1>27. ASSUME NEW id \in Ids, ServerAnswersGoal(id) PROVE FutureTypes'
  BY <1>27 DEF ServerAnswersGoal
<1>28. ASSUME NEW id \in Ids, ServerFinishes(id) PROVE FutureTypes'
  BY <1>28 DEF ServerFinishes
<1>29. CASE GoalResponseArrives
  BY <1>29 DEF GoalResponseArrives, Resolves
<1>30. CASE ResultArrives
  BY <1>30 DEF ResultArrives, Resolves
<1>31. CASE CancelResponseArrives
  BY <1>31 DEF CancelResponseArrives, Resolves
<1>32. CASE StopResponseArrives
  BY <1>32 DEF StopResponseArrives, StopAnswer
<1>33. CASE ReleaseResponseArrives
  BY <1>33 DEF ReleaseResponseArrives, StopAnswer
<1>34. CASE UNCHANGED <<goal, result, cancel, stopFuture, releaseStop, deadline,
                      pc, server>>
  BY <1>34 DEF FutureTypes
<1> QED
  BY <1>1, <1>2, <1>3, <1>4, <1>5, <1>6, <1>7, <1>8, <1>9, <1>10, <1>11,
    <1>12, <1>13, <1>14, <1>15, <1>16, <1>17, <1>18, <1>19, <1>20, <1>21,
    <1>22, <1>23, <1>24, <1>25, <1>26, <1>27, <1>28, <1>29, <1>30, <1>31,
    <1>32, <1>33, <1>34
  DEF Next, Scheduler, TickBlocks, External, vars, reqVars, goalVars,
     stopVars, failVars, extVars, histVars, clientVars, Skip, Continue,
     Request, Stop

(* Every step keeps the book and the positions in it. *)
LEMMA BookTypesStep == HandInv /\ [Next]_vars => BookTypes'
<1> SUFFICES ASSUME TypeOK, SlotInv, StopInv, [Next]_vars
             PROVE  BookTypes'
  BY DEF HandInv
<1> USE DEF TypeOK, BookTypes, reqVars, goalVars, stopVars, failVars, extVars, histVars,
           clientVars, Go, Skip, Continue, Fail, Raised, Cleared
<1>1. ASSUME NEW cmd \in Commands, Request(cmd) PROVE BookTypes'
  <2>1. /\ requests' \in Seq(Record)
        /\ Len(requests') = Len(requests) + 1
        /\ desired' \in {desired, Len(requests) + 1}
    BY <1>1, RequestEffect
  <2> QED
    BY <1>1, <2>1 DEF Request
<1>2. CASE Stop
  BY <1>2 DEF Stop
<1>3. CASE Tick
  BY <1>3 DEF Tick
<1>4. CASE TickDeadline
  BY <1>4 DEF TickDeadline
<1>5. CASE TickStop
  <2>1. stopCalls = 0
    BY <1>5 DEF TickStop, StopOwed, StopInv
  <2> QED
    BY <1>5, <2>1 DEF TickStop
<1>6. CASE TickStopResult
  BY <1>6 DEF TickStopResult
<1>7. CASE TickReleaseFailed
  BY <1>7 DEF TickReleaseFailed
<1>8. CASE TickGoalRejected
  BY <1>8 DEF TickGoalRejected
<1>9. CASE TickGoal
  BY <1>9 DEF TickGoal
<1>10. CASE TickCancel
  BY <1>10 DEF TickCancel
<1>11. CASE TickCancelResult
  BY <1>11 DEF TickCancelResult
<1>12. CASE TickResultRaised
  BY <1>12 DEF TickResultRaised
<1>13. CASE TickResult
  <2>1. PICK d \in Dispositions : requests' = Dispose(active, d)
    BY <1>13 DEF TickResult, Dispositions
  <2>2. active \in 1..Len(requests)
    BY <1>13 DEF TickResult, SlotInv, Outcomes
  <2>3. requests' \in Seq(Record) /\ Len(requests') = Len(requests)
    BY <2>1, <2>2, DisposeInPlace
  <2> QED
    BY <1>13, <2>3 DEF TickResult
<1>14. CASE TickReleaseStop
  BY <1>14 DEF TickReleaseStop
<1>15. CASE TickIssue
  <2>1. desired \in 1..Len(requests) /\ "issued" \in Dispositions
    BY <1>15 DEF TickIssue, MayIssue, Queued, Dispositions
  <2>2. requests' = Dispose(desired, "issued") /\ active' = desired
    BY <1>15 DEF TickIssue
  <2>3. requests' \in Seq(Record) /\ Len(requests') = Len(requests)
    BY <2>1, <2>2, DisposeInPlace
  <2> QED
    BY <1>15, <2>1, <2>2, <2>3 DEF TickIssue
<1>16. CASE UNCHANGED <<requests, desired, active, stopCalls, owed>>
  BY <1>16 DEF BookTypes
<1> QED
  BY <1>1, <1>2, <1>3, <1>4, <1>5, <1>6, <1>7, <1>8, <1>9, <1>10, <1>11,
    <1>12, <1>13, <1>14, <1>15, <1>16
  DEF Next, Scheduler, TickBlocks, External, vars, reqVars, goalVars,
     stopVars, failVars, extVars, histVars, clientVars, Skip, Continue,
     TickNoDeadline, TickNoStop, TickNoStopResult, TickNoRelease,
     TickReleased, TickNoGoal, TickNoCancel, TickNoCancelResult, TickWait,
     TickNoResult, TickNothing, TickReleaseWait, DeadlinePasses,
     ServerAnswersGoal, ServerFinishes, GoalResponseArrives, ResultArrives,
     CancelResponseArrives, StopResponseArrives, ReleaseResponseArrives,
     Resolves, StopAnswer

(* Every step keeps the slot taken while a goal may be alive. *)
LEMMA SlotInvStep == HandInv /\ [Next]_vars => SlotInv'
<1> SUFFICES ASSUME TypeOK, SlotInv, OrderInv, [Next]_vars PROVE SlotInv'
  BY DEF HandInv
<1> USE HandAssumption DEF TypeOK, BookTypes, FutureTypes, FlagTypes, SlotInv, Live, Ids,
           Outcomes, reqVars, goalVars, stopVars, failVars, extVars, histVars,
           clientVars, Go, Skip, Continue, Fail, Raised, Cleared
<1>1. CASE TickGoalRejected
  BY <1>1 DEF TickGoalRejected
<1>2. CASE TickGoal
  BY <1>2 DEF TickGoal
<1>3. CASE TickCancel
  BY <1>3 DEF TickCancel, MayCancel, Replacing
<1>4. CASE TickResult
  BY <1>4 DEF TickResult
<1>5. CASE TickIssue
  BY <1>5 DEF TickIssue, MayIssue, Queued, OrderInv
<1>6. ASSUME NEW id \in Ids, ServerAnswersGoal(id) PROVE SlotInv'
  BY <1>6 DEF ServerAnswersGoal
<1>7. ASSUME NEW id \in Ids, ServerFinishes(id) PROVE SlotInv'
  BY <1>7 DEF ServerFinishes
<1>8. CASE GoalResponseArrives
  BY <1>8 DEF GoalResponseArrives, Resolves
<1>9. CASE ResultArrives
  BY <1>9 DEF ResultArrives, Resolves
<1>10. CASE CancelResponseArrives
  BY <1>10 DEF CancelResponseArrives, Resolves
<1>11. CASE UNCHANGED <<active, goal, result, cancel, handle, server>>
  BY <1>11 DEF SlotInv, Live
<1> QED
  BY <1>1, <1>2, <1>3, <1>4, <1>5, <1>6, <1>7, <1>8, <1>9, <1>10, <1>11
  DEF Next, Scheduler, TickBlocks, External, vars, reqVars, goalVars,
     stopVars, failVars, extVars, histVars, clientVars, Skip, Continue,
     Request, Stop, Tick, TickNoDeadline, TickDeadline, TickNoStop,
     TickStop, TickNoStopResult, TickStopResult, TickNoRelease,
     TickReleaseFailed, TickReleased, TickNoGoal, TickNoCancel,
     TickNoCancelResult, TickCancelResult, TickWait, TickNoResult,
     TickResultRaised, TickNothing, TickReleaseWait, TickReleaseStop,
     DeadlinePasses, StopResponseArrives, ReleaseResponseArrives,
     StopAnswer, StopOwed

(* Every step that fails or stops gives up what is desired. *)
LEMMA StopInvStep == HandInv /\ [Next]_vars => StopInv'
<1> SUFFICES ASSUME TypeOK, StopInv, [Next]_vars PROVE StopInv'
  BY DEF HandInv
<1> USE DEF TypeOK, BookTypes, FutureTypes, FlagTypes, StopInv, Done,
           reqVars, goalVars, stopVars, failVars, extVars, histVars,
           clientVars, Go, Skip, Continue, Fail, Raised, Cleared
<1>1. ASSUME NEW cmd \in Commands, Request(cmd) PROVE StopInv'
  BY <1>1 DEF Request
<1>2. CASE Stop
  BY <1>2 DEF Stop
<1>3. CASE TickDeadline
  BY <1>3 DEF TickDeadline
<1>4. CASE TickStop
  BY <1>4 DEF TickStop, StopOwed
<1>5. CASE TickStopResult
  BY <1>5 DEF TickStopResult
<1>6. CASE TickReleaseFailed
  BY <1>6 DEF TickReleaseFailed
<1>7. CASE TickReleased
  BY <1>7 DEF TickReleased
<1>8. CASE TickGoalRejected
  BY <1>8 DEF TickGoalRejected
<1>9. CASE TickGoal
  BY <1>9 DEF TickGoal
<1>10. CASE TickCancel
  BY <1>10 DEF TickCancel
<1>11. CASE TickCancelResult
  BY <1>11 DEF TickCancelResult
<1>12. CASE TickResultRaised
  BY <1>12 DEF TickResultRaised
<1>13. CASE TickResult
  BY <1>13 DEF TickResult
<1>14. CASE TickReleaseStop
  BY <1>14 DEF TickReleaseStop
<1>15. CASE TickIssue
  BY <1>15 DEF TickIssue
<1>16. CASE StopResponseArrives
  BY <1>16 DEF StopResponseArrives, StopAnswer
<1>17. CASE UNCHANGED <<stopping, desired, error, stopFuture, stopCalls, stopSent>>
  BY <1>17 DEF StopInv
<1> QED
  BY <1>1, <1>2, <1>3, <1>4, <1>5, <1>6, <1>7, <1>8, <1>9, <1>10, <1>11,
    <1>12, <1>13, <1>14, <1>15, <1>16, <1>17
  DEF Next, Scheduler, TickBlocks, External, vars, reqVars, goalVars,
     stopVars, failVars, extVars, histVars, clientVars, Skip, Continue,
     Tick, TickNoDeadline, TickNoStop, TickNoStopResult, TickNoRelease,
     TickNoGoal, TickNoCancel, TickNoCancelResult, TickWait, TickNoResult,
     TickNothing, TickReleaseWait, DeadlinePasses, ServerAnswersGoal,
     ServerFinishes, GoalResponseArrives, ResultArrives,
     CancelResponseArrives, ReleaseResponseArrives, Resolves, StopAnswer

(* Every step keeps what is desired the latest distinct request. *)
LEMMA OrderInvStep == HandInv /\ [Next]_vars => OrderInv'
<1> SUFFICES ASSUME TypeOK, SlotInv, StopInv, OrderInv, [Next]_vars
             PROVE  OrderInv'
  BY DEF HandInv
<1> USE HandAssumption DEF TypeOK, BookTypes, FutureTypes, FlagTypes, StopInv,
           OrderInv, Disposition, reqVars, goalVars, stopVars, failVars, extVars, histVars,
           clientVars, Go, Skip, Continue, Fail, Raised, Cleared
<1>1. ASSUME NEW cmd \in Commands, Request(cmd) PROVE OrderInv'
  <2>1. /\ requests' \in Seq(Record)
        /\ Len(requests') = Len(requests) + 1
        /\ \A i \in 1..Len(requests) : i # desired => requests'[i] = requests[i]
        /\ \/ /\ desired' = desired
              /\ requests'[Len(requests) + 1].disposition = "duplicate"
           \/ desired' = Len(requests) + 1
    BY <1>1, RequestEffect
  <2>2. Len(requests) < MaxRequests /\ UNCHANGED <<active, stopping>> /\ ~stopping
    BY <1>1 DEF Request
  <2>3. Len(requests) \in Nat
    BY LenProperties
  <2>4. CASE desired' = Len(requests) + 1
    BY <2>1, <2>2, <2>3, <2>4
  <2>5. CASE desired' = desired /\ requests'[Len(requests) + 1].disposition = "duplicate"
    <3>1. ASSUME NEW id \in (desired + 1)..(Len(requests) + 1), desired # 0
          PROVE  requests'[id].disposition = "duplicate"
      <4>1. CASE id = Len(requests) + 1
        BY <2>5, <4>1
      <4>2. CASE id \in (desired + 1)..Len(requests)
        BY <2>1, <2>3, <3>1, <4>2
      <4> QED
        BY <2>3, <3>1, <4>1, <4>2
    <3> QED
      BY <2>1, <2>2, <2>3, <2>5, <3>1
  <2> QED
    BY <2>1, <2>4, <2>5
<1>2. CASE Stop
  BY <1>2 DEF Stop
<1>3. CASE TickDeadline
  BY <1>3 DEF TickDeadline
<1>4. CASE TickStop
  BY <1>4 DEF TickStop, StopOwed
<1>5. CASE TickStopResult
  BY <1>5 DEF TickStopResult
<1>6. CASE TickReleaseFailed
  BY <1>6 DEF TickReleaseFailed
<1>7. CASE TickGoalRejected
  BY <1>7 DEF TickGoalRejected
<1>8. CASE TickGoal
  BY <1>8 DEF TickGoal
<1>9. CASE TickCancel
  BY <1>9 DEF TickCancel
<1>10. CASE TickCancelResult
  BY <1>10 DEF TickCancelResult
<1>11. CASE TickResultRaised
  BY <1>11 DEF TickResultRaised
<1>12. CASE TickResult
  <2>1. PICK d \in Dispositions : requests' = Dispose(active, d)
    BY <1>12 DEF TickResult, Dispositions
  <2>2. active \in 1..Len(requests)
    BY <1>12 DEF TickResult, SlotInv, Outcomes
  <2>3. /\ Len(requests') = Len(requests)
        /\ \A i \in 1..Len(requests) : i # active => requests'[i] = requests[i]
    BY <2>1, <2>2, DisposeInPlace
  <2>4. active' = 0 /\ desired' \in {desired, 0}
    BY <1>12 DEF TickResult
  <2> QED
    BY <2>2, <2>3, <2>4
<1>13. CASE TickReleaseStop
  BY <1>13 DEF TickReleaseStop
<1>14. CASE TickIssue
  <2>1. desired \in 1..Len(requests) /\ "issued" \in Dispositions
    BY <1>14 DEF TickIssue, MayIssue, Queued, Dispositions
  <2>2. requests' = Dispose(desired, "issued") /\ active' = desired
    BY <1>14 DEF TickIssue
  <2>3. \/ desired' = desired
        \/ desired' = 0 /\ stopping' = TRUE
    BY <1>14 DEF TickIssue
  <2>4. /\ Len(requests') = Len(requests)
        /\ \A i \in 1..Len(requests) : i # desired => requests'[i] = requests[i]
    BY <2>1, <2>2, DisposeInPlace
  <2> QED
    BY <2>1, <2>2, <2>3, <2>4
<1>15. CASE UNCHANGED <<requests, active, desired, stopping>>
  BY <1>15 DEF OrderInv
<1> QED
  BY <1>1, <1>2, <1>3, <1>4, <1>5, <1>6, <1>7, <1>8, <1>9, <1>10, <1>11,
    <1>12, <1>13, <1>14, <1>15
  DEF Next, Scheduler, TickBlocks, External, vars, reqVars, goalVars,
     stopVars, failVars, extVars, histVars, clientVars, Skip, Continue,
     Tick, TickNoDeadline, TickNoStop, TickNoStopResult, TickNoRelease,
     TickReleased, TickNoGoal, TickNoCancel, TickNoCancelResult, TickWait,
     TickNoResult, TickNothing, TickReleaseWait, DeadlinePasses,
     ServerAnswersGoal, ServerFinishes, GoalResponseArrives, ResultArrives,
     CancelResponseArrives, StopResponseArrives, ReleaseResponseArrives,
     Resolves, StopAnswer

(* Every step keeps holding_grasp true of a grip whose result has been read. *)
LEMMA GripInvStep == HandInv /\ [Next]_vars => GripInv'
<1> SUFFICES ASSUME TypeOK, SlotInv, OrderInv, GripInv, [Next]_vars
             PROVE  GripInv'
  BY DEF HandInv
<1> USE HandAssumption DEF TypeOK, BookTypes, FutureTypes, FlagTypes, GripInv,
           reqVars, goalVars, stopVars, failVars, extVars, histVars,
           clientVars, Go, Skip, Continue, Fail, Raised, Cleared
<1>1. ASSUME NEW cmd \in Commands, Request(cmd) PROVE GripInv'
  <2>1. \A i \in 1..Len(requests) : requests'[i].cmd = requests[i].cmd
    BY <1>1, RequestEffect
  <2>2. active # 0 => active \in 1..Len(requests)
    BY LenProperties
  <2>3. /\ UNCHANGED <<active, releaseStop, holding, gripping, stopping, server>>
        /\ ~stopping
    BY <1>1 DEF Request
  <2> QED
    BY <2>1, <2>2, <2>3
<1>2. CASE Stop
  BY <1>2 DEF Stop
<1>3. CASE TickDeadline
  BY <1>3 DEF TickDeadline
<1>4. CASE TickStop
  BY <1>4 DEF TickStop, StopOwed
<1>5. CASE TickStopResult
  BY <1>5 DEF TickStopResult
<1>6. CASE TickReleaseFailed
  BY <1>6 DEF TickReleaseFailed
<1>7. CASE TickReleased
  <2>1. ~gripping
    BY <1>7 DEF TickReleased
  <2>2. releaseStop' = "none" /\ UNCHANGED gripping
    BY <1>7 DEF TickReleased, Done
  <2> QED
    BY <2>1, <2>2
<1>8. CASE TickGoalRejected
  BY <1>8 DEF TickGoalRejected, SlotInv
<1>9. CASE TickGoal
  BY <1>9 DEF TickGoal
<1>10. CASE TickCancel
  BY <1>10 DEF TickCancel
<1>11. CASE TickCancelResult
  BY <1>11 DEF TickCancelResult
<1>12. CASE TickResultRaised
  BY <1>12 DEF TickResultRaised
<1>13. CASE TickResult
  <2>1. active # 0 /\ server[active] = result /\ active' = 0
    BY <1>13 DEF TickResult, SlotInv, Outcomes
  <2>2. releaseStop = "none" /\ UNCHANGED <<releaseStop, gripping>>
    BY <1>13, <2>1 DEF TickResult
  <2> SUFFICES ASSUME gripping, ~stopping' PROVE holding'
    BY <2>1, <2>2
  <2>3. ~stopping
    BY <1>13 DEF TickResult
  <2>4. requests[active].cmd \in Grasps /\ result \in {"succeeded", "unsuccessful"}
    BY <2>1, <2>3
  <2>5. result = "succeeded"
    BY <1>13, <2>3, <2>4 DEF TickResult
  <2>6. holding' = HoldingAfter(result = "succeeded",
                                cancel # "none" /\ result = "canceled")
    BY <1>13 DEF TickResult
  <2> QED
    BY <2>4, <2>5, <2>6 DEF HoldingAfter
<1>14. CASE TickReleaseStop
  BY <1>14 DEF TickReleaseStop, MayIssue, MustRelease
<1>15. CASE TickIssue
  <2>1. active = 0 /\ ~holding /\ ~stopping /\ desired # 0
    BY <1>15 DEF TickIssue, MayIssue, MustRelease, Queued
  <2>2. releaseStop = "none" /\ ~gripping
    BY <2>1
  <2> QED
    BY <1>15, <2>2 DEF TickIssue
<1>16. ASSUME NEW id \in Ids, ServerAnswersGoal(id) PROVE GripInv'
  BY <1>16 DEF ServerAnswersGoal, SlotInv, Live
<1>17. ASSUME NEW id \in Ids, ServerFinishes(id) PROVE GripInv'
  <2>1. id = active /\ active # 0
    BY <1>17 DEF ServerFinishes, SlotInv, Live, Ids
  <2>2. requests[active] \in Record
    BY <2>1, ElementOfSeq
  <2>3. requests[active].cmd \in Moves \cup Grasps
    BY <2>2 DEF Record, Commands
  <2>4. releaseStop # "ok"
    BY <2>1
  <2>5. PICK outcome \in Outcomes :
          /\ server' = [server EXCEPT ![id] = outcome]
          /\ IF requests[id].cmd \in Moves THEN UNCHANGED gripping
             ELSE \/ outcome # "canceled" /\ gripping' = TRUE
                  \/ outcome # "succeeded" /\ gripping' = FALSE
    BY <1>17 DEF ServerFinishes
  <2>6. UNCHANGED <<requests, active, releaseStop, holding, stopping>>
    BY <1>17 DEF ServerFinishes
  <2>7. server'[active] = outcome
    BY <2>1, <2>5, active \in Ids DEF Ids
  <2>8. CASE requests[active].cmd \in Moves
    <3>1. gripping => stopping
      BY <2>1, <2>8
    <3> QED
      BY <2>1, <2>4, <2>5, <2>6, <2>8, <3>1
  <2>9. CASE requests[active].cmd \notin Moves
    BY <2>1, <2>3, <2>4, <2>5, <2>6, <2>7, <2>9 DEF Outcomes
  <2> QED
    BY <2>8, <2>9
<1>18. CASE StopResponseArrives
  BY <1>18 DEF StopResponseArrives, StopAnswer
<1>19. CASE ReleaseResponseArrives
  BY <1>19 DEF ReleaseResponseArrives, StopAnswer
<1>20. CASE UNCHANGED <<releaseStop, holding, active, gripping, stopping, server, requests>>
  BY <1>20 DEF GripInv
<1> QED
  BY <1>1, <1>2, <1>3, <1>4, <1>5, <1>6, <1>7, <1>8, <1>9, <1>10, <1>11,
    <1>12, <1>13, <1>14, <1>15, <1>16, <1>17, <1>18, <1>19, <1>20
  DEF Next, Scheduler, TickBlocks, External, vars, reqVars, goalVars,
     stopVars, failVars, extVars, histVars, clientVars, Skip, Continue,
     Tick, TickNoDeadline, TickNoStop, TickNoStopResult, TickNoRelease,
     TickNoGoal, TickNoCancel, TickNoCancelResult, TickWait, TickNoResult,
     TickNothing, TickReleaseWait, DeadlinePasses, GoalResponseArrives,
     ResultArrives, CancelResponseArrives, Resolves

(* The client starts with nothing requested, sent, held or asked for. *)
LEMMA HandInit == Init => HandInv
<1> SUFFICES ASSUME Init PROVE HandInv
  OBVIOUS
<1> USE HandAssumption DEF Init
<1>1. FlagTypes
  BY Zenon DEF FlagTypes
<1>2. FutureTypes
  BY DEF FutureTypes, Blocks
<1>3. BookTypes
  BY EmptySeq DEF BookTypes
<1>4. SlotInv
  BY DEF SlotInv, Live, Outcomes
<1>5. StopInv
  BY DEF StopInv
<1>6. Len(requests) = 0
  BY EmptySeq
<1>7. OrderInv
  BY <1>6 DEF OrderInv
<1>8. GripInv
  BY DEF GripInv
<1> QED
  BY <1>1, <1>2, <1>3, <1>4, <1>5, <1>7, <1>8 DEF HandInv, TypeOK

(* The slot, the stop, the order of the requests and the grip hold together in
   every reachable state. *)
THEOREM HandInvariant == Spec => []HandInv
<1>1. HandInv /\ [Next]_vars => HandInv'
  BY FlagTypesStep, FutureTypesStep, BookTypesStep, SlotInvStep, StopInvStep,
     OrderInvStep, GripInvStep DEF HandInv, TypeOK
<1> QED
  BY HandInit, <1>1, PTL DEF Spec

(* The client's variables keep their types. *)
THEOREM TypeCorrect == Spec => []TypeOK
<1>1. HandInv => TypeOK
  BY DEF HandInv
<1> QED
  BY HandInvariant, <1>1, PTL

(* The gripper never has two goals of ours alive: whatever is alive has the
   slot, and there is one slot. *)
THEOREM OneGoalAtATime == Spec => []OneLiveGoal
<1>1. HandInv => OneLiveGoal
  BY DEF HandInv, SlotInv, OneLiveGoal
<1> QED
  BY HandInvariant, <1>1, PTL

(* A grip the client has been told of is in holding_grasp, unless the client
   is stopping. *)
THEOREM GripsAreKnown == Spec => []GripIsKnown
<1>1. HandInv => GripIsKnown
  BY DEF HandInv, GripInv, GripIsKnown
<1> QED
  BY HandInvariant, <1>1, PTL

(* What IssueIsSafe asks of the step that sends request id. *)
SafeAt(id) ==
  /\ ~stopping /\ ~error /\ ~gripping
  /\ cancel = "none" /\ stopFuture = "none" /\ releaseStop = "none"
  /\ \A later \in (id + 1)..Len(requests) : Disposition(later) = "duplicate"

SafeIssue ==
  \A id \in Ids : server[id] = "none" /\ server'[id] = "sent" => SafeAt(id)

(* Only issuing sends a goal, and what it needs holds then. *)
LEMMA IssueStep == HandInv /\ [Next]_vars => SafeIssue
<1> SUFFICES ASSUME TypeOK, SlotInv, StopInv, OrderInv, GripInv, [Next]_vars,
                    NEW id \in Ids, server[id] = "none", server'[id] = "sent"
             PROVE  SafeAt(id)
  BY DEF HandInv, SafeIssue, SafeAt
<1> USE HandAssumption DEF TypeOK, BookTypes, FutureTypes, FlagTypes, reqVars, goalVars, stopVars, failVars, extVars, histVars,
           clientVars, Go, Skip, Continue, Fail, Raised, Cleared
<1>1. CASE TickIssue
  <2>1. active = 0 /\ ~holding /\ ~stopping /\ desired # 0
    BY <1>1 DEF TickIssue, MayIssue, MustRelease, Queued
  <2>2. id = desired
    BY <1>1 DEF TickIssue
  <2>3. ~error /\ stopFuture = "none"
    BY <2>1 DEF StopInv
  <2>4. cancel = "none"
    BY <2>1 DEF SlotInv
  <2>5. ~gripping /\ releaseStop = "none"
    BY <2>1 DEF GripInv
  <2>6. \A later \in (id + 1)..Len(requests) : Disposition(later) = "duplicate"
    BY <2>1, <2>2 DEF OrderInv
  <2> QED
    BY <2>1, <2>3, <2>4, <2>5, <2>6 DEF SafeAt
<1>2. ASSUME NEW other \in Ids, ServerAnswersGoal(other) PROVE SafeAt(id)
  BY <1>2 DEF ServerAnswersGoal
<1>3. ASSUME NEW other \in Ids, ServerFinishes(other) PROVE SafeAt(id)
  BY <1>3 DEF ServerFinishes, Outcomes
<1>4. CASE UNCHANGED server
  BY <1>4 DEF SafeAt
<1> QED
  BY <1>1, <1>2, <1>3, <1>4
  DEF Next, Scheduler, TickBlocks, External, vars, reqVars, goalVars,
     stopVars, failVars, extVars, histVars, clientVars, Skip, Continue,
     Request, Stop, Tick, TickNoDeadline, TickDeadline, TickNoStop,
     TickStop, TickNoStopResult, TickStopResult, TickNoRelease,
     TickReleaseFailed, TickReleased, TickNoGoal, TickGoalRejected,
     TickGoal, TickNoCancel, TickCancel, TickNoCancelResult,
     TickCancelResult, TickWait, TickNoResult, TickResultRaised, TickResult,
     TickNothing, TickReleaseWait, TickReleaseStop, DeadlinePasses,
     GoalResponseArrives, ResultArrives, CancelResponseArrives,
     StopResponseArrives, ReleaseResponseArrives, Resolves, StopAnswer,
     StopOwed

(* A goal is sent only for the latest distinct request, when nothing is being
   stopped, cancelled or released, and nothing is held. *)
THEOREM IssuesAreSafe == Spec => IssueIsSafe
<1>1. HandInv /\ [Next]_vars => [SafeIssue]_vars
  BY IssueStep
<1> QED
  BY HandInvariant, <1>1, PTL DEF Spec, IssueIsSafe, SafeIssue, SafeAt

(***************************************************************************)
(* When the client reports settled, nothing of it is alive at the gripper  *)
(* and the last word it had from it has been taken in: whatever is alive   *)
(* has the slot, and a cancel needs the handle of what has it.             *)
(***************************************************************************)
THEOREM SettledClientsAreQuiet == Spec => []SettledIsQuiet
<1>1. SlotInv /\ active = 0 => \A id \in Ids : ~Live(id)
  BY HandAssumption DEF SlotInv, Ids
<1>2. SlotInv /\ active = 0 => cancel = "none" /\ result = "none"
  BY Zenon DEF SlotInv
<1>3. HandInv => SettledIsQuiet
  BY <1>1, <1>2 DEF HandInv, SettledIsQuiet, Settled
<1> QED
  BY HandInvariant, <1>3, PTL

(* What a request makes of the dispositions before it. *)
LEMMA RequestDisposes ==
  ASSUME TypeOK, NEW cmd \in Commands, Request(cmd)
  PROVE  /\ Len(requests') = Len(requests) + 1
         /\ \A i \in 1..Len(requests) :
              \/ requests'[i] = requests[i]
              \/ /\ i = desired /\ Superseding /\ desired' # desired
                 /\ requests'[i].disposition = "superseded_before_issue"
         /\ \/ /\ desired' = desired
               /\ requests'[Len(requests) + 1].disposition = "duplicate"
            \/ /\ desired' = Len(requests) + 1
               /\ requests'[Len(requests) + 1].disposition = "queued"
               /\ Superseding => requests'[desired].disposition = "superseded_before_issue"
<1> DEFINE duplicate == desired # 0 /\ requests[desired].cmd = cmd
           old == IF ~duplicate /\ Superseding
                  THEN Dispose(desired, "superseded_before_issue")
                  ELSE requests
           new == [cmd |-> cmd,
                   disposition |-> IF duplicate THEN "duplicate" ELSE "queued"]
<1>1. requests' = Append(old, new)
      /\ desired' = IF duplicate THEN desired ELSE Len(requests) + 1
  BY DEF Request
<1>2. /\ new \in Record
      /\ new.disposition = IF duplicate THEN "duplicate" ELSE "queued"
  BY DEF Record, Dispositions
<1>3. /\ old \in Seq(Record)
      /\ Len(old) = Len(requests)
      /\ \A i \in 1..Len(requests) :
           \/ old[i] = requests[i]
           \/ /\ i = desired /\ Superseding /\ ~duplicate
              /\ old[i].disposition = "superseded_before_issue"
      /\ ~duplicate /\ Superseding =>
           /\ desired \in 1..Len(requests)
           /\ old[desired].disposition = "superseded_before_issue"
  <2>1. CASE ~duplicate /\ Superseding
    <3>1. desired \in 1..Len(requests) /\ requests \in Seq(Record)
      BY <2>1, LenProperties DEF Superseding, Queued, TypeOK, BookTypes
    <3>2. "superseded_before_issue" \in Dispositions
      BY DEF Dispositions
    <3>3. old = Dispose(desired, "superseded_before_issue")
      BY <2>1
    <3>4. old[desired].disposition = "superseded_before_issue"
      BY <3>1, <3>3, ExceptSeq DEF Dispose
    <3> HIDE DEF old
    <3> QED
      BY <2>1, <3>1, <3>2, <3>3, <3>4, DisposeInPlace
  <2>2. CASE ~(~duplicate /\ Superseding)
    <3>1. old = requests
      BY <2>2
    <3> QED
      BY <2>2, <3>1 DEF TypeOK, BookTypes
  <2> QED
    BY <2>1, <2>2
<1>4. Len(requests) \in Nat /\ desired \in 0..Len(requests)
  BY LenProperties DEF TypeOK, BookTypes
<1> HIDE DEF old, new
<1>5. /\ Append(old, new) \in Seq(Record)
      /\ Len(Append(old, new)) = Len(old) + 1
      /\ \A i \in 1..Len(old) : Append(old, new)[i] = old[i]
      /\ Append(old, new)[Len(old) + 1] = new
  BY <1>2, <1>3, AppendKeeps
<1>6. CASE duplicate
  BY <1>1, <1>2, <1>3, <1>4, <1>5, <1>6
<1>7. CASE ~duplicate
  BY <1>1, <1>2, <1>3, <1>4, <1>5, <1>7
<1> QED
  BY <1>6, <1>7

(* The other writes to the book dispose of one request. *)
LEMMA DisposeEffect ==
  ASSUME requests \in Seq(Record), NEW id \in 1..Len(requests),
         NEW d \in Dispositions, requests' = Dispose(id, d)
  PROVE  /\ Len(requests') = Len(requests)
         /\ requests'[id].disposition = d
         /\ \A i \in 1..Len(requests) : i # id => requests'[i] = requests[i]
  BY DisposeInPlace, ExceptSeq DEF Dispose

(* What a terminal result is accounted as. *)
LEMMA ResultDisposes ==
  ASSUME HandInv, BookInv, TickResult
  PROVE  /\ active \in 1..Len(requests) /\ server[active] = result
         /\ Disposition(active) = "issued"
         /\ Len(requests') = Len(requests)
         /\ \A i \in 1..Len(requests) : i # active => requests'[i] = requests[i]
         /\ \/ result = "succeeded" /\ requests'[active].disposition = "completed"
            \/ result = "canceled" /\ requests'[active].disposition = "cancelled"
            \/ requests'[active].disposition = "failed"
<1> DEFINE d == IF result = "succeeded" THEN "completed"
                ELSE IF cancel # "none" /\ result = "canceled" THEN "cancelled"
                ELSE "failed"
<1>1. requests' = Dispose(active, d) /\ result \in Outcomes
  BY DEF TickResult
<1>2. d \in Dispositions
  BY DEF Dispositions
<1>3. requests \in Seq(Record) /\ active \in 0..Len(requests)
  BY DEF HandInv, TypeOK, BookTypes
<1>4. server[active] = result /\ active # 0
  BY <1>1 DEF HandInv, SlotInv, Outcomes
<1>5. active \in 1..Len(requests)
  BY <1>3, <1>4, LenProperties
<1>6. Disposition(active) = "issued"
  BY <1>4 DEF BookInv, BookIsRight
<1> HIDE DEF d
<1>7. /\ Len(requests') = Len(requests)
      /\ requests'[active].disposition = d
      /\ \A i \in 1..Len(requests) : i # active => requests'[i] = requests[i]
  BY <1>1, <1>2, <1>3, <1>5, DisposeEffect
<1> QED
  BY <1>4, <1>5, <1>6, <1>7 DEF d

(* What issuing makes of the book. *)
LEMMA IssueDisposes ==
  ASSUME HandInv, TickIssue
  PROVE  /\ desired \in 1..Len(requests) /\ active' = desired /\ active = 0
         /\ Disposition(desired) = "queued"
         /\ Len(requests') = Len(requests)
         /\ requests'[desired].disposition = "issued"
         /\ \A i \in 1..Len(requests) : i # desired => requests'[i] = requests[i]
<1>1. requests \in Seq(Record) /\ desired \in 0..Len(requests)
  BY DEF HandInv, TypeOK, BookTypes
<1>2. /\ active = 0 /\ desired # 0 /\ Disposition(desired) = "queued"
      /\ active' = desired /\ requests' = Dispose(desired, "issued")
  BY DEF TickIssue, MayIssue, Queued
<1>3. desired \in 1..Len(requests) /\ "issued" \in Dispositions
  BY <1>1, <1>2, LenProperties DEF Dispositions
<1> QED
  BY <1>1, <1>2, <1>3, DisposeEffect

(* Every other step leaves the book alone. *)
LEMMA BookIsKept ==
  [Next]_vars =>
    \/ \E cmd \in Commands : Request(cmd)
    \/ TickResult \/ TickIssue
    \/ UNCHANGED requests
  BY DEF Next, Scheduler, TickBlocks, External, vars, reqVars, goalVars,
     stopVars, failVars, extVars, histVars, clientVars, Skip, Continue,
     Stop, Tick, TickNoDeadline, TickDeadline, TickNoStop,
     TickStop, TickNoStopResult, TickStopResult, TickNoRelease,
     TickReleaseFailed, TickReleased, TickNoGoal, TickGoalRejected,
     TickGoal, TickNoCancel, TickCancel, TickNoCancelResult,
     TickCancelResult, TickWait, TickNoResult, TickResultRaised,
     TickNothing, TickReleaseWait, TickReleaseStop, DeadlinePasses,
     ServerAnswersGoal, ServerFinishes,
     GoalResponseArrives, ResultArrives, CancelResponseArrives,
     StopResponseArrives, ReleaseResponseArrives, StopAnswer

(* What a step that leaves the book alone may change of the rest: the slot is
   freed of a rejected goal, intents are given up, goals that are alive go on. *)
LEMMA WithTheBookKept ==
  HandInv /\ [Next]_vars /\ UNCHANGED requests =>
    \/ \E cmd \in Commands : Request(cmd)
    \/ TickResult \/ TickIssue
    \/ /\ \/ UNCHANGED active
          \/ active # 0 /\ active' = 0 /\ server[active] = "rejected"
       /\ stopping => stopping'
       /\ stopping' \/ UNCHANGED desired
       /\ \A id \in Ids : ~Live(id) => server'[id] = server[id]
<1> DEFINE Kept == /\ \/ UNCHANGED active
                      \/ active # 0 /\ active' = 0 /\ server[active] = "rejected"
                   /\ stopping => stopping'
                   /\ stopping' \/ UNCHANGED desired
                   /\ \A id \in Ids : ~Live(id) => server'[id] = server[id]
<1> SUFFICES ASSUME TypeOK, SlotInv, [Next]_vars, ~TickResult, ~TickIssue,
                    ~\E cmd \in Commands : Request(cmd)
             PROVE  Kept
  BY DEF HandInv
<1> USE DEF reqVars, goalVars, stopVars, failVars, extVars, histVars,
           clientVars, Go, Skip, Continue, Fail, Raised
<1>1. CASE TickGoalRejected
  <2>1. active # 0 /\ server[active] = "rejected"
    BY <1>1 DEF TickGoalRejected, SlotInv
  <2> QED
    BY <1>1, <2>1 DEF TickGoalRejected
<1>2. ASSUME NEW id \in Ids, ServerAnswersGoal(id) \/ ServerFinishes(id) PROVE Kept
  <2>1. Live(id) /\ UNCHANGED <<active, stopping, desired>>
    BY <1>2 DEF ServerAnswersGoal, ServerFinishes, Live
  <2>2. \E st : server' = [server EXCEPT ![id] = st]
    BY <1>2 DEF ServerAnswersGoal, ServerFinishes
  <2>3. \A other \in Ids : other # id => server'[other] = server[other]
    BY <2>2 DEF TypeOK, FutureTypes
  <2> QED
    BY <2>1, <2>3
<1>3. CASE \/ UNCHANGED <<active, stopping, desired, server>>
           \/ UNCHANGED <<active, server>> /\ stopping'
  BY <1>3
<1> QED
  BY <1>1, <1>2, <1>3
  DEF Next, Scheduler, TickBlocks, External, vars, Stop, Tick, TickNoDeadline,
     TickDeadline, TickNoStop, TickStop, TickNoStopResult, TickStopResult,
     TickNoRelease, TickReleaseFailed, TickReleased, TickNoGoal, TickGoal,
     TickNoCancel, TickCancel, TickNoCancelResult, TickCancelResult, TickWait,
     TickNoResult, TickResultRaised, TickNothing, TickReleaseWait,
     TickReleaseStop, DeadlinePasses, GoalResponseArrives, ResultArrives,
     CancelResponseArrives, StopResponseArrives, ReleaseResponseArrives,
     StopAnswer

(* Every step keeps the book right. *)
LEMMA BookInvStep == HandInv /\ BookInv /\ [Next]_vars => BookInv'
<1> SUFFICES ASSUME HandInv, BookInv, [Next]_vars PROVE BookInv'
  OBVIOUS
<1> USE DEF BookInv, BookIsRight, Disposition
<1>a. /\ requests \in Seq(Record) /\ Len(requests) \in Nat
      /\ desired \in 0..Len(requests) /\ active \in 0..Len(requests)
      /\ Len(requests) <= MaxRequests
      /\ server \in [Ids -> {"none", "sent", "rejected", "executing"} \cup Outcomes]
  BY LenProperties DEF HandInv, TypeOK, BookTypes, FutureTypes, OrderInv
<1>1. ASSUME NEW cmd \in Commands, Request(cmd) PROVE BookInv'
  <2>1. /\ Len(requests') = Len(requests) + 1
        /\ \A i \in 1..Len(requests) :
             \/ requests'[i] = requests[i]
             \/ /\ i = desired /\ Superseding /\ desired' # desired
                /\ requests'[i].disposition = "superseded_before_issue"
        /\ \/ /\ desired' = desired
              /\ requests'[Len(requests) + 1].disposition = "duplicate"
           \/ /\ desired' = Len(requests) + 1
              /\ requests'[Len(requests) + 1].disposition = "queued"
              /\ Superseding => requests'[desired].disposition = "superseded_before_issue"
    BY <1>1, RequestDisposes DEF HandInv
  <2>2. UNCHANGED <<active, server, stopping>> /\ ~stopping
    BY <1>1 DEF Request, goalVars, failVars, extVars
  <2>3. active # 0 => requests'[active].disposition = "issued"
    BY <1>a, <2>1 DEF Superseding
  <2>4. ASSUME NEW id \in 1..Len(requests')
        PROVE  /\ requests'[id].disposition = "issued" /\ id # active =>
                    server[id] = "rejected"
               /\ requests'[id].disposition = "completed" => server[id] = "succeeded"
               /\ requests'[id].disposition = "cancelled" => server[id] = "canceled"
    <3>1. id \in 1..Len(requests) \/ id = Len(requests) + 1
      BY <1>a, <2>1, <2>4
    <3> QED
      BY <2>1, <3>1
  <2>5. ASSUME NEW id \in 1..Len(requests'), requests'[id].disposition = "queued"
        PROVE  id = desired'
    <3>1. CASE id = Len(requests) + 1
      BY <2>1, <2>5, <3>1
    <3>2. CASE id \in 1..Len(requests)
      <4>1. requests'[id] = requests[id] /\ id = desired
        BY <2>1, <2>2, <2>5, <3>2
      <4>2. Queued
        BY <3>2, <4>1, <2>5 DEF Queued
      <4>3. desired # active
        BY <4>1, <2>5, <3>2
      <4>4. Superseding
        BY <4>2, <4>3 DEF Superseding
      <4> QED
        BY <2>1, <2>5, <4>1, <4>4
    <3> QED
      BY <1>a, <2>1, <3>1, <3>2
  <2> QED
    BY <2>2, <2>3, <2>4, <2>5
<1>2. CASE TickResult
  <2>1. /\ active \in 1..Len(requests) /\ server[active] = result
        /\ Len(requests') = Len(requests)
        /\ \A i \in 1..Len(requests) : i # active => requests'[i] = requests[i]
        /\ \/ result = "succeeded" /\ requests'[active].disposition = "completed"
           \/ result = "canceled" /\ requests'[active].disposition = "cancelled"
           \/ requests'[active].disposition = "failed"
    BY <1>2, ResultDisposes
  <2>2. /\ active' = 0 /\ UNCHANGED server
        /\ ~stopping' => ~stopping /\ desired' = desired
    BY <1>2 DEF TickResult, Fail, failVars, extVars
  <2> QED
    BY <2>1, <2>2
<1>3. CASE TickIssue
  <2>1. /\ desired \in 1..Len(requests) /\ active' = desired /\ active = 0
        /\ Len(requests') = Len(requests)
        /\ requests'[desired].disposition = "issued"
        /\ Disposition(desired) = "queued"
        /\ \A i \in 1..Len(requests) : i # desired => requests'[i] = requests[i]
    BY <1>3, IssueDisposes
  <2>2. /\ ~stopping
        /\ stopping' \/ desired' = desired
        /\ server' = server \/ server' = [server EXCEPT ![desired] = "sent"]
    BY <1>3 DEF TickIssue, MayIssue, Continue, Raised, Fail, failVars
  <2>3. \A i \in 1..Len(requests) : i \in Ids /\ desired \in Ids
    BY <1>a, <2>1, HandAssumption DEF Ids
  <2>4. \A i \in 1..Len(requests) : i # desired => server'[i] = server[i]
    BY <1>a, <2>2, <2>3
  <2> QED
    BY <2>1, <2>2, <2>4
<1>4. ASSUME UNCHANGED requests, ~TickResult, ~TickIssue,
             ~\E cmd \in Commands : Request(cmd)
      PROVE  BookInv'
  <2>1. /\ \/ UNCHANGED active
           \/ active # 0 /\ active' = 0 /\ server[active] = "rejected"
        /\ stopping => stopping'
        /\ stopping' \/ UNCHANGED desired
        /\ \A id \in Ids : ~Live(id) => server'[id] = server[id]
    BY <1>4, WithTheBookKept
  <2>2. \A id \in 1..Len(requests) : id \in Ids
    BY <1>a, HandAssumption DEF Ids
  <2>3. \A id \in 1..Len(requests) :
          server[id] \in {"rejected", "succeeded", "canceled"} =>
            server'[id] = server[id]
    BY <2>1, <2>2 DEF Live
  <2> QED
    BY <1>4, <2>1, <2>3
<1> QED
  BY <1>1, <1>2, <1>3, <1>4, BookIsKept

(* The book is right from the start. *)
LEMMA BookInvInit == Init => BookInv
<1> SUFFICES ASSUME Init PROVE BookInv
  OBVIOUS
<1>1. Len(requests) = 0 /\ active = 0
  BY EmptySeq DEF Init
<1> QED
  BY <1>1 DEF BookInv, BookIsRight

(***************************************************************************)
(* The book says who has the slot, what is open, and what became of the    *)
(* rest, in every reachable state.                                         *)
(***************************************************************************)
THEOREM BookInvariant == Spec => []BookInv
<1>1. HandInv /\ BookInv /\ [Next]_vars => BookInv'
  BY BookInvStep
<1> QED
  BY HandInvariant, BookInvInit, <1>1, PTL DEF Spec

(***************************************************************************)
(* The request that holds the slot is "issued", no other is unless the     *)
(* gripper rejected it, and only the desired one is "queued" before a      *)
(* shutdown.                                                               *)
(***************************************************************************)
THEOREM TheBookIsRight == Spec => []BookIsRight
<1>1. BookInv => BookIsRight
  BY DEF BookInv
<1> QED
  BY BookInvariant, <1>1, PTL

\* What OutcomeIsFinal asks of a step.
FinalStep ==
  \A id \in 1..Len(requests) :
    /\ Disposition(id) \notin {"queued", "issued"} => requests'[id] = requests[id]
    /\ requests'[id].disposition = "completed" => server[id] = "succeeded"
    /\ requests'[id].disposition = "cancelled" => server[id] = "canceled"

(* Only what is queued or issued is disposed of, and as the gripper said. *)
LEMMA OutcomeStep == HandInv /\ BookInv /\ [Next]_vars => FinalStep
<1> SUFFICES ASSUME HandInv, BookInv, [Next]_vars, NEW id \in 1..Len(requests)
             PROVE  /\ Disposition(id) \notin {"queued", "issued"} =>
                         requests'[id] = requests[id]
                    /\ requests'[id].disposition = "completed" => server[id] = "succeeded"
                    /\ requests'[id].disposition = "cancelled" => server[id] = "canceled"
  BY DEF FinalStep
<1>a. /\ requests[id].disposition = "completed" => server[id] = "succeeded"
      /\ requests[id].disposition = "cancelled" => server[id] = "canceled"
  BY DEF BookInv, Disposition
<1>1. ASSUME NEW cmd \in Commands, Request(cmd)
      PROVE  \/ requests'[id] = requests[id]
             \/ /\ Disposition(id) = "queued"
                /\ requests'[id].disposition = "superseded_before_issue"
  <2>1. \/ requests'[id] = requests[id]
        \/ /\ id = desired /\ Superseding
           /\ requests'[id].disposition = "superseded_before_issue"
    BY <1>1, RequestDisposes DEF HandInv
  <2> QED
    BY <2>1 DEF Superseding, Queued
<1>2. CASE TickResult
  <2>1. /\ server[active] = result
        /\ Disposition(active) = "issued"
        /\ id # active => requests'[id] = requests[id]
        /\ \/ result = "succeeded" /\ requests'[active].disposition = "completed"
           \/ result = "canceled" /\ requests'[active].disposition = "cancelled"
           \/ requests'[active].disposition = "failed"
    BY <1>2, ResultDisposes
  <2>2. CASE id = active
    BY <2>1, <2>2
  <2>3. CASE id # active
    BY <1>a, <2>1, <2>3
  <2> QED
    BY <2>2, <2>3
<1>3. CASE TickIssue
  <2>1. /\ Disposition(desired) = "queued"
        /\ requests'[desired].disposition = "issued"
        /\ id # desired => requests'[id] = requests[id]
    BY <1>3, IssueDisposes
  <2>2. CASE id = desired
    BY <2>1, <2>2
  <2>3. CASE id # desired
    BY <1>a, <2>1, <2>3
  <2> QED
    BY <2>2, <2>3
<1>4. CASE UNCHANGED requests
  BY <1>a, <1>4
<1> QED
  BY <1>a, <1>1, <1>2, <1>3, <1>4, BookIsKept

(***************************************************************************)
(* The outcome of a request is final, and says what the gripper did.       *)
(***************************************************************************)
THEOREM OutcomesAreFinal == Spec => OutcomeIsFinal
<1>1. HandInv /\ BookInv /\ [Next]_vars => [FinalStep]_vars
  BY OutcomeStep
<1> QED
  BY HandInvariant, BookInvariant, <1>1, PTL DEF Spec, OutcomeIsFinal, FinalStep

-----------------------------------------------------------------------------
(* The promise of GripperClient. *)

(* What the rest of the steps can do to what the promise is about: give up. *)
LEMMA GivesUpAtMost ==
  [Next]_vars =>
    \/ \E cmd \in Commands : Request(cmd)
    \/ TickIssue
    \/ \E id \in Ids : ServerAnswersGoal(id) \/ ServerFinishes(id)
    \/ /\ UNCHANGED server
       /\ UNCHANGED requests \/ TickResult
       /\ \/ UNCHANGED <<desired, stopping>>
          \/ desired' = 0 /\ stopping' = TRUE
<1> USE DEF reqVars, goalVars, stopVars, failVars, extVars, histVars,
           clientVars, Go, Skip, Continue, Fail, Raised
<1>1. CASE TickResult
  BY <1>1 DEF TickResult
<1> QED
  BY <1>1
  DEF Next, Scheduler, TickBlocks, External, vars, Stop, Tick, TickNoDeadline,
     TickDeadline, TickNoStop, TickStop, TickNoStopResult, TickStopResult,
     TickNoRelease, TickReleaseFailed, TickReleased, TickNoGoal, TickGoalRejected,
     TickGoal,
     TickNoCancel, TickCancel, TickNoCancelResult, TickCancelResult, TickWait,
     TickNoResult, TickResultRaised, TickNothing, TickReleaseWait,
     TickReleaseStop, DeadlinePasses, GoalResponseArrives, ResultArrives,
     CancelResponseArrives, StopResponseArrives, ReleaseResponseArrives,
     StopAnswer

(* Every step keeps the given requests recorded, taken from the queue, and no
   later than the desired one. *)
LEMMA GivenInvStep == HandInv /\ BookInv /\ GivenInv /\ [Next]_vars => GivenInv'
<1> SUFFICES ASSUME HandInv, BookInv, GivenInv, [Next]_vars,
                    NEW id \in Ids, server'[id] # "none"
             PROVE  /\ id <= Len(requests')
                    /\ requests'[id].disposition # "queued"
                    /\ stopping' \/ id <= desired'
  BY DEF GivenInv, Disposition
<1> USE DEF Disposition
<1>a. /\ Len(requests) \in Nat /\ desired \in 0..Len(requests)
      /\ Ids = 1..MaxRequests /\ MaxRequests \in Nat
      /\ server \in [Ids -> {"none", "sent", "rejected", "executing"} \cup Outcomes]
      /\ stopping => desired = 0
      /\ stopping \in BOOLEAN
  BY LenProperties, HandAssumption
     DEF HandInv, TypeOK, BookTypes, FutureTypes, FlagTypes, StopInv, Ids
<1>b. ASSUME server[id] # "none"
      PROVE  /\ id \in 1..Len(requests)
             /\ requests[id].disposition # "queued"
             /\ stopping \/ id <= desired
  BY <1>a, <1>b DEF GivenInv
<1>1. ASSUME NEW cmd \in Commands, Request(cmd)
      PROVE  /\ id <= Len(requests')
             /\ requests'[id].disposition # "queued"
             /\ stopping' \/ id <= desired'
  <2>1. UNCHANGED server /\ ~stopping
    BY <1>1 DEF Request, extVars
  <2>2. /\ Len(requests') = Len(requests) + 1
        /\ desired' = desired \/ desired' = Len(requests) + 1
        /\ \/ requests'[id] = requests[id]
           \/ requests'[id].disposition = "superseded_before_issue"
    BY <1>1, <1>b, <2>1, RequestDisposes DEF HandInv
  <2> QED
    BY <1>a, <1>b, <2>1, <2>2
<1>2. CASE TickIssue
  <2>1. /\ desired \in 1..Len(requests)
        /\ Len(requests') = Len(requests)
        /\ requests'[desired].disposition = "issued"
        /\ \A i \in 1..Len(requests) : i # desired => requests'[i] = requests[i]
    BY <1>2, IssueDisposes
  <2>2. /\ stopping' \/ desired' = desired
        /\ server' = server \/ server' = [server EXCEPT ![desired] = "sent"]
        /\ ~stopping
    BY <1>2 DEF TickIssue, MayIssue, Continue, Raised, Fail, failVars
  <2>3. id = desired \/ server[id] # "none"
    BY <1>a, <2>2
  <2> QED
    BY <1>a, <1>b, <2>1, <2>2, <2>3
<1>3. ASSUME NEW other \in Ids, ServerAnswersGoal(other) \/ ServerFinishes(other)
      PROVE  /\ id <= Len(requests')
             /\ requests'[id].disposition # "queued"
             /\ stopping' \/ id <= desired'
  <2>1. UNCHANGED <<requests, desired, stopping>> /\ server[other] # "none"
    BY <1>3 DEF ServerAnswersGoal, ServerFinishes, reqVars, failVars
  <2>2. \E st : server' = [server EXCEPT ![other] = st]
    BY <1>3 DEF ServerAnswersGoal, ServerFinishes
  <2>3. server[id] # "none"
    BY <1>a, <2>1, <2>2
  <2> QED
    BY <1>a, <1>b, <2>1, <2>3
<1>4. CASE /\ UNCHANGED server
           /\ UNCHANGED requests \/ TickResult
           /\ \/ UNCHANGED <<desired, stopping>>
              \/ desired' = 0 /\ stopping' = TRUE
  <2>1. CASE UNCHANGED requests
    BY <1>a, <1>b, <1>4, <2>1
  <2>2. CASE TickResult
    <3>1. /\ Len(requests') = Len(requests)
          /\ requests'[id] = requests[id] \/ requests'[id].disposition # "queued"
      BY <1>b, <1>4, <2>2, ResultDisposes
    <3> QED
      BY <1>a, <1>b, <1>4, <3>1
  <2> QED
    BY <1>4, <2>1, <2>2
<1> QED
  BY <1>1, <1>2, <1>3, <1>4, GivesUpAtMost

(* Nothing is given at the start. *)
LEMMA GivenInvInit == Init => GivenInv
  BY DEF Init, GivenInv

(***************************************************************************)
(* Whatever the gripper has been given a goal for is on record, no longer  *)
(* queued, and no later than what is desired.                              *)
(***************************************************************************)
THEOREM GivenInvariant == Spec => []GivenInv
<1>1. HandInv /\ BookInv /\ GivenInv /\ [Next]_vars => GivenInv'
  BY GivenInvStep
<1> QED
  BY HandInvariant, BookInvariant, GivenInvInit, <1>1, PTL DEF Spec

(* Giving up is the stop of the promise, or nothing to it. *)
LEMMA GivingUpIsPromised ==
  ASSUME HandInv, UNCHANGED server, Len(requests') = Len(requests),
         UNCHANGED <<desired, stopping>> \/ (desired' = 0 /\ stopping' = TRUE)
  PROVE  [Client!Next]_(Client!vars)
<1>1. stopping \in BOOLEAN /\ (stopping => desired = 0)
  BY DEF HandInv, TypeOK, FlagTypes, StopInv
<1>2. CASE UNCHANGED <<desired, stopping>>
  BY <1>2 DEF Client!vars, Live
<1>3. CASE desired' = 0 /\ stopping' = TRUE /\ stopping
  BY <1>1, <1>3 DEF Client!vars, Live
<1>4. CASE desired' = 0 /\ stopping' = TRUE /\ ~stopping
  BY <1>4 DEF Client!Next, Client!Stop, Live
<1> QED
  BY <1>2, <1>3, <1>4

(* A goal that ends is the one that was alive. *)
LEMMA EndIsPromised ==
  ASSUME HandInv, NEW id \in Ids, NEW st, Live(id),
         server' = [server EXCEPT ![id] = st],
         UNCHANGED <<requests, desired, stopping>>,
         st \in {"executing", "rejected"} \cup Outcomes
  PROVE  [Client!Next]_(Client!vars)
<1> DEFINE Given == {i \in Ids : server[i] # "none"}
           Alive == {i \in Ids : Live(i)}
<1>1. /\ server \in [Ids -> {"none", "sent", "rejected", "executing"} \cup Outcomes]
      /\ \A i \in Ids : Live(i) => i = id
  BY DEF HandInv, TypeOK, FutureTypes, SlotInv
<1>2. Given' = Given
  BY <1>1 DEF Live, Outcomes
<1>3. CASE st = "executing"
  <2>1. Alive' = Alive
    BY <1>1, <1>3 DEF Live
  <2> QED
    BY <1>2, <2>1 DEF Client!vars
<1>4. CASE st # "executing"
  <2>1. Alive # {} /\ Alive' = {}
    BY <1>1, <1>4 DEF Live, Outcomes
  <2> QED
    BY <1>2, <2>1 DEF Client!Next, Client!End
<1> QED
  BY <1>3, <1>4

(* A goal sent is given as promised. *)
LEMMA IssueIsPromised ==
  ASSUME HandInv, BookInv, GivenInv, TickIssue
  PROVE  [Client!Next]_(Client!vars)
<1> DEFINE Given == {i \in Ids : server[i] # "none"}
           Alive == {i \in Ids : Live(i)}
<1>1. /\ server \in [Ids -> {"none", "sent", "rejected", "executing"} \cup Outcomes]
      /\ Len(requests) \in Nat /\ Len(requests) <= MaxRequests
      /\ Ids = 1..MaxRequests /\ MaxRequests \in Nat
      /\ \A i \in Ids : Live(i) => i = active
  BY LenProperties, HandAssumption
     DEF HandInv, TypeOK, BookTypes, FutureTypes, SlotInv, OrderInv, Ids
<1>2. /\ desired \in 1..Len(requests) /\ active = 0
      /\ Disposition(desired) = "queued"
      /\ Len(requests') = Len(requests)
  BY IssueDisposes
<1>3. CASE desired' = 0 /\ stopping' = TRUE /\ UNCHANGED server
  BY <1>2, <1>3, GivingUpIsPromised
<1>4. CASE /\ server' = [server EXCEPT ![desired] = "sent"]
           /\ UNCHANGED <<desired, stopping>>
  <2>1. desired \in Ids /\ desired # 0 /\ Alive = {}
    BY <1>1, <1>2
  <2>2. Given' = Given \cup {desired}
    BY <1>1, <1>4, <2>1
  <2>3. Alive' = {desired}
    BY <1>1, <1>4, <2>1 DEF Live
  <2>4. ~stopping
    BY DEF TickIssue, MayIssue
  <2>5. \A i \in Given : i < desired
    BY <1>1, <1>2, <2>4 DEF GivenInv
  <2> QED
    BY <1>2, <1>4, <2>1, <2>2, <2>3, <2>4, <2>5 DEF Client!Next, Client!Give
<1> QED
  BY <1>3, <1>4 DEF TickIssue, Continue, Raised, Fail, failVars

(* The client starts where its promise does. *)
LEMMA ClientInit == Init => Client!Init
  BY EmptySeq DEF Init, Client!Init, Live

(* Every step of the client is one of its promise, or nothing to it. *)
LEMMA ClientStep ==
  HandInv /\ BookInv /\ GivenInv /\ [Next]_vars => [Client!Next]_(Client!vars)
<1> SUFFICES ASSUME HandInv, BookInv, GivenInv, [Next]_vars
             PROVE  [Client!Next]_(Client!vars)
  OBVIOUS
<1>1. ASSUME NEW cmd \in Commands, Request(cmd) PROVE [Client!Next]_(Client!vars)
  <2>1. UNCHANGED <<server, stopping>> /\ ~stopping
    BY <1>1 DEF Request, extVars, failVars
  <2>2. Len(requests') = Len(requests) + 1 /\ desired' \in {desired, Len(requests')}
    BY <1>1, RequestDisposes DEF HandInv
  <2> QED
    BY <2>1, <2>2 DEF Client!Next, Client!Ask, Live
<1>2. CASE TickIssue
  BY <1>2, IssueIsPromised
<1>3. ASSUME NEW id \in Ids, ServerAnswersGoal(id) \/ ServerFinishes(id)
      PROVE  [Client!Next]_(Client!vars)
  <2>1. UNCHANGED <<requests, desired, stopping>> /\ Live(id)
    BY <1>3 DEF ServerAnswersGoal, ServerFinishes, reqVars, failVars, Live
  <2>2. PICK st \in {"executing", "rejected"} \cup Outcomes :
          server' = [server EXCEPT ![id] = st]
    BY <1>3 DEF ServerAnswersGoal, ServerFinishes
  <2> QED
    BY <2>1, <2>2, EndIsPromised
<1>4. CASE /\ UNCHANGED server
           /\ UNCHANGED requests \/ TickResult
           /\ \/ UNCHANGED <<desired, stopping>>
              \/ desired' = 0 /\ stopping' = TRUE
  <2>1. Len(requests') = Len(requests)
    BY <1>4, ResultDisposes
  <2> QED
    BY <1>4, <2>1, GivingUpIsPromised
<1> QED
  BY <1>1, <1>2, <1>3, <1>4, GivesUpAtMost

(***************************************************************************)
(* The client implements GripperClient: for any commands, any number of    *)
(* requests, and whatever the transport raises, the gripper is given goals *)
(* in the order of the requests, each once, the latest only, never two     *)
(* alive, and none once the client is stopping.                            *)
(***************************************************************************)
THEOREM ImplementsClient == Spec => ClientSpec
  BY HandInvariant, BookInvariant, GivenInvariant, ClientInit, ClientStep, PTL
     DEF Spec, ClientSpec, Client!Spec

-----------------------------------------------------------------------------
(* The stop after an exception. *)

(* Every step keeps count of the tick that raised and of the one after it. *)
LEMMA OwedInvStep == HandInv /\ OwedInv /\ [Next]_vars => OwedInv'
<1> SUFFICES ASSUME BookTypes, FutureTypes, FlagTypes, OwedInv, [Next]_vars
             PROVE  OwedInv'
  BY DEF HandInv, TypeOK
<1> USE DEF BookTypes, FutureTypes, FlagTypes, Blocks, OwedInv, reqVars, goalVars, stopVars,
           failVars, extVars, histVars, clientVars, Go, Skip, Continue, Fail, Raised
<1>1. CASE Scheduler
  BY <1>1 DEF Scheduler, Request, Stop
<1>2. CASE Tick
  BY <1>2 DEF Tick
<1>3. CASE TickStop \/ TickNoStop
  BY <1>3 DEF TickStop, TickNoStop, StopOwed
<1>4. CASE TickNoDeadline \/ TickDeadline \/ TickNoStopResult \/ TickStopResult
  BY <1>4 DEF TickNoDeadline, TickDeadline, TickNoStopResult, TickStopResult
<1>5. CASE TickNoRelease \/ TickReleaseFailed \/ TickReleased
  BY <1>5 DEF TickNoRelease, TickReleaseFailed, TickReleased
<1>6. CASE TickNoGoal \/ TickGoalRejected \/ TickGoal
  BY <1>6 DEF TickNoGoal, TickGoalRejected, TickGoal
<1>7. CASE TickNoCancel \/ TickCancel \/ TickNoCancelResult \/ TickCancelResult
  BY <1>7 DEF TickNoCancel, TickCancel, TickNoCancelResult, TickCancelResult
<1>8. CASE TickWait \/ TickNoResult \/ TickResultRaised \/ TickResult
  BY <1>8 DEF TickWait, TickNoResult, TickResultRaised, TickResult
<1>9. CASE TickNothing \/ TickReleaseWait \/ TickReleaseStop \/ TickIssue
  BY <1>9 DEF TickNothing, TickReleaseWait, TickReleaseStop, TickIssue, MayIssue
<1>10. CASE UNCHANGED <<owed, stopping, pc, stopSent>>
  BY <1>10
<1> QED
  BY <1>1, <1>2, <1>3, <1>4, <1>5, <1>6, <1>7, <1>8, <1>9, <1>10
  DEF Next, TickBlocks, External, vars, DeadlinePasses, ServerAnswersGoal,
     ServerFinishes, GoalResponseArrives, ResultArrives,
     CancelResponseArrives, StopResponseArrives, ReleaseResponseArrives,
     StopAnswer

(***************************************************************************)
(* What is left of "next tick attempts the stop service": after the tick   *)
(* that follows one that raised, a stop has been tried, if not heard.      *)
(***************************************************************************)
THEOREM StopsAreTried == Spec => []StopIsTried
<1>1. Init => OwedInv
  BY DEF Init, OwedInv
<1>2. HandInv /\ OwedInv /\ [Next]_vars => OwedInv'
  BY OwedInvStep
<1>3. OwedInv => StopIsTried
  BY DEF OwedInv, StopIsTried
<1> QED
  BY HandInvariant, <1>1, <1>2, <1>3, PTL DEF Spec

-----------------------------------------------------------------------------
(* The shutdown. *)

\* What ShutdownWindsDown asks of a step.
WindsDown ==
  \/ Debt' < Debt
  \/ UNCHANGED <<reqVars, goalVars, stopVars, holding, deadline, extVars>>

(* What the slot owes is a number, whatever has it. *)
LEMMA SlotDebtNat == SlotDebt \in Nat
<1>1. ServerDebt \in 0..2 /\ CancelDebt \in 0..5
  BY DEF ServerDebt, CancelDebt
<1>2. AnswerDebt \in 1..5
  BY DEF AnswerDebt, PendingDebt
<1> QED
  BY <1>1, <1>2 DEF SlotDebt

(* A sum falls with one of its terms, if no other grows. *)
LEMMA SumFalls ==
  ASSUME NEW a \in Nat, NEW b \in Nat, NEW c \in Nat,
         NEW x \in Nat, NEW y \in Nat, NEW z \in Nat,
         x <= a, y <= b, z <= c, x < a \/ y < b \/ z < c
  PROVE  x + y + z < a + b + c /\ x + y + z \in Nat /\ a + b + c \in Nat
  OBVIOUS

(* So does what is left, *)
LEMMA DebtFalls ==
  ASSUME SlotDebt \in Nat, StopDebt \in Nat, DeadlineDebt \in Nat,
         SlotDebt' \in Nat, StopDebt' \in Nat, DeadlineDebt' \in Nat,
         SlotDebt' <= SlotDebt, StopDebt' <= StopDebt, DeadlineDebt' <= DeadlineDebt,
         SlotDebt' < SlotDebt \/ StopDebt' < StopDebt
  PROVE  Debt' < Debt
<1>1. SlotDebt' + StopDebt' + DeadlineDebt' < SlotDebt + StopDebt + DeadlineDebt
  BY SumFalls
<1> QED
  BY <1>1, Zenon DEF Debt

(* and what the slot owes. *)
LEMMA SlotDebtFalls ==
  ASSUME ServerDebt \in Nat, CancelDebt \in Nat, AnswerDebt \in Nat,
         ServerDebt' \in Nat, CancelDebt' \in Nat, AnswerDebt' \in Nat,
         ServerDebt' <= ServerDebt, CancelDebt' <= CancelDebt, AnswerDebt' <= AnswerDebt,
         ServerDebt' < ServerDebt \/ CancelDebt' < CancelDebt,
         active # 0, active' # 0
  PROVE  SlotDebt' < SlotDebt /\ SlotDebt \in Nat /\ SlotDebt' \in Nat
<1>1. /\ ServerDebt' + CancelDebt' + AnswerDebt' < ServerDebt + CancelDebt + AnswerDebt
      /\ ServerDebt' + CancelDebt' + AnswerDebt' \in Nat
      /\ ServerDebt + CancelDebt + AnswerDebt \in Nat
  BY SumFalls
<1> QED
  BY <1>1, Zenon DEF SlotDebt

(* Every step of a shutdown takes off the debt, or changes nothing in it. *)
LEMMA WindingStep == HandInv /\ [Next]_vars /\ stopping => WindsDown
<1> SUFFICES ASSUME TypeOK, SlotInv, StopInv, [Next]_vars, stopping
             PROVE  WindsDown
  BY DEF HandInv
<1> USE DEF TypeOK, BookTypes, FutureTypes, FlagTypes, StopInv, SlotInv, Done,
           reqVars, goalVars, stopVars, failVars, extVars, histVars,
           clientVars, Go, Skip, Continue, Fail, Raised, Cleared, WindsDown
<1> USE DEF Debt, SlotDebt, ServerDebt, CancelDebt, AnswerDebt, StopDebt,
           DeadlineDebt, PendingDebt
<1>1. CASE Scheduler
  BY <1>1 DEF Scheduler, Request, Stop
<1>2. CASE TickDeadline
  BY <1>2 DEF TickDeadline
<1>3. CASE TickStop
  <2>1. /\ ~stopSent /\ stopSent'
        /\ stopFuture' \in {stopFuture, "pending"}
        /\ UNCHANGED <<goalVars, releaseStop, deadline, extVars>>
    BY <1>3, Zenon DEF TickStop, StopOwed
  <2> HIDE DEF Debt, SlotDebt
  <2>2. SlotDebt' = SlotDebt /\ DeadlineDebt' = DeadlineDebt
    BY <2>1, Zenon DEF SlotDebt
  <2>3. StopDebt \in Nat /\ StopDebt' \in Nat /\ StopDebt' < StopDebt
    BY <2>1
  <2>4. SlotDebt \in Nat /\ DeadlineDebt \in Nat
    BY SlotDebtNat
  <2> HIDE DEF StopDebt, DeadlineDebt
  <2> QED
    BY <2>2, <2>3, <2>4, DebtFalls
<1>4. CASE TickStopResult
  <2>1. /\ stopFuture \notin {"none", "pending"}
        /\ stopFuture' \in {stopFuture, "none"}
        /\ UNCHANGED <<requests, goalVars, releaseStop, stopSent, holding, deadline, extVars>>
    BY <1>4, Zenon DEF TickStopResult
  <2>2. desired' = desired
    BY <1>4, Zenon DEF TickStopResult
  <2>3. CASE stopFuture' = stopFuture
    BY <2>1, <2>2, <2>3
  <2>4. CASE stopFuture' = "none"
    BY <2>1, <2>4
  <2> QED
    BY <2>1, <2>3, <2>4
<1>5. CASE TickReleaseFailed
  BY <1>5 DEF TickReleaseFailed
<1>6. CASE TickReleased
  BY <1>6 DEF TickReleased
<1>7. CASE TickGoalRejected
  BY <1>7 DEF TickGoalRejected
<1>8. CASE TickGoal
  BY <1>8 DEF TickGoal
<1>9. CASE TickCancel
  <2>1. active # 0 /\ cancel = "none"
    BY <1>9 DEF TickCancel, MayCancel
  <2>2. UNCHANGED <<requests, active, goal, handle, result, cancelLogged, stopVars, holding, extVars, desired>>
    BY <1>9 DEF TickCancel
  <2>3. CASE UNCHANGED <<cancel, deadline>>
    BY <2>2, <2>3
  <2>4. CASE cancel' = "pending" /\ deadline' = "armed"
    BY <2>1, <2>2, <2>4
  <2> QED
    BY <1>9, <2>3, <2>4 DEF TickCancel
<1>10. CASE TickCancelResult
  <2>1. active # 0 /\ cancel \in {"answered", "raised"} /\ ~cancelLogged
    BY <1>10 DEF TickCancelResult
  <2>2. UNCHANGED <<requests, active, goal, handle, result, cancel, deadline, stopVars, holding, extVars, desired>>
    BY <1>10 DEF TickCancelResult
  <2>3. CASE UNCHANGED cancelLogged
    BY <2>2, <2>3
  <2>4. CASE cancelLogged' = TRUE
    <3>1. CancelDebt = 1 /\ CancelDebt' = 0
      BY <2>1, <2>2, <2>4, Zenon DEF CancelDebt
    <3>2. /\ ServerDebt' = ServerDebt /\ AnswerDebt' = AnswerDebt
          /\ StopDebt' = StopDebt /\ DeadlineDebt' = DeadlineDebt
      BY <2>2, Zenon
    <3>3. /\ ServerDebt \in Nat /\ AnswerDebt \in Nat
          /\ StopDebt \in Nat /\ DeadlineDebt \in Nat
      OBVIOUS
    <3>4. active # 0 /\ active' # 0
      BY <2>1, <2>2
    <3> HIDE DEF ServerDebt, CancelDebt, AnswerDebt, StopDebt, DeadlineDebt
    <3>5. /\ SlotDebt = ServerDebt + CancelDebt + AnswerDebt
          /\ SlotDebt' = ServerDebt' + CancelDebt' + AnswerDebt'
      BY <3>4, Zenon DEF SlotDebt
    <3> HIDE DEF SlotDebt
    <3> QED
      BY <3>1, <3>2, <3>3, <3>5
  <2> QED
    BY <1>10, <2>3, <2>4 DEF TickCancelResult
<1>11. CASE TickResult
  BY <1>11 DEF TickResult, Outcomes
<1>12. CASE TickReleaseStop \/ TickIssue
  BY <1>12 DEF TickReleaseStop, TickIssue, MayIssue
<1>13. CASE DeadlinePasses
  BY <1>13 DEF DeadlinePasses
<1>14. ASSUME NEW id \in Ids, ServerAnswersGoal(id) \/ ServerFinishes(id)
       PROVE  WindsDown
  <2>1. /\ active # 0 /\ active \in Ids /\ server[active] \in {"sent", "executing"}
        /\ server[active] = "sent" =>
             server'[active] \in {"executing", "rejected"}
        /\ server[active] = "executing" => server'[active] \in Outcomes
    <3>1. id = active /\ active # 0 /\ server[id] \in {"sent", "executing"}
      <4>1. server[id] \in {"sent", "executing"}
        BY <1>14, Zenon DEF ServerAnswersGoal, ServerFinishes
      <4>2. id = active
        BY <4>1, Zenon DEF Live
      <4> QED
        BY <4>1, <4>2, HandAssumption DEF Ids
    <3>2. server[id] = "sent" =>
            \E st \in {"executing", "rejected"} : server' = [server EXCEPT ![id] = st]
      BY <1>14 DEF ServerAnswersGoal, ServerFinishes
    <3>3. server[id] = "executing" =>
            \E st \in Outcomes : server' = [server EXCEPT ![id] = st]
      BY <1>14 DEF ServerAnswersGoal, ServerFinishes
    <3>4. \A st : server' = [server EXCEPT ![id] = st] => server'[id] = st
      OBVIOUS
    <3> QED
      BY <3>1, <3>2, <3>3, <3>4, Zenon
  <2>2. UNCHANGED <<active, goal, result, cancel, cancelLogged, stopSent,
                    stopFuture, releaseStop, deadline>>
    BY <1>14, Zenon DEF ServerAnswersGoal, ServerFinishes
  <2>3. ServerDebt' < ServerDebt
    BY <2>1, <2>2 DEF Outcomes
  <2>4. CancelDebt' = CancelDebt /\ AnswerDebt' = AnswerDebt /\ StopDebt' = StopDebt
        /\ DeadlineDebt' = DeadlineDebt
    BY <2>2, Zenon
  <2>5. /\ ServerDebt \in Nat /\ ServerDebt' \in Nat /\ CancelDebt \in Nat
        /\ AnswerDebt \in Nat /\ StopDebt \in Nat /\ DeadlineDebt \in Nat
    OBVIOUS
  <2>6. active # 0 /\ active' # 0
    BY <2>1, <2>2
  <2> HIDE DEF ServerDebt, CancelDebt, AnswerDebt, SlotDebt, StopDebt, DeadlineDebt
  <2>7. SlotDebt' < SlotDebt /\ SlotDebt \in Nat /\ SlotDebt' \in Nat
    BY <2>3, <2>4, <2>5, <2>6, SlotDebtFalls
  <2> HIDE DEF Debt
  <2> QED
    BY <2>4, <2>5, <2>7, DebtFalls
<1>15. CASE GoalResponseArrives
  BY <1>15 DEF GoalResponseArrives, Resolves
<1>16. CASE ResultArrives
  BY <1>16 DEF ResultArrives, Resolves, Outcomes
<1>17. CASE CancelResponseArrives
  BY <1>17 DEF CancelResponseArrives, Resolves
<1>18. CASE StopResponseArrives \/ ReleaseResponseArrives
  <2>1. UNCHANGED <<goalVars, stopSent, deadline, server>>
    BY <1>18, Zenon DEF StopResponseArrives, ReleaseResponseArrives, StopAnswer
  <2>2. \/ /\ stopFuture = "pending" /\ stopFuture' \in {"ok", "refused", "raised"}
           /\ UNCHANGED releaseStop
        \/ /\ releaseStop = "pending" /\ releaseStop' \in {"ok", "refused", "raised"}
           /\ UNCHANGED stopFuture
    BY <1>18 DEF StopResponseArrives, ReleaseResponseArrives, StopAnswer
  <2>3. StopDebt' < StopDebt /\ StopDebt \in Nat /\ StopDebt' \in Nat
    BY <2>1, <2>2
  <2> HIDE DEF Debt, SlotDebt
  <2>4. SlotDebt' = SlotDebt /\ DeadlineDebt' = DeadlineDebt
    BY <2>1, Zenon DEF SlotDebt
  <2>5. SlotDebt \in Nat /\ DeadlineDebt \in Nat
    BY SlotDebtNat
  <2> HIDE DEF StopDebt, DeadlineDebt
  <2> QED
    BY <2>3, <2>4, <2>5, DebtFalls
<1>19. CASE UNCHANGED <<reqVars, goalVars, stopVars, holding, deadline, extVars>>
  BY <1>19
<1> QED
  BY <1>1, <1>2, <1>3, <1>4, <1>5, <1>6, <1>7, <1>8, <1>9, <1>10, <1>11, <1>12,
     <1>13, <1>14, <1>15, <1>16, <1>17, <1>18, <1>19
  DEF Next, TickBlocks, External, vars, Tick, TickNoDeadline, TickNoStop,
     TickNoStopResult, TickNoRelease, TickNoGoal, TickNoCancel,
     TickNoCancelResult, TickWait, TickNoResult, TickResultRaised,
     TickNothing, TickReleaseWait

(***************************************************************************)
(* A shutdown winds down: every step of it takes something off what is     *)
(* left before its end, or changes nothing it consists of, whatever raises *)
(* and whatever the gripper answers.                                       *)
(***************************************************************************)
THEOREM ShutdownsWindDown == Spec => ShutdownWindsDown
<1>1. HandInv /\ [Next]_vars => [stopping => WindsDown]_vars
  BY WindingStep
<1> QED
  BY HandInvariant, <1>1, PTL DEF Spec, ShutdownWindsDown, WindsDown

(***************************************************************************)
(* A shutdown that has nothing left before it is settled: the debt that    *)
(* ShutdownsWindDown counts down is all that can keep it open.             *)
(***************************************************************************)
THEOREM DebtFreeIsSettled == Spec => []NoDebtIsSettled
<1>1. HandInv => NoDebtIsSettled
  <2> SUFFICES ASSUME HandInv, stopping, Debt = 0 PROVE Settled
    BY DEF NoDebtIsSettled
  <2> USE DEF HandInv, TypeOK, BookTypes, FutureTypes, FlagTypes
  <2>1. SlotDebt = 0 /\ StopDebt = 0
    BY SlotDebtNat DEF Debt, StopDebt, DeadlineDebt, PendingDebt
  <2>2. active = 0
    BY <2>1 DEF SlotDebt, ServerDebt, CancelDebt, AnswerDebt, PendingDebt
  <2>3. stopSent /\ stopFuture = "none" /\ releaseStop = "none"
    BY <2>1 DEF StopDebt, PendingDebt
  <2>4. goal = "none" /\ desired = 0
    BY <2>2 DEF SlotInv, StopInv
  <2> QED
    BY <2>2, <2>3, <2>4 DEF Settled, Queued
<1> QED
  BY HandInvariant, <1>1, PTL
=============================================================================
