---------------------- MODULE JointTargetServerProofs ----------------------
(***************************************************************************)
(* The gate and the evidence of the joint-target server are sound for any  *)
(* number of goals, all tolerances, clients and behaviours of MoveIt.      *)
(***************************************************************************)
EXTENDS JointTargetServer, TLAPS

\* A step on behalf of one goal.
GoalStep(g) ==
  \/ GoalReject(g) \/ GoalAccept(g)
  \/ Callback(g)
  \/ MoveitAnswers(g) \/ MoveitEnds(g)

\* A step of nobody's: only the context or the samples change.
OtherStep == UNCHANGED <<busy, pc, ev, reply, result, moveit>>

(* Every step is one or the other. *)
LEMMA StepsAre ==
  [Next]_vars => OtherStep \/ \E g \in Goals : GoalStep(g)
BY DEF Next, vars, OtherStep, GoalStep, SamplesAge, ShutDown

(* Initially no goal is known and the gate is free. *)
LEMMA ServerInit == Init => IInv
<1> SUFFICES ASSUME Init PROVE IInv
  OBVIOUS
<1>1. 0 \in Within(0, RefTol) /\ 0 \in Within(0, RefTol + DriftTol)
  BY ServerAssumption DEF Within
<1>2. NewEvidence \in Evidence
  BY <1>1 DEF NewEvidence, Evidence, Outcomes
<1>3. TypeOK
  BY <1>2 DEF Init, TypeOK, Pcs, MoveitStates
<1>4. GateIsExact
  BY DEF Init, GateIsExact, Holding
<1>5. ASSUME NEW g \in Goals PROVE GoalInv(g)
  BY DEF Init, NewEvidence, GoalInv, RecordInv, StageInv, ToldInv, Alive, Unsent
<1> QED
  BY <1>3, <1>4, <1>5 DEF IInv

(* A reading near the planning state is within both tolerances together of   *)
(* reference_q. *)
LEMMA DriftsAddUp ==
  ASSUME NEW s \in Within(0, RefTol), NEW q \in Within(s, DriftTol)
  PROVE  q \in Within(0, RefTol + DriftTol)
BY ServerAssumption DEF Within

(* Evidence stays evidence when a field is written. *)
LEMMA EvidenceWritten ==
  ASSUME NEW e \in Evidence
  PROVE  /\ \A v \in BOOLEAN : [e EXCEPT !.execute = v] \in Evidence
         /\ \A q \in Within(0, RefTol) : [e EXCEPT !.start = q] \in Evidence
         /\ [e EXCEPT !.attempts = 1] \in Evidence
         /\ \A v \in {"no", "yes"} : [e EXCEPT !.accepted = v] \in Evidence
         /\ \A v \in {"succeeded", "other"} : [e EXCEPT !.status = v] \in Evidence
         /\ \A v \in BOOLEAN : [e EXCEPT !.cancelled = v] \in Evidence
         /\ \A v \in Outcomes : [e EXCEPT !.outcome = v] \in Evidence
<1>1. ASSUME NEW v \in BOOLEAN
      PROVE  [e EXCEPT !.execute = v] \in Evidence /\ [e EXCEPT !.cancelled = v] \in Evidence
  BY DEF Evidence
<1>2. [e EXCEPT !.attempts = 1] \in Evidence
  BY DEF Evidence
<1>3. ASSUME NEW v \in {"succeeded", "other"} PROVE [e EXCEPT !.status = v] \in Evidence
  BY DEF Evidence
<1>4. ASSUME NEW v \in Outcomes PROVE [e EXCEPT !.outcome = v] \in Evidence
  BY DEF Evidence
<1>5. ASSUME NEW v \in {"no", "yes"} PROVE [e EXCEPT !.accepted = v] \in Evidence
  BY DEF Evidence
<1>6. ASSUME NEW q \in Within(0, RefTol) PROVE [e EXCEPT !.start = q] \in Evidence
  BY DEF Evidence
<1> QED
  BY <1>1, <1>2, <1>3, <1>4, <1>5, <1>6

(* Every step on behalf of a goal keeps the types. *)
LEMMA TypeStep ==
  ASSUME TypeOK, NEW g \in Goals, GoalStep(g)
  PROVE  TypeOK'
<1>1. CASE GoalReject(g)
  BY <1>1 DEF GoalReject, GoTo, TypeOK, Evidence, Outcomes, Pcs, MoveitStates, Private
<1>2. CASE GoalAccept(g)
  BY <1>2 DEF GoalAccept, GoTo, TypeOK, Evidence, Outcomes, Pcs, MoveitStates, Private
<1>3. CASE Start(g)
  <2>1. ev[g] \in Evidence
    BY DEF TypeOK
  <2>2. ev' \in [Goals -> Evidence]
    BY <1>3, <2>1, EvidenceWritten DEF Start, TypeOK, Outcomes
  <2> QED
    BY <1>3, <2>2 DEF Start, GoTo, TypeOK, Pcs, MoveitStates, Private
<1>4. CASE PlanningState(g)
  <2>1. ev[g] \in Evidence
    BY DEF TypeOK
  <2>2. ev' \in [Goals -> Evidence]
    BY <1>4, <2>1, EvidenceWritten DEF PlanningState, TypeOK, Outcomes
  <2> QED
    BY <1>4, <2>2 DEF PlanningState, GoTo, TypeOK, Pcs, MoveitStates, Private
<1>5. CASE PlanOnly(g)
  <2>1. ev[g] \in Evidence
    BY DEF TypeOK
  <2>2. ev' \in [Goals -> Evidence]
    BY <1>5, <2>1, EvidenceWritten DEF PlanOnly, TypeOK, Outcomes
  <2> QED
    BY <1>5, <2>2 DEF PlanOnly, GoTo, TypeOK, Pcs, MoveitStates, Private
<1>6. CASE PlanToExecute(g)
  BY <1>6 DEF PlanToExecute, GoTo, TypeOK, Evidence, Outcomes, Pcs, MoveitStates, Private
<1>7. CASE ExecutionState(g)
  <2>1. PICK q \in Within(ev[g].start, DriftTol) : ev' = [ev EXCEPT ![g].here = q]
    BY <1>7 DEF ExecutionState
  <2>2. ev[g].start \in Within(0, RefTol)
    BY DEF TypeOK, Evidence
  <2>3. q \in Within(0, RefTol + DriftTol)
    BY <2>2, DriftsAddUp
  <2> QED
    BY <1>7, <2>1, <2>3 DEF ExecutionState, GoTo, TypeOK, Evidence, Pcs, Private
<1>8. CASE Send(g)
  <2>1. ev[g] \in Evidence
    BY DEF TypeOK
  <2>2. ev' \in [Goals -> Evidence]
    BY <1>8, <2>1, EvidenceWritten DEF Send, TypeOK, Outcomes
  <2> QED
    BY <1>8, <2>2 DEF Send, GoTo, TypeOK, Pcs, MoveitStates, Private
<1>9. CASE SendRaises(g)
  <2>1. ev[g] \in Evidence
    BY DEF TypeOK
  <2>2. ev' \in [Goals -> Evidence]
    BY <1>9, <2>1, EvidenceWritten DEF SendRaises, TypeOK, Outcomes
  <2> QED
    BY <1>9, <2>2 DEF SendRaises, GoTo, TypeOK, Pcs, MoveitStates, Private
<1>10. CASE Accepted(g)
  <2>1. ev[g] \in Evidence
    BY DEF TypeOK
  <2>2. ev' \in [Goals -> Evidence]
    BY <1>10, <2>1, EvidenceWritten DEF Accepted, TypeOK, Outcomes
  <2> QED
    BY <1>10, <2>2 DEF Accepted, GoTo, TypeOK, Pcs, MoveitStates, Private
<1>11. CASE NotAccepted(g)
  <2>1. ev[g] \in Evidence
    BY DEF TypeOK
  <2>2. ev' \in [Goals -> Evidence]
    BY <1>11, <2>1, EvidenceWritten DEF NotAccepted, TypeOK, Outcomes
  <2> QED
    BY <1>11, <2>2 DEF NotAccepted, GoTo, TypeOK, Pcs, MoveitStates, Private
<1>12. CASE AcceptTimesOut(g)
  BY <1>12 DEF AcceptTimesOut, GoTo, TypeOK, Evidence, Outcomes, Pcs, MoveitStates, Private
<1>13. CASE Result(g)
  <2>1. ev[g] \in Evidence
    BY DEF TypeOK
  <2>2. ev' \in [Goals -> Evidence]
    BY <1>13, <2>1, EvidenceWritten DEF Result, TypeOK, Outcomes
  <2> QED
    BY <1>13, <2>2 DEF Result, GoTo, TypeOK, Pcs, MoveitStates, Private
<1>14. CASE ResultTimesOut(g)
  <2>1. ev[g] \in Evidence
    BY DEF TypeOK
  <2>2. ev' \in [Goals -> Evidence]
    BY <1>14, <2>1, EvidenceWritten DEF ResultTimesOut, TypeOK, Outcomes
  <2> QED
    BY <1>14, <2>2 DEF ResultTimesOut, GoTo, TypeOK, Pcs, MoveitStates, Private
<1>15. CASE CancelWaited(g)
  BY <1>15 DEF CancelWaited, GoTo, TypeOK, Evidence, Outcomes, Pcs, MoveitStates, Private
<1>16. CASE After(g)
  <2>1. ev[g] \in Evidence
    BY DEF TypeOK
  <2>2. ev' \in [Goals -> Evidence]
    BY <1>16, <2>1, EvidenceWritten DEF After, TypeOK, Outcomes
  <2> QED
    BY <1>16, <2>2 DEF After, GoTo, TypeOK, Pcs, MoveitStates, Private
<1>17. CASE Final(g)
  BY <1>17 DEF Final, GoTo, TypeOK, Evidence, Outcomes, Pcs, MoveitStates, Private
<1>18. CASE Raises(g)
  BY <1>18 DEF Raises, TypeOK, Evidence, Outcomes, Pcs, MoveitStates, Private
<1>19. CASE Abort(g)
  <2>1. ev[g] \in Evidence
    BY DEF TypeOK
  <2>2. ev' \in [Goals -> Evidence]
    BY <1>19, <2>1, EvidenceWritten DEF Abort, TypeOK, Outcomes
  <2> QED
    BY <1>19, <2>2 DEF Abort, GoTo, TypeOK, Pcs, MoveitStates, Private
<1>20. CASE Close(g)
  BY <1>20 DEF Close, GoTo, TypeOK, Evidence, Outcomes, Pcs, MoveitStates, Private
<1>21. CASE Reply(g)
  BY <1>21 DEF Reply, GoTo, TypeOK, Evidence, Outcomes, Pcs, MoveitStates, Private
<1>22. CASE MoveitAnswers(g)
  BY <1>22 DEF MoveitAnswers, TypeOK, Evidence, Outcomes, Pcs, MoveitStates, Private
<1>23. CASE MoveitEnds(g)
  BY <1>23 DEF MoveitEnds, TypeOK, Evidence, Outcomes, Pcs, MoveitStates, Private
<1> QED
  BY <1>1, <1>2, <1>3, <1>4, <1>5, <1>6, <1>7, <1>8, <1>9, <1>10, <1>11, <1>12, <1>13, <1>14, <1>15, <1>16, <1>17, <1>18, <1>19, <1>20, <1>21, <1>22, <1>23 DEF GoalStep, Callback

(* Every step on behalf of a goal keeps the gate exact. *)
LEMMA GateStep ==
  ASSUME TypeOK, GateIsExact, NEW g \in Goals, GoalStep(g)
  PROVE  GateIsExact'
<1>1. CASE GoalReject(g)
  BY <1>1 DEF GoalReject, GoTo, TypeOK, GateIsExact, Holding, Private
<1>2. CASE GoalAccept(g)
  BY <1>2 DEF GoalAccept, GoTo, TypeOK, GateIsExact, Holding, Private
<1>3. CASE Start(g)
  BY <1>3 DEF Start, GoTo, TypeOK, GateIsExact, Holding, Private
<1>4. CASE PlanningState(g)
  BY <1>4 DEF PlanningState, GoTo, TypeOK, GateIsExact, Holding, Private
<1>5. CASE PlanOnly(g)
  BY <1>5 DEF PlanOnly, GoTo, TypeOK, GateIsExact, Holding, Private
<1>6. CASE PlanToExecute(g)
  BY <1>6 DEF PlanToExecute, GoTo, TypeOK, GateIsExact, Holding, Private
<1>7. CASE ExecutionState(g)
  BY <1>7 DEF ExecutionState, GoTo, TypeOK, GateIsExact, Holding, Private
<1>8. CASE Send(g)
  BY <1>8 DEF Send, GoTo, TypeOK, GateIsExact, Holding, Private
<1>9. CASE SendRaises(g)
  BY <1>9 DEF SendRaises, GoTo, TypeOK, GateIsExact, Holding, Private
<1>10. CASE Accepted(g)
  BY <1>10 DEF Accepted, GoTo, TypeOK, GateIsExact, Holding, Private
<1>11. CASE NotAccepted(g)
  BY <1>11 DEF NotAccepted, GoTo, TypeOK, GateIsExact, Holding, Private
<1>12. CASE AcceptTimesOut(g)
  BY <1>12 DEF AcceptTimesOut, GoTo, TypeOK, GateIsExact, Holding, Private
<1>13. CASE Result(g)
  BY <1>13 DEF Result, GoTo, TypeOK, GateIsExact, Holding, Private
<1>14. CASE ResultTimesOut(g)
  BY <1>14 DEF ResultTimesOut, GoTo, TypeOK, GateIsExact, Holding, Private
<1>15. CASE CancelWaited(g)
  BY <1>15 DEF CancelWaited, GoTo, TypeOK, GateIsExact, Holding, Private
<1>16. CASE After(g)
  BY <1>16 DEF After, GoTo, TypeOK, GateIsExact, Holding, Private
<1>17. CASE Final(g)
  BY <1>17 DEF Final, GoTo, TypeOK, GateIsExact, Holding, Private
<1>18. CASE Raises(g)
  BY <1>18 DEF Raises, TypeOK, GateIsExact, Holding, Private
<1>19. CASE Abort(g)
  BY <1>19 DEF Abort, GoTo, TypeOK, GateIsExact, Holding, Private
<1>20. CASE Close(g)
  BY <1>20 DEF Close, GoTo, TypeOK, GateIsExact, Holding, Private
<1>21. CASE Reply(g)
  BY <1>21 DEF Reply, GoTo, TypeOK, GateIsExact, Holding, Private
<1>22. CASE MoveitAnswers(g)
  BY <1>22 DEF MoveitAnswers, TypeOK, GateIsExact, Holding, Private
<1>23. CASE MoveitEnds(g)
  BY <1>23 DEF MoveitEnds, TypeOK, GateIsExact, Holding, Private
<1> QED
  BY <1>1, <1>2, <1>3, <1>4, <1>5, <1>6, <1>7, <1>8, <1>9, <1>10, <1>11, <1>12, <1>13, <1>14, <1>15, <1>16, <1>17, <1>18, <1>19, <1>20, <1>21, <1>22, <1>23 DEF GoalStep, Callback

(* Every step on behalf of a goal keeps what is known of each goal. *)
LEMMA GoalInvStep ==
  ASSUME TypeOK, NEW g \in Goals, GoalStep(g), NEW h \in Goals, GoalInv(h)
  PROVE  GoalInv(h)'
<1>1. CASE GoalReject(g)
  BY <1>1 DEF GoalReject, GoTo, TypeOK, GoalInv, RecordInv, StageInv, ToldInv, Alive, Unsent, Private
<1>2. CASE GoalAccept(g)
  BY <1>2 DEF GoalAccept, GoTo, TypeOK, GoalInv, RecordInv, StageInv, ToldInv, Alive, Unsent, Private
<1>3. CASE Start(g)
  BY <1>3 DEF Start, GoTo, TypeOK, GoalInv, RecordInv, StageInv, ToldInv, Alive, Unsent, Private
<1>4. CASE PlanningState(g)
  BY <1>4 DEF PlanningState, GoTo, TypeOK, GoalInv, RecordInv, StageInv, ToldInv, Alive, Unsent, Private
<1>5. CASE PlanOnly(g)
  BY <1>5 DEF PlanOnly, GoTo, TypeOK, GoalInv, RecordInv, StageInv, ToldInv, Alive, Unsent, Private
<1>6. CASE PlanToExecute(g)
  BY <1>6 DEF PlanToExecute, GoTo, TypeOK, GoalInv, RecordInv, StageInv, ToldInv, Alive, Unsent, Private
<1>7. CASE ExecutionState(g)
  BY <1>7 DEF ExecutionState, GoTo, TypeOK, GoalInv, RecordInv, StageInv, ToldInv, Alive, Unsent, Private
<1>8. CASE Send(g)
  BY <1>8 DEF Send, GoTo, TypeOK, GoalInv, RecordInv, StageInv, ToldInv, Alive, Unsent, Private
<1>9. CASE SendRaises(g)
  BY <1>9 DEF SendRaises, GoTo, TypeOK, GoalInv, RecordInv, StageInv, ToldInv, Alive, Unsent, Private
<1>10. CASE Accepted(g)
  BY <1>10 DEF Accepted, GoTo, TypeOK, GoalInv, RecordInv, StageInv, ToldInv, Alive, Unsent, Private
<1>11. CASE NotAccepted(g)
  BY <1>11 DEF NotAccepted, GoTo, TypeOK, GoalInv, RecordInv, StageInv, ToldInv, Alive, Unsent, Private
<1>12. CASE AcceptTimesOut(g)
  BY <1>12 DEF AcceptTimesOut, GoTo, TypeOK, GoalInv, RecordInv, StageInv, ToldInv, Alive, Unsent, Private
<1>13. CASE Result(g)
  BY <1>13 DEF Result, GoTo, TypeOK, GoalInv, RecordInv, StageInv, ToldInv, Alive, Unsent, Private
<1>14. CASE ResultTimesOut(g)
  BY <1>14 DEF ResultTimesOut, GoTo, TypeOK, GoalInv, RecordInv, StageInv, ToldInv, Alive, Unsent, Private
<1>15. CASE CancelWaited(g)
  BY <1>15 DEF CancelWaited, GoTo, TypeOK, GoalInv, RecordInv, StageInv, ToldInv, Alive, Unsent, Private
<1>16. CASE After(g)
  BY <1>16 DEF After, GoTo, TypeOK, GoalInv, RecordInv, StageInv, ToldInv, Alive, Unsent, Private
<1>17. CASE Final(g)
  BY <1>17 DEF Final, GoTo, TypeOK, GoalInv, RecordInv, StageInv, ToldInv, Alive, Unsent, Private
<1>18. CASE Raises(g)
  BY <1>18 DEF Raises, TypeOK, GoalInv, RecordInv, StageInv, ToldInv, Alive, Unsent, Private
<1>19. CASE Abort(g)
  BY <1>19 DEF Abort, GoTo, TypeOK, GoalInv, RecordInv, StageInv, ToldInv, Alive, Unsent, Private
<1>20. CASE Close(g)
  BY <1>20 DEF Close, GoTo, TypeOK, GoalInv, RecordInv, StageInv, ToldInv, Alive, Unsent, Private
<1>21. CASE Reply(g)
  BY <1>21 DEF Reply, GoTo, TypeOK, GoalInv, RecordInv, StageInv, ToldInv, Alive, Unsent, Private
<1>22. CASE MoveitAnswers(g)
  BY <1>22 DEF MoveitAnswers, TypeOK, GoalInv, RecordInv, StageInv, ToldInv, Alive, Unsent, Private
<1>23. CASE MoveitEnds(g)
  BY <1>23 DEF MoveitEnds, TypeOK, GoalInv, RecordInv, StageInv, ToldInv, Alive, Unsent, Private
<1> QED
  BY <1>1, <1>2, <1>3, <1>4, <1>5, <1>6, <1>7, <1>8, <1>9, <1>10, <1>11, <1>12, <1>13, <1>14, <1>15, <1>16, <1>17, <1>18, <1>19, <1>20, <1>21, <1>22, <1>23 DEF GoalStep, Callback

(* The other steps keep the types. *)
LEMMA OtherTypes == TypeOK /\ [Next]_vars => TypeOK'
<1> SUFFICES ASSUME TypeOK, [Next]_vars PROVE TypeOK'
  OBVIOUS
<1>1. CASE \E g \in Goals : GoalStep(g)
  BY <1>1, TypeStep
<1>2. CASE SamplesAge \/ ShutDown \/ UNCHANGED vars
  BY <1>2 DEF SamplesAge, ShutDown, vars, TypeOK
<1> QED
  BY <1>1, <1>2 DEF Next, GoalStep

(* The inductive invariant holds in every reachable state: each step is on  *)
(* behalf of one goal, and leaves the others alone. *)
THEOREM ServerInvariant == Spec => []IInv
<1>1. IInv /\ [Next]_vars => IInv'
  <2> SUFFICES ASSUME IInv, [Next]_vars PROVE IInv'
    OBVIOUS
  <2>1. TypeOK /\ GateIsExact /\ \A h \in Goals : GoalInv(h)
    BY DEF IInv
  <2>2. CASE \E g \in Goals : GoalStep(g)
    BY <2>1, <2>2, TypeStep, GateStep, GoalInvStep DEF IInv
  <2>3. CASE OtherStep
    <3>1. TypeOK'
      BY <2>1, OtherTypes
    <3>2. GateIsExact'
      BY <2>1, <2>3 DEF OtherStep, GateIsExact, Holding
    <3>3. ASSUME NEW h \in Goals PROVE GoalInv(h)'
      BY <2>1, <2>3 DEF OtherStep, GoalInv, RecordInv, StageInv, ToldInv, Alive
    <3> QED
      BY <3>1, <3>2, <3>3 DEF IInv
  <2> QED
    BY <2>2, <2>3, StepsAre
<1> QED
  BY <1>1, ServerInit, PTL DEF Spec

(* The variables of the server keep their types. *)
THEOREM TypeCorrect == Spec => []TypeOK
BY ServerInvariant, PTL DEF IInv

(* The busy gate is reserved exactly while one admitted goal is unfinished. *)
THEOREM GateIsSound == Spec => []GateIsExact
BY ServerInvariant, PTL DEF IInv

(* A trajectory that outlives its callback is on record. *)
THEOREM LeftBehindIsOnRecord == Spec => []LeftBehindIsTold
<1>1. IInv => LeftBehindIsTold
  BY DEF IInv, GoalInv, RecordInv, StageInv, ToldInv, LeftBehindIsTold, Left, Alive
<1> QED
  BY <1>1, ServerInvariant, PTL

(* The client is told of a success only after one. *)
THEOREM SuccessesAreEarned == Spec => []SuccessIsEarned
<1>1. IInv => SuccessIsEarned
  BY DEF IInv, GoalInv, RecordInv, ToldInv, SuccessIsEarned
<1> QED
  BY <1>1, ServerInvariant, PTL

(* A trajectory is sent only with the arm near its start, and near reference_q. *)
THEOREM TrajectoriesStartNear == Spec => []StartsNearPlan
<1>1. IInv => StartsNearPlan
  BY DEF IInv, TypeOK, Evidence, GoalInv, RecordInv, StartsNearPlan
<1> QED
  BY <1>1, ServerInvariant, PTL


-----------------------------------------------------------------------------
(* The promise of TargetRun. *)

(* The stage of a goal is one of the promise's, and under way only while it
   holds the gate. *)
LEMMA StageTypes ==
  ASSUME TypeOK, NEW g \in Goals
  PROVE  /\ RunStage(g) \in Run!Stages
         /\ RunStage(g) \in Run!UnderWay => Holding(g)
<1>1. pc[g] \in Pcs /\ ev[g].outcome \in Outcomes
  BY DEF TypeOK, Evidence
<1> QED
  BY <1>1 DEF RunStage, Run!Stages, Run!UnderWay, Run!Outcomes, Outcomes, Pcs, Holding

(* A step on behalf of a goal changes no other goal's stage. *)
LEMMA OneStageMoves ==
  ASSUME TypeOK, NEW g \in Goals, GoalStep(g)
  PROVE  \A h \in Goals \ {g} : RunStage(h)' = RunStage(h)
<1>1. \A h \in Goals \ {g} : pc'[h] = pc[h] /\ ev'[h] = ev[h]
  BY DEF GoalStep, Callback, GoalReject, GoalAccept, Start, PlanningState, PlanOnly,
     PlanToExecute, ExecutionState, Send, SendRaises, Accepted, NotAccepted,
     AcceptTimesOut, Result, ResultTimesOut, CancelWaited, After, Final, Raises,
     Abort, Close, Reply, MoveitAnswers, MoveitEnds, GoTo, TypeOK, Private
<1> QED
  BY <1>1, Zenon DEF RunStage

(* How the stage of the goal itself moves. *)
LEMMA StageStep ==
  ASSUME IInv, NEW g \in Goals, GoalStep(g)
  PROVE  \/ RunStage(g)' = RunStage(g)
         \/ /\ Holding(g)
            /\ \/ RunStage(g) = "before" /\ RunStage(g)' \in {"planning", "failing"}
               \/ RunStage(g) = "planning" /\ RunStage(g)' \in
                    {"plan_only_validated", "validated", "failing"}
               \/ RunStage(g) = "validated" /\ RunStage(g)' \in {"executing", "failing"}
               \/ RunStage(g) = "executing" /\ RunStage(g)' \in {"ended", "failing"}
               \/ RunStage(g) = "ended" /\ RunStage(g)' \in
                    {"execution_succeeded", "failing"}
               \/ RunStage(g) = "failing" /\ RunStage(g)' = "failed"
<1> USE DEF GoTo, Private, TypeOK, Holding, RunStage
<1>a. /\ pc \in [Goals -> Pcs] /\ ev \in [Goals -> Evidence]
      /\ ev[g].outcome \in Outcomes /\ ev[g] \in Evidence
      /\ pc[g] = "final" => ev[g].outcome # "failed"
      /\ pc[g] = "result" => ev[g].status = "none"
      /\ pc[g] \in {"send", "accept", "cancel"} => ev[g].status = "none"
  BY DEF IInv, GoalInv, StageInv, Evidence, Unsent
<1>1. CASE GoalReject(g)
  BY <1>1, <1>a DEF GoalReject
<1>2. CASE GoalAccept(g)
  BY <1>2, <1>a DEF GoalAccept
<1>3. CASE Start(g)
  BY <1>3, <1>a DEF Start
<1>4. CASE PlanningState(g)
  BY <1>4, <1>a DEF PlanningState
<1>5. CASE PlanOnly(g)
  BY <1>5, <1>a DEF PlanOnly, Evidence
<1>6. CASE PlanToExecute(g)
  BY <1>6, <1>a DEF PlanToExecute
<1>7. CASE ExecutionState(g)
  BY <1>7, <1>a DEF ExecutionState
<1>8. CASE Send(g)
  BY <1>8, <1>a DEF Send
<1>9. CASE SendRaises(g)
  BY <1>9, <1>a DEF SendRaises, Evidence
<1>10. CASE Accepted(g)
  BY <1>10, <1>a DEF Accepted
<1>11. CASE NotAccepted(g)
  BY <1>11, <1>a DEF NotAccepted, Evidence
<1>12. CASE AcceptTimesOut(g)
  BY <1>12, <1>a DEF AcceptTimesOut
<1>13. CASE Result(g)
  BY <1>13, <1>a DEF Result, Evidence
<1>14. CASE ResultTimesOut(g)
  BY <1>14, <1>a DEF ResultTimesOut
<1>15. CASE CancelWaited(g)
  BY <1>15, <1>a DEF CancelWaited
<1>16. CASE After(g)
  BY <1>16, <1>a DEF After, Evidence
<1>17. CASE Final(g)
  BY <1>17, <1>a DEF Final, Outcomes
<1>18. CASE Raises(g)
  BY <1>18, <1>a DEF Raises, Outcomes
<1>19. CASE Abort(g)
  BY <1>19, <1>a DEF Abort, Evidence
<1>20. CASE Close(g) \/ Reply(g)
  BY <1>20, <1>a DEF Close, Reply
<1>21. CASE MoveitAnswers(g) \/ MoveitEnds(g)
  BY <1>21 DEF MoveitAnswers, MoveitEnds
<1> QED
  BY <1>1, <1>2, <1>3, <1>4, <1>5, <1>6, <1>7, <1>8, <1>9, <1>10, <1>11, <1>12,
     <1>13, <1>14, <1>15, <1>16, <1>17, <1>18, <1>19, <1>20, <1>21
  DEF GoalStep, Callback

(* Every run starts where the promise has it. *)
LEMMA RunInit == Init => Run!Init
  BY DEF Init, Run!Init, RunStage

(* A stage that moves is a move of the promise: whoever holds the gate has no
   other under way. *)
LEMMA MoveIsPromised ==
  ASSUME IInv, NEW g \in Goals, Holding(g), RunStage(g)' # RunStage(g),
         GoalStep(g)
  PROVE  Run!Next
<1> DEFINE St == [h \in Goals |-> RunStage(h)]
           to == RunStage(g)'
<1>1. Run!Alone(g)
  BY StageTypes DEF Run!Alone, IInv, GateIsExact
<1>2. St' = [St EXCEPT ![g] = to]
  <2>1. \A h \in Goals \ {g} : RunStage(h)' = RunStage(h)
    BY OneStageMoves DEF IInv
  <2> HIDE DEF to
  <2>2. St' = [h \in Goals |-> RunStage(h)']
    OBVIOUS
  <2>3. \A h \in Goals : RunStage(h)' = IF h = g THEN to ELSE St[h]
    BY <2>1, Zenon DEF to
  <2> QED
    BY <2>2, <2>3
<1>3. St[g] = RunStage(g)
  OBVIOUS
<1>4. \A from : St[g] \in from => Run!Moves(g, from, to)
  BY <1>1, <1>2 DEF Run!Moves
<1> HIDE DEF St, to
<1>5. \/ St[g] = "before" /\ to \in {"planning", "failing"}
      \/ St[g] = "planning" /\ to \in {"plan_only_validated", "validated", "failing"}
      \/ St[g] = "validated" /\ to \in {"executing", "failing"}
      \/ St[g] = "executing" /\ to \in {"ended", "failing"}
      \/ St[g] = "ended" /\ to \in {"execution_succeeded", "failing"}
      \/ St[g] = "failing" /\ to = "failed"
  BY <1>3, StageStep DEF to
<1>6. \/ Run!Plan(g) \/ Run!PlanOnly(g) \/ Run!Validate(g) \/ Run!Execute(g)
      \/ Run!EndWell(g) \/ Run!Succeed(g) \/ Run!GoWrong(g) \/ Run!Fail(g)
  BY <1>4, <1>5
     DEF Run!Plan, Run!PlanOnly, Run!Validate, Run!Execute, Run!EndWell, Run!Succeed,
         Run!GoWrong, Run!Fail, Run!UnderWay
<1> QED
  BY <1>6, Zenon DEF Run!Next

(* Every step of the server is one of the promise, or nothing to it. *)
LEMMA RunStep == IInv /\ [Next]_vars => [Run!Next]_(Run!vars)
<1> SUFFICES ASSUME IInv, [Next]_vars PROVE [Run!Next]_(Run!vars)
  OBVIOUS
<1>1. ASSUME \A h \in Goals : RunStage(h)' = RunStage(h)
      PROVE  UNCHANGED Run!vars
  BY <1>1 DEF Run!vars
<1>2. ASSUME NEW g \in Goals, GoalStep(g) PROVE [Run!Next]_(Run!vars)
  <2>1. CASE RunStage(g)' = RunStage(g)
    <3>1. \A h \in Goals : RunStage(h)' = RunStage(h)
      BY <1>2, <2>1, OneStageMoves, Zenon DEF IInv
    <3> QED
      BY <1>1, <3>1
  <2>2. CASE RunStage(g)' # RunStage(g)
    BY <1>2, <2>2, StageStep, MoveIsPromised
  <2> QED
    BY <2>1, <2>2
<1>3. CASE OtherStep
  <2>1. \A h \in Goals : RunStage(h)' = RunStage(h)
    BY <1>3, Zenon DEF OtherStep, RunStage
  <2> QED
    BY <1>1, <2>1
<1> QED
  BY <1>2, <1>3, StepsAre

(***************************************************************************)
(* The server implements TargetRun for any number of goals: the gate keeps *)
(* one run under way, from its first plan to the end of its callback, and  *)
(* the evidence never makes a success of a run that has gone wrong.        *)
(***************************************************************************)
THEOREM ImplementsTargetRun == Spec => RunsSpec
  BY ServerInvariant, RunInit, RunStep, PTL DEF Spec, RunsSpec, Run!Spec

-----------------------------------------------------------------------------
(* What the finding about OneActiveTarget leaves, and the callback's way. *)

(***************************************************************************)
(* When the server lets a second trajectory live beside the first, one of  *)
(* them is a known failure: only the holder of the gate may still wait for *)
(* its own.                                                                *)
(***************************************************************************)
THEOREM ExtrasAreTold == Spec => []ExtraTargetsAreTold
<1>1. IInv => ExtraTargetsAreTold
  <2> SUFFICES ASSUME IInv, NEW g \in Goals, NEW h \in Goals, Alive(g), Alive(h), g # h
               PROVE  \E x \in {g, h} :
                        /\ pc[x] \in {"reply", "done"}
                        /\ ev[x].outcome = "failed"
                        /\ ev[x].accepted = "yes" => ev[x].cancelled
    BY DEF ExtraTargetsAreTold
  <2>1. PICK x \in {g, h} : ~Holding(x)
    BY DEF IInv, GateIsExact
  <2>2. Alive(x) /\ GoalInv(x) /\ pc[x] \in Pcs
    BY DEF IInv, TypeOK
  <2>3. pc[x] \in {"reply", "done"}
    BY <2>1, <2>2 DEF Holding, Pcs, GoalInv, StageInv, Unsent, Alive
  <2>4. ev[x].outcome = "failed" /\ (ev[x].accepted = "yes" => ev[x].cancelled)
    BY <2>2, <2>3 DEF GoalInv, RecordInv
  <2> QED
    BY <2>3, <2>4
<1> QED
  BY <1>1, ServerInvariant, PTL

\* What CallbacksGoForward asks of a step.
GoesForward ==
  \A g \in Goals :
    /\ Callback(g) => Rank(g)' < Rank(g)
    /\ pc'[g] # pc[g] => Rank(g)' < Rank(g) \/ pc[g] = "new"

(* Every step of a callback leaves fewer of them. *)
LEMMA CallbackForward ==
  ASSUME TypeOK, NEW g \in Goals, Callback(g)
  PROVE  Rank(g)' < Rank(g)
<1>1. pc \in [Goals -> Pcs]
  BY DEF TypeOK
<1>2. \/ pc[g] = "queued" /\ pc'[g] = "planning"
      \/ pc[g] = "planning" /\ pc'[g] = "plan"
      \/ pc[g] = "plan" /\ pc'[g] \in {"execution", "final"}
      \/ pc[g] = "execution" /\ pc'[g] = "send"
      \/ pc[g] = "send" /\ pc'[g] \in {"accept", "after"}
      \/ pc[g] = "accept" /\ pc'[g] \in {"result", "after"}
      \/ pc[g] = "result" /\ pc'[g] \in {"cancel", "after"}
      \/ pc[g] = "cancel" /\ pc'[g] = "after"
      \/ pc[g] = "after" /\ pc'[g] = "final"
      \/ pc[g] \in {"queued", "planning", "plan", "execution", "after", "final"}
         /\ pc'[g] = "abort"
      \/ pc[g] \in {"abort", "final"} /\ pc'[g] = "close"
      \/ pc[g] = "close" /\ pc'[g] = "reply"
      \/ pc[g] = "reply" /\ pc'[g] = "done"
  <2>1. CASE Raises(g)
    BY <1>1, <2>1 DEF Raises
  <2> QED
    BY <1>1, <2>1
    DEF Callback, Start, PlanningState, PlanOnly, PlanToExecute, ExecutionState, Send,
        SendRaises, Accepted, NotAccepted, AcceptTimesOut, Result, ResultTimesOut,
        CancelWaited, After, Final, Abort, Close, Reply, GoTo
<1> QED
  BY <1>2 DEF Rank

(* No other step touches where a callback is, but for an admission. *)
LEMMA ForwardStep == IInv /\ [Next]_vars => GoesForward
<1> SUFFICES ASSUME TypeOK, [Next]_vars, NEW h \in Goals, pc'[h] # pc[h]
             PROVE  Rank(h)' < Rank(h) \/ pc[h] = "new"
  BY CallbackForward DEF IInv, GoesForward
<1>1. CASE Callback(h)
  BY <1>1, CallbackForward
<1>2. ASSUME NEW g \in Goals, Callback(g), g # h PROVE FALSE
  BY <1>2
  DEF Callback, Start, PlanningState, PlanOnly, PlanToExecute, ExecutionState, Send,
      SendRaises, Accepted, NotAccepted, AcceptTimesOut, Result, ResultTimesOut,
      CancelWaited, After, Final, Raises, Abort, Close, Reply, GoTo, TypeOK
<1>3. ASSUME NEW g \in Goals, GoalReject(g) \/ GoalAccept(g) PROVE pc[h] = "new"
  BY <1>3 DEF GoalReject, GoalAccept, GoTo, TypeOK
<1>4. CASE \E g \in Goals : MoveitAnswers(g) \/ MoveitEnds(g)
  BY <1>4 DEF MoveitAnswers, MoveitEnds
<1>5. CASE SamplesAge \/ ShutDown \/ UNCHANGED vars
  BY <1>5 DEF SamplesAge, ShutDown, vars
<1> QED
  BY <1>1, <1>2, <1>3, <1>4, <1>5, Zenon DEF Next

(***************************************************************************)
(* An admitted goal goes through execute_callback once, in at most         *)
(* thirteen steps of it, whatever happens around it.                       *)
(***************************************************************************)
THEOREM CallbacksForward == Spec => CallbacksGoForward
<1>1. IInv /\ [Next]_vars => [GoesForward]_vars
  BY ForwardStep
<1> QED
  BY <1>1, ServerInvariant, PTL DEF Spec, CallbacksGoForward, GoesForward
=============================================================================
