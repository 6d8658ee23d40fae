----------------------- MODULE RegressionClientProofs -----------------------
(***************************************************************************)
(* What the regression script may rely on, for any number of goals, any    *)
(* tolerances, and an operator who sets the parameter whenever he likes.   *)
(* The server's own invariant is taken from its specification, which the   *)
(* script and its server implement.                                        *)
(***************************************************************************)
EXTENDS RegressionClient, JointTargetServerProofs

\* A step of the script or of the operator.
ScriptStep ==
  \/ QueryExecute \/ Refuse \/ ReadState \/ SendGoal \/ GoalAccepted
  \/ Passes \/ GivesUp \/ SetExecute

\* A step of the server on behalf of one goal.
ServedStep(g) ==
  /\ UNCHANGED clientVars
  /\ \/ (g = Script => sent) /\ (GoalReject(g) \/ GoalAccept(g))
     \/ Callback(g) /\ ReadsSettings(g)
     \/ MoveitAnswers(g) \/ MoveitEnds(g)

\* What ScriptInv speaks of.
ScriptState(g) == <<pc[g], ev[g], reply[g], result[g], moveit[g]>>

(* Every step is the script's or the operator's, or the server's. *)
LEMMA ClientStepsAre ==
  [ClientNext]_allVars =>
    \/ ScriptStep
    \/ \E g \in Goals : ServedStep(g)
    \/ OtherStep /\ UNCHANGED clientVars
<1>1. ASSUME NEW g \in Goals, ServerOffered(g) \/ ServerCallback(g)
      PROVE  ServedStep(g)
  BY <1>1 DEF ServerOffered, ServerCallback, ServedStep
<1>2. ServerElse => (\E g \in Goals : ServedStep(g)) \/ (OtherStep /\ UNCHANGED clientVars)
  BY DEF ServerElse, ServedStep, OtherStep, SamplesAge, ShutDown
<1>3. UNCHANGED allVars => OtherStep /\ UNCHANGED clientVars
  BY DEF allVars, vars, OtherStep
<1> QED
  BY <1>1, <1>2, <1>3 DEF ClientNext, ScriptStep

(* The script, its operator and the server they use are a server and its     *)
(* clients: what holds of every server holds of this one. *)
THEOREM IsAServer == ClientSpec => Spec
<1>1. ClientInit => Init
  BY DEF ClientInit
<1>2. [ClientNext]_allVars => [Next]_vars
  <2>1. ScriptStep => UNCHANGED vars
    BY DEF ScriptStep, QueryExecute, Refuse, ReadState, SendGoal, GoalAccepted,
           Passes, GivesUp, Stage, SetExecute
  <2>2. ASSUME NEW g \in Goals, ServerOffered(g) \/ ServerCallback(g) PROVE Next
    BY <2>2 DEF ServerOffered, ServerCallback, Next
  <2>3. ServerElse => Next
    BY DEF ServerElse, Next
  <2> QED
    BY <2>1, <2>2, <2>3 DEF ClientNext, ScriptStep, allVars
<1> QED
  BY <1>1, <1>2, PTL DEF ClientSpec, Spec

(* A step on behalf of another goal leaves the script's alone. *)
LEMMA OthersLeaveScript ==
  ASSUME TypeOK, NEW g \in Goals, g # Script, GoalStep(g)
  PROVE  UNCHANGED ScriptState(Script)
<1>1. CASE GoalReject(g)
  BY <1>1, ScriptAssumption DEF GoalReject, GoTo, TypeOK, ScriptState, Private
<1>2. CASE GoalAccept(g)
  BY <1>2, ScriptAssumption DEF GoalAccept, GoTo, TypeOK, ScriptState, Private
<1>3. CASE Start(g)
  BY <1>3, ScriptAssumption DEF Start, GoTo, TypeOK, ScriptState, Private
<1>4. CASE PlanningState(g)
  BY <1>4, ScriptAssumption DEF PlanningState, GoTo, TypeOK, ScriptState, Private
<1>5. CASE PlanOnly(g)
  BY <1>5, ScriptAssumption DEF PlanOnly, GoTo, TypeOK, ScriptState, Private
<1>6. CASE PlanToExecute(g)
  BY <1>6, ScriptAssumption DEF PlanToExecute, GoTo, TypeOK, ScriptState, Private
<1>7. CASE ExecutionState(g)
  BY <1>7, ScriptAssumption DEF ExecutionState, GoTo, TypeOK, ScriptState, Private
<1>8. CASE Send(g)
  BY <1>8, ScriptAssumption DEF Send, GoTo, TypeOK, ScriptState, Private
<1>9. CASE SendRaises(g)
  BY <1>9, ScriptAssumption DEF SendRaises, GoTo, TypeOK, ScriptState, Private
<1>10. CASE Accepted(g)
  BY <1>10, ScriptAssumption DEF Accepted, GoTo, TypeOK, ScriptState, Private
<1>11. CASE NotAccepted(g)
  BY <1>11, ScriptAssumption DEF NotAccepted, GoTo, TypeOK, ScriptState, Private
<1>12. CASE AcceptTimesOut(g)
  BY <1>12, ScriptAssumption DEF AcceptTimesOut, GoTo, TypeOK, ScriptState, Private
<1>13. CASE Result(g)
  BY <1>13, ScriptAssumption DEF Result, GoTo, TypeOK, ScriptState, Private
<1>14. CASE ResultTimesOut(g)
  BY <1>14, ScriptAssumption DEF ResultTimesOut, GoTo, TypeOK, ScriptState, Private
<1>15. CASE CancelWaited(g)
  BY <1>15, ScriptAssumption DEF CancelWaited, GoTo, TypeOK, ScriptState, Private
<1>16. CASE After(g)
  BY <1>16, ScriptAssumption DEF After, GoTo, TypeOK, ScriptState, Private
<1>17. CASE Final(g)
  BY <1>17, ScriptAssumption DEF Final, GoTo, TypeOK, ScriptState, Private
<1>18. CASE Raises(g)
  BY <1>18, ScriptAssumption DEF Raises, TypeOK, ScriptState, Private
<1>19. CASE Abort(g)
  BY <1>19, ScriptAssumption DEF Abort, GoTo, TypeOK, ScriptState, Private
<1>20. CASE Close(g)
  BY <1>20, ScriptAssumption DEF Close, GoTo, TypeOK, ScriptState, Private
<1>21. CASE Reply(g)
  BY <1>21, ScriptAssumption DEF Reply, GoTo, TypeOK, ScriptState, Private
<1>22. CASE MoveitAnswers(g)
  BY <1>22, ScriptAssumption DEF MoveitAnswers, TypeOK, ScriptState, Private
<1>23. CASE MoveitEnds(g)
  BY <1>23, ScriptAssumption DEF MoveitEnds, TypeOK, ScriptState, Private
<1> QED
  BY <1>1, <1>2, <1>3, <1>4, <1>5, <1>6, <1>7, <1>8, <1>9, <1>10, <1>11, <1>12, <1>13, <1>14, <1>15, <1>16, <1>17, <1>18, <1>19, <1>20, <1>21, <1>22, <1>23 DEF GoalStep, Callback

(* A step on behalf of the script's goal keeps what is known of it. *)
LEMMA ScriptInvStep ==
  ASSUME ClientInv, IInv, ServedStep(Script)
  PROVE  ScriptInv'
<1> USE ScriptAssumption
<1>1. /\ ScriptInv /\ AskedInv /\ TypeOK /\ StageInv(Script) /\ RecordInv(Script)
      /\ UNCHANGED <<allow, sent, changed>>
      /\ sent \in BOOLEAN /\ allow \in BOOLEAN /\ changed \in BOOLEAN /\ execute \in BOOLEAN
  BY DEF ClientInv, ClientTypeOK, IInv, GoalInv, ServedStep, clientVars
<1>2. ev[Script] \in Evidence
  BY <1>1 DEF TypeOK
<1>3. CASE (Script = Script => sent) /\ GoalReject(Script)
  BY <1>1, <1>3 DEF GoalReject, GoTo, TypeOK, ScriptInv, StageInv, Unsent, Private
<1>4. CASE (Script = Script => sent) /\ GoalAccept(Script)
  BY <1>1, <1>4 DEF GoalAccept, GoTo, TypeOK, ScriptInv, StageInv, Unsent, Private
<1>5. CASE Start(Script) /\ ReadsSettings(Script)
  BY <1>1, <1>2, <1>5 DEF Start, ReadsSettings, GoTo, TypeOK, ScriptInv, AskedInv, StageInv, Unsent, Private, Evidence
<1>6. CASE PlanningState(Script)
  BY <1>1, <1>2, <1>6 DEF PlanningState, GoTo, TypeOK, ScriptInv, StageInv, Unsent, Private, Evidence
<1>7. CASE PlanOnly(Script)
  BY <1>1, <1>2, <1>7 DEF PlanOnly, GoTo, TypeOK, ScriptInv, StageInv, Unsent, Private, Evidence
<1>8. CASE PlanToExecute(Script)
  BY <1>1, <1>2, <1>8 DEF PlanToExecute, GoTo, TypeOK, ScriptInv, StageInv, Unsent, Private, Evidence
<1>9. CASE ExecutionState(Script)
  BY <1>1, <1>2, <1>9 DEF ExecutionState, GoTo, TypeOK, ScriptInv, StageInv, Unsent, Private, Evidence
<1>10. CASE Send(Script)
  BY <1>1, <1>2, <1>10 DEF Send, GoTo, TypeOK, ScriptInv, StageInv, Unsent, Private, Evidence
<1>11. CASE SendRaises(Script)
  BY <1>1, <1>2, <1>11 DEF SendRaises, GoTo, TypeOK, ScriptInv, StageInv, Unsent, Private, Evidence
<1>12. CASE Accepted(Script)
  BY <1>1, <1>2, <1>12 DEF Accepted, GoTo, TypeOK, ScriptInv, StageInv, Unsent, Private, Evidence
<1>13. CASE NotAccepted(Script)
  BY <1>1, <1>2, <1>13 DEF NotAccepted, GoTo, TypeOK, ScriptInv, StageInv, Unsent, Private, Evidence
<1>14. CASE AcceptTimesOut(Script)
  BY <1>1, <1>2, <1>14 DEF AcceptTimesOut, GoTo, TypeOK, ScriptInv, StageInv, Unsent, Private, Evidence
<1>15. CASE Result(Script)
  BY <1>1, <1>2, <1>15 DEF Result, GoTo, TypeOK, ScriptInv, StageInv, Unsent, Private, Evidence
<1>16. CASE ResultTimesOut(Script)
  BY <1>1, <1>2, <1>16 DEF ResultTimesOut, GoTo, TypeOK, ScriptInv, StageInv, Unsent, Private, Evidence
<1>17. CASE CancelWaited(Script)
  BY <1>1, <1>2, <1>17 DEF CancelWaited, GoTo, TypeOK, ScriptInv, StageInv, Unsent, Private, Evidence
<1>18. CASE After(Script)
  BY <1>1, <1>2, <1>18 DEF After, GoTo, TypeOK, ScriptInv, StageInv, Unsent, Private, Evidence
<1>19. CASE Final(Script)
  BY <1>1, <1>2, <1>19 DEF Final, GoTo, TypeOK, ScriptInv, StageInv, Unsent, Private, Evidence
<1>20. CASE Raises(Script)
  BY <1>1, <1>2, <1>20 DEF Raises, TypeOK, ScriptInv, StageInv, Unsent, Private, Evidence
<1>21. CASE Abort(Script)
  BY <1>1, <1>2, <1>21 DEF Abort, GoTo, TypeOK, ScriptInv, StageInv, Unsent, Private, Evidence
<1>22. CASE Close(Script)
  BY <1>1, <1>2, <1>22 DEF Close, GoTo, TypeOK, ScriptInv, StageInv, Unsent, Private, Evidence
<1>23. CASE Reply(Script)
  BY <1>1, <1>2, <1>23 DEF Reply, GoTo, TypeOK, ScriptInv, StageInv, Unsent, Private, Evidence
<1>24. CASE MoveitAnswers(Script)
  BY <1>1, <1>2, <1>24 DEF MoveitAnswers, TypeOK, ScriptInv, StageInv, Unsent, Private, Evidence
<1>25. CASE MoveitEnds(Script)
  BY <1>1, <1>2, <1>25 DEF MoveitEnds, TypeOK, ScriptInv, StageInv, Unsent, Private, Evidence
<1> QED
  BY <1>3, <1>4, <1>5, <1>6, <1>7, <1>8, <1>9, <1>10, <1>11, <1>12, <1>13, <1>14, <1>15, <1>16, <1>17, <1>18, <1>19, <1>20, <1>21, <1>22, <1>23, <1>24, <1>25 DEF ServedStep, Callback

(* When the script's goal is done, and its trajectory over, nothing of it *)
(* changes any more. *)
LEMMA DoneStays ==
  ASSUME TypeOK, pc[Script] = "done", ~Alive(Script), GoalStep(Script)
  PROVE  UNCHANGED ScriptState(Script)
<1>1. CASE GoalReject(Script)
  BY <1>1 DEF GoalReject, GoTo
<1>2. CASE GoalAccept(Script)
  BY <1>2 DEF GoalAccept, GoTo
<1>3. CASE Start(Script)
  BY <1>3 DEF Start, GoTo
<1>4. CASE PlanningState(Script)
  BY <1>4 DEF PlanningState, GoTo
<1>5. CASE PlanOnly(Script)
  BY <1>5 DEF PlanOnly, GoTo
<1>6. CASE PlanToExecute(Script)
  BY <1>6 DEF PlanToExecute, GoTo
<1>7. CASE ExecutionState(Script)
  BY <1>7 DEF ExecutionState, GoTo
<1>8. CASE Send(Script)
  BY <1>8 DEF Send, GoTo
<1>9. CASE SendRaises(Script)
  BY <1>9 DEF SendRaises, GoTo
<1>10. CASE Accepted(Script)
  BY <1>10 DEF Accepted, GoTo
<1>11. CASE NotAccepted(Script)
  BY <1>11 DEF NotAccepted, GoTo
<1>12. CASE AcceptTimesOut(Script)
  BY <1>12 DEF AcceptTimesOut, GoTo
<1>13. CASE Result(Script)
  BY <1>13 DEF Result, GoTo
<1>14. CASE ResultTimesOut(Script)
  BY <1>14 DEF ResultTimesOut, GoTo
<1>15. CASE CancelWaited(Script)
  BY <1>15 DEF CancelWaited, GoTo
<1>16. CASE After(Script)
  BY <1>16 DEF After, GoTo
<1>17. CASE Final(Script)
  BY <1>17 DEF Final, GoTo
<1>18. CASE Raises(Script)
  BY <1>18 DEF Raises
<1>19. CASE Abort(Script)
  BY <1>19 DEF Abort, GoTo
<1>20. CASE Close(Script)
  BY <1>20 DEF Close, GoTo
<1>21. CASE Reply(Script)
  BY <1>21 DEF Reply, GoTo
<1>22. CASE MoveitAnswers(Script)
  BY <1>22 DEF MoveitAnswers, Alive
<1>23. CASE MoveitEnds(Script)
  BY <1>23 DEF MoveitEnds, Alive
<1> QED
  BY <1>1, <1>2, <1>3, <1>4, <1>5, <1>6, <1>7, <1>8, <1>9, <1>10, <1>11, <1>12, <1>13, <1>14, <1>15, <1>16, <1>17, <1>18, <1>19, <1>20, <1>21, <1>22, <1>23 DEF GoalStep, Callback

(* Initially nothing has been asked, and the goal is new. *)
LEMMA ClientStart == ClientInit => ClientInv
<1> SUFFICES ASSUME ClientInit PROVE ClientInv
  OBVIOUS
<1>1. Init /\ TypeOK
  BY ServerInit DEF ClientInit, IInv
<1>2. ScriptInv
  BY <1>1, ScriptAssumption DEF Init, ScriptInv, NewEvidence
<1> QED
  BY <1>1, <1>2 DEF ClientInit, ClientInv, ClientTypeOK, AskedInv, PassedIsTrue, Waiting

(* The script is told what was done: a result it validates is that of a run *)
(* in the mode it knows, ended as the result says. *)
LEMMA ValidatedIsTrue ==
  ASSUME ClientInv, IInv, result[Script] # "none", Validates
  PROVE  /\ pc[Script] = "done"
         /\ reply[Script] = "succeeded"
         /\ ev[Script].execute = saw
         /\ moveit[Script] = IF saw THEN "succeeded" ELSE "none"
<1>1. TypeOK /\ RecordInv(Script) /\ ToldInv(Script) /\ ScriptInv /\ saw \in BOOLEAN
  BY ScriptAssumption DEF ClientInv, ClientTypeOK, IInv, GoalInv
<1>2. ev[Script] \in Evidence
  BY <1>1, ScriptAssumption DEF TypeOK
<1>3. pc[Script] = "done" /\ result[Script] = ev[Script].outcome
  BY <1>1 DEF ToldInv
<1>4. CASE saw
  <2>1. ev[Script].outcome = "execution_succeeded"
    BY <1>3, <1>4 DEF Validates
  <2>2. moveit[Script] = "succeeded"
    BY <1>1, <2>1 DEF RecordInv
  <2>3. ev[Script].execute /\ ev[Script].execute \in BOOLEAN
    BY <1>1, <1>2, <2>2 DEF ScriptInv, Evidence
  <2>4. reply[Script] = "succeeded"
    BY <1>1, <1>3, <2>1 DEF ScriptInv
  <2> QED
    BY <1>1, <1>3, <1>4, <2>2, <2>3, <2>4
<1>5. CASE ~saw
  <2>1. ev[Script].outcome = "plan_only_validated"
    BY <1>3, <1>5 DEF Validates
  <2>2. moveit[Script] = "none"
    BY <1>1, <2>1 DEF RecordInv
  <2>3. ~ev[Script].execute /\ ev[Script].execute \in BOOLEAN
    BY <1>1, <1>2, <2>1 DEF ScriptInv, Evidence
  <2>4. reply[Script] = "succeeded"
    BY <1>1, <1>3, <2>1 DEF ScriptInv
  <2> QED
    BY <1>1, <1>3, <1>5, <2>2, <2>3, <2>4
<1> QED
  BY <1>1, <1>4, <1>5

(* A step of the script or of the operator keeps the invariant. *)
LEMMA ScriptStepInv ==
  ASSUME ClientInv, IInv, ScriptStep
  PROVE  ClientInv'
<1> USE DEF ClientInv, ClientTypeOK, AskedInv, ScriptInv, PassedIsTrue, Waiting
<1>1. TypeOK'
  <2>1. UNCHANGED vars
    BY DEF ScriptStep, QueryExecute, Refuse, ReadState, SendGoal, GoalAccepted,
           Passes, GivesUp, Stage, SetExecute
  <2> QED
    BY <2>1 DEF TypeOK, vars
<1>2. CASE QueryExecute
  BY <1>1, <1>2 DEF QueryExecute, Stage, vars
<1>3. CASE Refuse
  BY <1>1, <1>3 DEF Refuse, Stage, Refuses, vars
<1>4. CASE ReadState
  BY <1>1, <1>4 DEF ReadState, Stage, Refuses, vars
<1>5. CASE SendGoal
  BY <1>1, <1>5 DEF SendGoal, Stage, vars
<1>6. CASE GoalAccepted
  BY <1>1, <1>6 DEF GoalAccepted, Stage, vars
<1>7. CASE GivesUp
  <2>1. PICK from \in Waiting : Stage(from, "failed")
    BY <1>7 DEF GivesUp
  <2>2. client' = "failed" /\ saw' = FALSE /\ UNCHANGED <<vars, execute, allow, changed, sent>>
    BY <1>7, <2>1 DEF GivesUp, Stage
  <2> QED
    BY <1>1, <2>2 DEF vars
<1>8. CASE SetExecute
  BY <1>1, <1>8 DEF SetExecute, vars
<1>9. CASE Passes
  BY <1>1, <1>9, ValidatedIsTrue DEF Passes, Stage, vars
<1> QED
  BY <1>2, <1>3, <1>4, <1>5, <1>6, <1>7, <1>8, <1>9 DEF ScriptStep

(* A step of the server keeps the invariant. *)
LEMMA ServerStepInv ==
  ASSUME ClientInv, IInv, TypeOK', UNCHANGED clientVars, NEW g \in Goals, ServedStep(g)
  PROVE  ClientInv'
<1>1. ClientTypeOK' /\ AskedInv'
  BY DEF ClientInv, ClientTypeOK, AskedInv, clientVars
<1>2. TypeOK /\ GoalStep(g)
  BY DEF ClientInv, ClientTypeOK, ServedStep, GoalStep
<1>3. ScriptInv'
  <2>1. CASE g = Script
    BY <2>1, ScriptInvStep
  <2>2. CASE g # Script
    <3>1. UNCHANGED ScriptState(Script)
      BY <1>2, <2>2, OthersLeaveScript
    <3> QED
      BY <3>1 DEF ScriptState, ScriptInv, ClientInv, clientVars
  <2> QED
    BY <2>1, <2>2
<1>4. ASSUME client = "passed"
      PROVE  UNCHANGED ScriptState(Script)
  <2>1. pc[Script] = "done" /\ ~Alive(Script)
    BY <1>4 DEF ClientInv, PassedIsTrue, Alive
  <2> QED
    BY <1>2, <2>1, DoneStays, OthersLeaveScript
<1>5. PassedIsTrue' /\ (client = "passed" => pc[Script] = "done")'
  BY <1>4 DEF ClientInv, PassedIsTrue, ScriptState, clientVars
<1> QED
  BY <1>1, <1>3, <1>5 DEF ClientInv

(* The invariant of the script and its server holds in every reachable state. *)
THEOREM ClientInvariant == ClientSpec => []ClientInv
<1>1. ClientInv /\ IInv /\ IInv' /\ [ClientNext]_allVars => ClientInv'
  <2> SUFFICES ASSUME ClientInv, IInv, TypeOK', [ClientNext]_allVars PROVE ClientInv'
    BY DEF IInv
  <2>1. CASE ScriptStep
    BY <2>1, ScriptStepInv
  <2>2. CASE \E g \in Goals : ServedStep(g)
    BY <2>2, ServerStepInv DEF ServedStep
  <2>3. CASE OtherStep /\ UNCHANGED clientVars
    BY <2>3 DEF OtherStep, clientVars, ClientInv, ClientTypeOK, ScriptInv, AskedInv,
                PassedIsTrue
  <2> QED
    BY <2>1, <2>2, <2>3, ClientStepsAre
<1> QED
  BY <1>1, ClientStart, IsAServer, ServerInvariant, PTL DEF ClientSpec

(* A passed regression means what it says, whoever set the parameter. *)
THEOREM PassesAreTrue == ClientSpec => []PassedIsTrue
BY ClientInvariant, PTL DEF ClientInv

(* Without --allow-execution there is motion only if the parameter was set   *)
(* after the script had asked for it. *)
THEOREM MotionsArePermitted == ClientSpec => []MotionIsPermitted
<1>1. ClientInv => MotionIsPermitted
  BY DEF ClientInv, ScriptInv, MotionIsPermitted
<1> QED
  BY <1>1, ClientInvariant, PTL

=============================================================================
