------------------------- MODULE RosTransportProofs -------------------------
(***************************************************************************)
(* A run acts on recent telemetry, and vouches only for what it watched,   *)
(* for any freshness bound.                                                *)
(***************************************************************************)
EXTENDS RosTransport, TLAPS

\* A step that only moves run along its stages.
StageStep ==
  \/ Limits \/ PlannerFound \/ Ownership \/ PlanningState \/ RequestPlan
  \/ PlanOnly \/ PlanToExecute \/ ServerFound \/ OwnershipAgain \/ Send
  \/ \E exception \in BOOLEAN : ExecutionEnds(exception)
  \/ Fail

(* Initially nothing has been received and nothing is said. *)
LEMMA TransportInit == Init => TransportInv
<1> SUFFICES ASSUME Init PROVE TransportInv
  OBVIOUS
<1>1. now \in Times /\ Never \in Sample /\ Never.receipt <= now
  BY TransportAssumption DEF Init, Times, Never, Sample
<1>2. TypeOK
  BY <1>1 DEF Init, TypeOK, Pcs
<1>3. ListenInv
  BY <1>1 DEF Init, ListenInv
<1> QED
  BY <1>2, <1>3 DEF Init, TransportInv, SuccessIsWatched

(* A tick of the clocks, while run waits. *)
LEMMA TickStep == TransportInv /\ Tick => TransportInv'
<1> SUFFICES ASSUME TransportInv, Tick PROVE TransportInv'
  OBVIOUS
<1>1. now \in Nat /\ now' = now + 1 /\ now' \in Times /\ pc # "done"
  BY TransportAssumption DEF TransportInv, TypeOK, Tick, Times, Waiting
<1>2. TypeOK'
  BY <1>1 DEF TransportInv, TypeOK, Tick
<1>3. \A k \in Kinds : samples[k].receipt \in Nat /\ samples[k].receipt <= now
  BY TransportAssumption DEF TransportInv, TypeOK, ListenInv, Sample, Times
<1>4. ListenInv'
  BY <1>1, <1>3 DEF TransportInv, ListenInv, Tick
<1>5. SuccessIsWatched'
  BY <1>1 DEF TransportInv, ListenInv, SuccessIsWatched, Tick
<1> QED
  BY <1>2, <1>4, <1>5 DEF TransportInv

(* A message is taken in. *)
LEMMA ReceiveStep ==
  ASSUME TransportInv, NEW k \in Kinds, NEW stamp \in 0..(now + 1), NEW sound \in BOOLEAN,
         Receive(k, stamp, sound)
  PROVE  TransportInv'
<1> DEFINE s == [stamp |-> stamp, receipt |-> now]
<1>1. now \in Times /\ now \in Nat /\ now <= MaxTime
  BY TransportAssumption DEF TransportInv, TypeOK, Times
<1>2. s \in Sample
  BY <1>1, TransportAssumption DEF Sample
<1>3. samples' = [samples EXCEPT ![k] = s] /\ UNCHANGED <<now, pc, monitoring, raised, outcome>>
  BY DEF Receive
<1>4. TypeOK'
  BY <1>2, <1>3 DEF TransportInv, TypeOK, Receive
<1>5. pc \notin {"discovery", "done"}
  BY DEF Receive, Spinning
<1>6. (\A j \in Kinds : samples[j].receipt <= now)'
  BY <1>1, <1>3 DEF TransportInv, TypeOK, ListenInv
<1>7. (unseen => errors)'
  BY DEF Receive, Good, TransportInv, TypeOK, ListenInv
<1>8. current' = fetched'
  BY DEF Receive, TransportInv, ListenInv
<1>9. ListenInv'
  BY <1>3, <1>5, <1>6, <1>7, <1>8 DEF TransportInv, ListenInv
<1>10. SuccessIsWatched'
  BY <1>3, <1>5 DEF TransportInv, ListenInv, SuccessIsWatched
<1> QED
  BY <1>4, <1>9, <1>10 DEF TransportInv

(* run moves on to its next stage, or fails: nothing is called a success. *)
LEMMA StageStepInv == TransportInv /\ StageStep => TransportInv'
<1> SUFFICES ASSUME TransportInv, StageStep PROVE TransportInv'
  OBVIOUS
<1> USE DEF TransportInv, TypeOK, ListenInv, telemetry
<1>1. UNCHANGED telemetry /\ pc \notin {"done"} /\ outcome' # "execution_succeeded"
  BY DEF StageStep, Limits, PlannerFound, Ownership, PlanningState, RequestPlan, PlanOnly,
         PlanToExecute, ServerFound, OwnershipAgain, Send, ExecutionEnds, Fail,
         Answered, Discovered, Pcs
<1>2. TypeOK'
  <2>1. CASE Limits
    BY <2>1 DEF Limits, Answered, Pcs
  <2>2. CASE PlannerFound
    BY <2>2 DEF PlannerFound, Discovered, Pcs
  <2>3. CASE Ownership
    BY <2>3 DEF Ownership, Answered, Pcs
  <2>4. CASE PlanningState
    BY <2>4 DEF PlanningState, Discovered, FreshSamples, Pcs
  <2>5. CASE RequestPlan
    BY <2>5 DEF RequestPlan, Discovered, Pcs
  <2>6. CASE PlanOnly
    BY <2>6 DEF PlanOnly, Pcs
  <2>7. CASE PlanToExecute
    BY <2>7 DEF PlanToExecute, Answered, Pcs
  <2>8. CASE ServerFound
    BY <2>8 DEF ServerFound, Discovered, Pcs
  <2>9. CASE OwnershipAgain
    BY <2>9 DEF OwnershipAgain, Answered, Pcs
  <2>10. CASE Send
    BY <2>10 DEF Send, Pcs
  <2>11. CASE Fail
    BY <2>11 DEF Fail, Pcs
  <2>12. CASE \E exception \in BOOLEAN : ExecutionEnds(exception)
    BY <2>12 DEF ExecutionEnds, Pcs
  <2> QED
    BY <2>1, <2>2, <2>3, <2>4, <2>5, <2>6, <2>7, <2>8, <2>9, <2>10, <2>11, <2>12 DEF StageStep
<1>3. (/\ current = fetched
       /\ pc = "discovery" => current = Kinds
       /\ monitoring <=> pc = "execution")'
  <2>1. CASE Limits
    BY <2>1 DEF Limits, Answered
  <2>2. CASE PlannerFound
    BY <2>2 DEF PlannerFound, Discovered
  <2>3. CASE Ownership
    BY <2>3 DEF Ownership, Answered
  <2>4. CASE PlanningState
    BY <2>4 DEF PlanningState, Discovered, FreshSamples
  <2>5. CASE RequestPlan
    BY <2>5 DEF RequestPlan, Discovered
  <2>6. CASE PlanOnly
    BY <2>6 DEF PlanOnly
  <2>7. CASE PlanToExecute
    BY <2>7 DEF PlanToExecute, Answered
  <2>8. CASE ServerFound
    BY <2>8 DEF ServerFound, Discovered
  <2>9. CASE OwnershipAgain
    BY <2>9 DEF OwnershipAgain, Answered
  <2>10. CASE Send
    BY <2>10 DEF Send
  <2>11. CASE Fail
    BY <2>11 DEF Fail
  <2>12. CASE \E exception \in BOOLEAN : ExecutionEnds(exception)
    BY <2>12 DEF ExecutionEnds
  <2> QED
    BY <2>1, <2>2, <2>3, <2>4, <2>5, <2>6, <2>7, <2>8, <2>9, <2>10, <2>11, <2>12 DEF StageStep
<1>4. ListenInv'
  BY <1>1, <1>3
<1>5. SuccessIsWatched'
  BY <1>1 DEF SuccessIsWatched
<1> QED
  BY <1>2, <1>4, <1>5

(* What is called a success was watched. *)
LEMMA SucceedStep == TransportInv /\ Succeed => TransportInv'
<1> SUFFICES ASSUME TransportInv, Succeed PROVE TransportInv'
  OBVIOUS
<1>1. \A k \in Kinds : Recent(k)
  <2> SUFFICES ASSUME NEW k \in Kinds PROVE Recent(k)
    OBVIOUS
  <2>1. now \in Nat /\ samples[k].receipt \in Nat /\ samples[k].stamp \in Nat
        /\ samples[k].receipt <= now
    BY TransportAssumption DEF TransportInv, TypeOK, ListenInv, Sample, Times
  <2>2. now - samples[k].stamp \in 0..Freshness /\ now - samples[k].receipt <= Freshness
    BY DEF Succeed, FreshSamples, AllFresh, StampOk
  <2> QED
    BY <2>1, <2>2, TransportAssumption DEF Recent
<1>2. TypeOK'
  BY DEF Succeed, TransportInv, TypeOK, telemetry, Pcs
<1>3. ListenInv'
  BY DEF Succeed, TransportInv, ListenInv, telemetry
<1>4. SuccessIsWatched'
  BY <1>1 DEF Succeed, FreshSamples, TransportInv, ListenInv, SuccessIsWatched, Recent, telemetry
<1> QED
  BY <1>2, <1>3, <1>4 DEF TransportInv

(* The invariant of a run holds in every reachable state. *)
THEOREM TransportInvariant == Spec => []TransportInv
<1>1. TransportInv /\ [Next]_vars => TransportInv'
  <2> SUFFICES ASSUME TransportInv, [Next]_vars PROVE TransportInv'
    OBVIOUS
  <2>1. CASE Tick
    BY <2>1, TickStep
  <2>2. CASE \E k \in Kinds, stamp \in 0..(now + 1), sound \in BOOLEAN :
               Receive(k, stamp, sound)
    BY <2>2, ReceiveStep
  <2>3. CASE StageStep
    BY <2>3, StageStepInv
  <2>4. CASE Succeed
    BY <2>4, SucceedStep
  <2>5. CASE UNCHANGED vars
    BY <2>5 DEF vars, TransportInv, TypeOK, ListenInv, SuccessIsWatched, Recent
  <2> QED
    BY <2>1, <2>2, <2>3, <2>4, <2>5 DEF Next, StageStep
<1> QED
  BY <1>1, TransportInit, PTL DEF Spec

(* The variables of a run keep their types. *)
THEOREM TypeCorrect == Spec => []TypeOK
BY TransportInvariant, PTL DEF TransportInv

(* An execution that is said to have succeeded was watched throughout. *)
THEOREM SuccessesAreWatched == Spec => []SuccessIsWatched
BY TransportInvariant, PTL DEF TransportInv

(* Plans are asked for, and trajectories sent, on recent telemetry. *)
THEOREM RunsActOnRecent == Spec => ActsOnRecent
<1> DEFINE Acts == \/ pc = "discovery" /\ pc' = "plan"
                   \/ pc = "fresh_again" /\ pc' = "execution"
           RecentNow == current = Kinds /\ \A k \in Kinds : Recent(k)
<1>1. TransportInv /\ [Next]_vars => [Acts => RecentNow]_vars
  <2> SUFFICES ASSUME TransportInv, Next, Acts PROVE RecentNow
    BY DEF vars
  <2>1. AllFresh /\ current = Kinds
    <3>1. RequestPlan \/ Send
      BY DEF Next, Tick, Receive, Limits, PlannerFound, Ownership, PlanningState, PlanOnly,
             PlanToExecute, ServerFound, OwnershipAgain, ExecutionEnds, Succeed, Fail,
             Answered, Discovered
    <3> QED
      BY <3>1 DEF RequestPlan, Send, StillFresh, Discovered, FreshSamples, TransportInv, ListenInv
  <2> SUFFICES ASSUME NEW k \in Kinds PROVE Recent(k)
    BY <2>1
  <2>2. now \in Nat /\ samples[k].receipt \in Nat /\ samples[k].stamp \in Nat
        /\ samples[k].receipt <= now
    BY TransportAssumption DEF TransportInv, TypeOK, ListenInv, Sample, Times
  <2>3. now - samples[k].stamp \in 0..Freshness /\ now - samples[k].receipt <= Freshness
    BY <2>1 DEF AllFresh, StampOk
  <2> QED
    BY <2>2, <2>3, TransportAssumption DEF Recent
<1> QED
  BY <1>1, TransportInvariant, PTL DEF Spec, ActsOnRecent


-----------------------------------------------------------------------------
(* The promise of TargetRun. *)

(* The run starts where the promise has it. *)
LEMMA RunInit == Init => Run!Init
  BY DEF Init, Run!Init, RunStage

(* The only run has no other beside it: its stage moves as the promise has it,
   whatever the message or the clock. *)
LEMMA RunStep == TransportInv /\ [Next]_vars => [Run!Next]_(Run!vars)
<1> SUFFICES ASSUME TransportInv, [Next]_vars PROVE [Run!Next]_(Run!vars)
  OBVIOUS
<1> DEFINE St == [r \in {"run"} |-> RunStage]
           to == RunStage'
<1>1. CASE RunStage' = RunStage
  BY <1>1, Zenon DEF Run!vars
<1>2. CASE RunStage' # RunStage
  <2>1. \/ pc = "discovery" /\ pc' = "plan"
        \/ pc = "plan" /\ pc' = "server"
        \/ pc = "plan" /\ pc' = "done" /\ outcome' = "plan_only_validated"
        \/ pc = "fresh_again" /\ pc' = "execution"
        \/ pc = "execution" /\ pc' = "final" /\ raised' \in BOOLEAN
        \/ pc = "final" /\ ~raised /\ pc' = "done" /\ outcome' = "execution_succeeded"
        \/ pc \notin {"execution", "done"} /\ pc' = "done" /\ outcome' = "failed"
    <3>1. ASSUME UNCHANGED <<pc, raised, outcome>> PROVE FALSE
      BY <1>2, <3>1, Zenon DEF RunStage
    <3>2. ASSUME pc \in {"limits", "planner", "ownership", "fresh"},
                 pc' \in {"planner", "ownership", "fresh", "discovery"}
          PROVE  FALSE
      BY <1>2, <3>2 DEF RunStage
    <3>3. ASSUME pc \in {"server", "ownership_again"},
                 pc' \in {"ownership_again", "fresh_again"}
          PROVE  FALSE
      BY <1>2, <3>3 DEF RunStage
    <3>4. CASE Limits \/ PlannerFound \/ Ownership \/ PlanningState
      BY <3>2, <3>4 DEF Limits, PlannerFound, Ownership, PlanningState, Answered, Discovered
    <3>5. CASE ServerFound \/ OwnershipAgain
      BY <3>3, <3>5 DEF ServerFound, OwnershipAgain, Answered, Discovered
    <3>6. CASE RequestPlan \/ PlanOnly \/ PlanToExecute \/ Send \/ Succeed \/ Fail
      BY <3>6 DEF RequestPlan, PlanOnly, PlanToExecute, Send, Succeed, Fail, Answered,
                  Discovered
    <3>7. CASE \E exception \in BOOLEAN : ExecutionEnds(exception)
      BY <3>7 DEF ExecutionEnds
    <3>8. CASE Tick \/ UNCHANGED vars
      BY <3>1, <3>8 DEF Tick, vars
    <3>9. CASE \E k \in Kinds, stamp \in 0..(now + 1), sound \in BOOLEAN :
                 Receive(k, stamp, sound)
      BY <3>1, <3>9 DEF Receive
    <3> QED
      BY <3>4, <3>5, <3>6, <3>7, <3>8, <3>9 DEF Next
  <2>2. pc \in Pcs /\ raised \in BOOLEAN
    BY DEF TransportInv, TypeOK
  <2>3. \/ RunStage = "before" /\ to = "planning"
        \/ RunStage = "planning" /\ to \in {"plan_only_validated", "validated"}
        \/ RunStage = "validated" /\ to = "executing"
        \/ RunStage = "executing" /\ to \in {"ended", "failing"}
        \/ RunStage = "ended" /\ to = "execution_succeeded"
        \/ RunStage \in {"before"} \cup Run!UnderWay /\ to = "failed"
    BY <2>1, <2>2 DEF RunStage, Pcs, Run!UnderWay
  <2>4. St["run"] = RunStage /\ St' = [St EXCEPT !["run"] = to]
    OBVIOUS
  <2>5. \A from : RunStage \in from => Run!Moves("run", from, to)
    BY <2>4 DEF Run!Moves, Run!Alone
  <2> HIDE DEF to
  <2>6. \/ Run!Plan("run") \/ Run!PlanOnly("run") \/ Run!Validate("run")
        \/ Run!Execute("run") \/ Run!EndWell("run") \/ Run!Succeed("run")
        \/ Run!GoWrong("run") \/ Run!Fail("run")
    BY <2>3, <2>5
       DEF Run!Plan, Run!PlanOnly, Run!Validate, Run!Execute, Run!EndWell,
           Run!Succeed, Run!GoWrong, Run!Fail, Run!UnderWay
  <2> QED
    BY <2>6 DEF Run!Next
<1> QED
  BY <1>1, <1>2

(***************************************************************************)
(* The run implements TargetRun whatever telemetry it hears and whenever:  *)
(* no trajectory before a validated plan, and no success of a run that an  *)
(* exception has left.                                                     *)
(***************************************************************************)
THEOREM ImplementsTargetRun == Spec => RunsSpec
  BY TransportInvariant, RunInit, RunStep, PTL DEF Spec, RunsSpec, Run!Spec
=============================================================================
