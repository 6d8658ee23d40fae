--------------------- MODULE StreamingControllerProofs ---------------------
(***************************************************************************)
(* Proofs about StreamingController, for any number of targets and of      *)
(* activations: IInv is inductive, the safety properties follow from it,   *)
(* and the controller implements TargetRegister.  There is one lemma for   *)
(* each conjunct of IInv, with one case for each action.                   *)
(***************************************************************************)
EXTENDS StreamingController, TLAPS

(* IInv holds initially: nothing has been sent, accepted or activated. *)
LEMMA InitInv == Init => IInv
<1> SUFFICES ASSUME Init PROVE IInv
  OBVIOUS
<1> USE BoundsAssumption DEF Init, Hold, Idle, Targets, Activations
<1>1. TypeOK
  <2>1. Hold(0) \in Command
    BY DEF Command
  <2>2. Idle \in [pc : CallbackPcs, cmd : Command]
    BY <2>1 DEF CallbackPcs
  <2>3. 0 \in Targets /\ 0 \in Activations
    OBVIOUS
  <2> HIDE DEF Hold, Idle, Targets, Activations
  <2> QED
    BY <2>1, <2>2, <2>3 DEF TypeOK, Lifecycle
<1>2. AcceptInv
  BY DEF AcceptInv, Commanding, Activating
<1>3. ArrivalInv /\ SequenceInv
  BY DEF ArrivalInv, SequenceInv, Handed, Carrying, Commanding
<1>4. YoungerInv /\ LabelInv
  BY DEF YoungerInv, LabelInv, Handed, Carrying, Commanding
<1>5. OwnInv
  BY DEF OwnInv, Commanding, Activating
<1> QED
  BY <1>1, <1>2, <1>3, <1>4, <1>5 DEF IInv

(* Every step keeps the types: sequence numbers never outrun the messages
   received, so next_sequence_ stays within the bound. *)
LEMMA TypeOKStep == IInv /\ [Next]_vars => TypeOK'
<1> SUFFICES ASSUME TypeOK, AcceptInv, ArrivalInv, [Next]_vars PROVE TypeOK'
  BY DEF IInv
<1> USE BoundsAssumption DEF TypeOK, AcceptInv, ArrivalInv, Hold, Idle, Command, Targets, Activations, Lifecycle, CallbackPcs
<1>1. CASE OnConfigure
  <2>1. accept' \in BOOLEAN
    BY <1>1, Zenon DEF OnConfigure
  <2>2. nextSeq' \in Targets /\ lastApplied' \in Targets /\ life' \in Lifecycle
    BY <1>1 DEF OnConfigure
  <2> QED
    BY <1>1, <2>1, <2>2 DEF OnConfigure
<1>2. CASE OnCleanup
  BY <1>2 DEF OnCleanup
<1>3. CASE OnDeactivate
  BY <1>3 DEF OnDeactivate
<1>4. CASE ActivateRefused
  <2>1. Hold(activation) \in Command
    OBVIOUS
  <2>2. desired' \in Command
    BY <1>4, <2>1 DEF ActivateRefused
  <2> QED
    BY <1>4, <2>2 DEF ActivateRefused
<1>5. CASE ActivateStore
  <2>1. activation' \in Activations
    BY <1>5 DEF ActivateStore
  <2>2. desired' \in Command
    BY <1>5, <2>1 DEF ActivateStore
  <2> QED
    BY <1>5, <2>1, <2>2 DEF ActivateStore
<1>6. CASE ActivateHold
  BY <1>6 DEF ActivateHold
<1>7. CASE ActivateReset
  BY <1>7 DEF ActivateReset
<1>8. CASE ActivateCommand
  BY <1>8 DEF ActivateCommand
<1>9. CASE Update
  BY <1>9 DEF Update, UpdateTo, ReadFromRT, Contended, Install
<1>10. CASE UpdateError
  BY <1>10 DEF UpdateError, UpdateTo, ReadFromRT, Contended, Install
<1>11. CASE UpdateNoState
  BY <1>11 DEF UpdateNoState
<1>12. CASE CallbackEnter
  BY <1>12 DEF CallbackEnter, Subscribed
<1>13. CASE CallbackReject
  BY <1>13 DEF CallbackReject
<1>14. CASE CallbackCheck
  BY <1>14 DEF CallbackCheck
<1>15. CASE CallbackSequence
  BY <1>15 DEF CallbackSequence
<1>16. CASE CallbackWrite
  BY <1>16 DEF CallbackWrite
<1>17. CASE UNCHANGED vars
  BY <1>17 DEF vars
<1> QED
  BY <1>1, <1>2, <1>3, <1>4, <1>5, <1>6, <1>7, <1>8, <1>9, <1>10, <1>11, <1>12, <1>13, <1>14, <1>15, <1>16, <1>17 DEF Next, Lifecycles, RealTime, Callback

(* Every step keeps accept_commands_ in agreement with the lifecycle. *)
LEMMA AcceptInvStep == IInv /\ [Next]_vars => AcceptInv'
<1> SUFFICES ASSUME TypeOK, AcceptInv, [Next]_vars PROVE AcceptInv'
  BY DEF IInv
<1> USE BoundsAssumption DEF TypeOK, AcceptInv, Commanding, Activating, Hold, Activations
<1>1. CASE OnConfigure
  BY <1>1 DEF OnConfigure
<1>2. CASE OnCleanup
  BY <1>2 DEF OnCleanup
<1>3. CASE OnDeactivate
  BY <1>3 DEF OnDeactivate
<1>4. CASE ActivateRefused
  BY <1>4 DEF ActivateRefused
<1>5. CASE ActivateStore
  BY <1>5 DEF ActivateStore
<1>6. CASE ActivateHold
  BY <1>6 DEF ActivateHold
<1>7. CASE ActivateReset
  BY <1>7 DEF ActivateReset
<1>8. CASE ActivateCommand
  <2>1. CASE life' = "active" /\ accept' = TRUE /\ UNCHANGED coreActive
    <3>1. accept' /\ Commanding'
      BY <2>1
    <3>2. desired = Hold(activation) /\ coreActive /\ activation > 0
      BY <1>8 DEF ActivateCommand
    <3> QED
      BY <1>8, <2>1, <3>1, <3>2 DEF ActivateCommand
  <2>2. CASE life' = "finalized" /\ coreActive' = FALSE /\ UNCHANGED accept
    BY <1>8, <2>2 DEF ActivateCommand
  <2> QED
    BY <1>8, <2>1, <2>2 DEF ActivateCommand
<1>9. CASE Update
  BY <1>9 DEF Update, UpdateTo, ReadFromRT, Contended, Install
<1>10. CASE UpdateError
  BY <1>10 DEF UpdateError, UpdateTo, ReadFromRT, Contended, Install
<1>11. CASE UpdateNoState
  BY <1>11 DEF UpdateNoState
<1>12. CASE CallbackEnter
  BY <1>12 DEF CallbackEnter, Subscribed
<1>13. CASE CallbackReject
  BY <1>13 DEF CallbackReject
<1>14. CASE CallbackCheck
  BY <1>14 DEF CallbackCheck
<1>15. CASE CallbackSequence
  BY <1>15 DEF CallbackSequence
<1>16. CASE CallbackWrite
  BY <1>16 DEF CallbackWrite
<1>17. CASE UNCHANGED vars
  BY <1>17 DEF vars
<1> QED
  BY <1>1, <1>2, <1>3, <1>4, <1>5, <1>6, <1>7, <1>8, <1>9, <1>10, <1>11, <1>12, <1>13, <1>14, <1>15, <1>16, <1>17 DEF Next, Lifecycles, RealTime, Callback

(* Every step keeps the callback's message newer than all it handed over. *)
LEMMA ArrivalInvStep == IInv /\ [Next]_vars => ArrivalInv'
<1> SUFFICES ASSUME TypeOK, ArrivalInv, [Next]_vars PROVE ArrivalInv'
  BY DEF IInv
<1> USE BoundsAssumption DEF TypeOK, ArrivalInv, Handed, Carrying, Hold, Idle, Command, Targets, CallbackPcs
<1>1. CASE OnConfigure
  BY <1>1 DEF OnConfigure
<1>2. CASE OnCleanup
  BY <1>2 DEF OnCleanup
<1>3. CASE OnDeactivate
  BY <1>3 DEF OnDeactivate
<1>4. CASE ActivateRefused
  BY <1>4 DEF ActivateRefused
<1>5. CASE ActivateStore
  BY <1>5 DEF ActivateStore
<1>6. CASE ActivateHold
  BY <1>6 DEF ActivateHold
<1>7. CASE ActivateReset
  BY <1>7 DEF ActivateReset
<1>8. CASE ActivateCommand
  BY <1>8 DEF ActivateCommand
<1>9. CASE Update
  BY <1>9 DEF Update, UpdateTo, ReadFromRT, Contended, Install
<1>10. CASE UpdateError
  BY <1>10 DEF UpdateError, UpdateTo, ReadFromRT, Contended, Install
<1>11. CASE UpdateNoState
  BY <1>11 DEF UpdateNoState
<1>12. CASE CallbackEnter
  BY <1>12 DEF CallbackEnter, Subscribed
<1>13. CASE CallbackReject
  BY <1>13 DEF CallbackReject
<1>14. CASE CallbackCheck
  BY <1>14 DEF CallbackCheck
<1>15. CASE CallbackSequence
  BY <1>15 DEF CallbackSequence
<1>16. CASE CallbackWrite
  BY <1>16 DEF CallbackWrite
<1>17. CASE UNCHANGED vars
  BY <1>17 DEF vars
<1> QED
  BY <1>1, <1>2, <1>3, <1>4, <1>5, <1>6, <1>7, <1>8, <1>9, <1>10, <1>11, <1>12, <1>13, <1>14, <1>15, <1>16, <1>17 DEF Next, Lifecycles, RealTime, Callback

(* Every step keeps sequence 0 for holds, and last_applied_sequence_ equal to
   the sequence of the equilibrium. *)
LEMMA SequenceInvStep == IInv /\ [Next]_vars => SequenceInv'
<1> SUFFICES ASSUME TypeOK, AcceptInv, ArrivalInv, SequenceInv, [Next]_vars
             PROVE  SequenceInv'
  BY DEF IInv
<1> USE BoundsAssumption DEF TypeOK, AcceptInv, ArrivalInv, SequenceInv, Handed, Carrying, Hold, Idle, Command, Targets, Commanding, Activating, CallbackPcs
<1>1. CASE OnConfigure
  BY <1>1 DEF OnConfigure
<1>2. CASE OnCleanup
  BY <1>2 DEF OnCleanup
<1>3. CASE OnDeactivate
  BY <1>3 DEF OnDeactivate
<1>4. CASE ActivateRefused
  BY <1>4 DEF ActivateRefused
<1>5. CASE ActivateStore
  BY <1>5 DEF ActivateStore
<1>6. CASE ActivateHold
  BY <1>6 DEF ActivateHold
<1>7. CASE ActivateReset
  BY <1>7 DEF ActivateReset
<1>8. CASE ActivateCommand
  BY <1>8 DEF ActivateCommand
<1>9. CASE Update
  BY <1>9 DEF Update, UpdateTo, ReadFromRT, Contended, Install
<1>10. CASE UpdateError
  BY <1>10 DEF UpdateError, UpdateTo, ReadFromRT, Contended, Install
<1>11. CASE UpdateNoState
  BY <1>11 DEF UpdateNoState
<1>12. CASE CallbackEnter
  BY <1>12 DEF CallbackEnter, Subscribed
<1>13. CASE CallbackReject
  BY <1>13 DEF CallbackReject
<1>14. CASE CallbackCheck
  BY <1>14 DEF CallbackCheck
<1>15. CASE CallbackSequence
  BY <1>15 DEF CallbackSequence
<1>16. CASE CallbackWrite
  <2>1. buf'.msg = cb.cmd.msg /\ buf'.seq = cb.cmd.seq
    BY <1>16 DEF CallbackWrite
  <2> QED
    BY <1>16, <2>1 DEF CallbackWrite
<1>17. CASE UNCHANGED vars
  BY <1>17 DEF vars
<1> QED
  BY <1>1, <1>2, <1>3, <1>4, <1>5, <1>6, <1>7, <1>8, <1>9, <1>10, <1>11, <1>12, <1>13, <1>14, <1>15, <1>16, <1>17 DEF Next, Lifecycles, RealTime, Callback

(* Every step keeps buffered data younger than the equilibrium. *)
LEMMA YoungerInvStep == IInv /\ [Next]_vars => YoungerInv'
<1> SUFFICES ASSUME TypeOK, AcceptInv, ArrivalInv, SequenceInv, YoungerInv, [Next]_vars PROVE YoungerInv'
  BY DEF IInv
<1> USE BoundsAssumption DEF TypeOK, AcceptInv, ArrivalInv, SequenceInv, YoungerInv, Handed, Hold, Command, Targets, Commanding, Activating, CallbackPcs
<1>1. CASE OnConfigure
  BY <1>1 DEF OnConfigure
<1>2. CASE OnCleanup
  BY <1>2 DEF OnCleanup
<1>3. CASE OnDeactivate
  BY <1>3 DEF OnDeactivate
<1>4. CASE ActivateRefused
  BY <1>4 DEF ActivateRefused
<1>5. CASE ActivateStore
  BY <1>5 DEF ActivateStore
<1>6. CASE ActivateHold
  BY <1>6 DEF ActivateHold
<1>7. CASE ActivateReset
  BY <1>7 DEF ActivateReset
<1>8. CASE ActivateCommand
  BY <1>8 DEF ActivateCommand
<1>9. CASE Update
  BY <1>9 DEF Update, UpdateTo, ReadFromRT, Contended, Install
<1>10. CASE UpdateError
  BY <1>10 DEF UpdateError, UpdateTo, ReadFromRT, Contended, Install
<1>11. CASE UpdateNoState
  BY <1>11 DEF UpdateNoState
<1>12. CASE CallbackEnter
  BY <1>12 DEF CallbackEnter, Subscribed
<1>13. CASE CallbackReject
  BY <1>13 DEF CallbackReject
<1>14. CASE CallbackCheck
  BY <1>14 DEF CallbackCheck
<1>15. CASE CallbackSequence
  BY <1>15 DEF CallbackSequence
<1>16. CASE CallbackWrite
  BY <1>16 DEF CallbackWrite
<1>17. CASE UNCHANGED vars
  BY <1>17 DEF vars
<1> QED
  BY <1>1, <1>2, <1>3, <1>4, <1>5, <1>6, <1>7, <1>8, <1>9, <1>10, <1>11, <1>12, <1>13, <1>14, <1>15, <1>16, <1>17 DEF Next, Lifecycles, RealTime, Callback

(* Every step keeps the order of the activations a command has seen. *)
LEMMA LabelInvStep == IInv /\ [Next]_vars => LabelInv'
<1> SUFFICES ASSUME TypeOK, LabelInv, [Next]_vars PROVE LabelInv'
  BY DEF IInv
<1> USE BoundsAssumption DEF TypeOK, LabelInv, Handed, Carrying, Hold, Idle, Command, Targets, Activations, CallbackPcs
<1>1. CASE OnConfigure
  BY <1>1 DEF OnConfigure
<1>2. CASE OnCleanup
  BY <1>2 DEF OnCleanup
<1>3. CASE OnDeactivate
  BY <1>3 DEF OnDeactivate
<1>4. CASE ActivateRefused
  BY <1>4 DEF ActivateRefused
<1>5. CASE ActivateStore
  BY <1>5 DEF ActivateStore
<1>6. CASE ActivateHold
  BY <1>6 DEF ActivateHold
<1>7. CASE ActivateReset
  BY <1>7 DEF ActivateReset
<1>8. CASE ActivateCommand
  BY <1>8 DEF ActivateCommand
<1>9. CASE Update
  BY <1>9 DEF Update, UpdateTo, ReadFromRT, Contended, Install
<1>10. CASE UpdateError
  BY <1>10 DEF UpdateError, UpdateTo, ReadFromRT, Contended, Install
<1>11. CASE UpdateNoState
  BY <1>11 DEF UpdateNoState
<1>12. CASE CallbackEnter
  BY <1>12 DEF CallbackEnter, Subscribed
<1>13. CASE CallbackReject
  BY <1>13 DEF CallbackReject
<1>14. CASE CallbackCheck
  BY <1>14 DEF CallbackCheck
<1>15. CASE CallbackSequence
  BY <1>15 DEF CallbackSequence
<1>16. CASE CallbackWrite
  BY <1>16 DEF CallbackWrite
<1>17. CASE UNCHANGED vars
  BY <1>17 DEF vars
<1> QED
  BY <1>1, <1>2, <1>3, <1>4, <1>5, <1>6, <1>7, <1>8, <1>9, <1>10, <1>11, <1>12, <1>13, <1>14, <1>15, <1>16, <1>17 DEF Next, Lifecycles, RealTime, Callback

(* Every step keeps this activation's sequence numbers in order. *)
LEMMA OwnInvStep == IInv /\ [Next]_vars => OwnInv'
<1> SUFFICES ASSUME TypeOK, AcceptInv, ArrivalInv, SequenceInv, YoungerInv, LabelInv, OwnInv, [Next]_vars PROVE OwnInv'
  BY DEF IInv
<1> USE BoundsAssumption DEF TypeOK, AcceptInv, ArrivalInv, SequenceInv, YoungerInv, LabelInv, OwnInv, Own, Handed, Carrying, Hold, Idle, Command, Targets, Activations, Commanding, Activating, CallbackPcs
<1>1. CASE OnConfigure
  BY <1>1 DEF OnConfigure
<1>2. CASE OnCleanup
  BY <1>2 DEF OnCleanup
<1>3. CASE OnDeactivate
  BY <1>3 DEF OnDeactivate
<1>4. CASE ActivateRefused
  BY <1>4 DEF ActivateRefused
<1>5. CASE ActivateStore
  BY <1>5 DEF ActivateStore
<1>6. CASE ActivateHold
  BY <1>6 DEF ActivateHold
<1>7. CASE ActivateReset
  BY <1>7 DEF ActivateReset
<1>8. CASE ActivateCommand
  BY <1>8 DEF ActivateCommand
<1>9. CASE Update
  <2> USE <1>9 DEF Update, UpdateTo, ReadFromRT, Contended, Install
  <2>1. Commanding /\ Commanding' /\ UNCHANGED <<activation, nextSeq, buf, cb>>
    OBVIOUS
  <2>2. CASE rtBuf' = buf /\ fresh /\ ~fresh'
    <3>1. CASE buf.seq > lastApplied
      BY <2>1, <2>2, <3>1
    <3>2. CASE ~(buf.seq > lastApplied)
      BY <2>1, <2>2, <3>2
    <3> QED
      BY <3>1, <3>2
  <2>3. CASE UNCHANGED <<rtBuf, fresh>>
    <3>1. CASE rtBuf.seq > lastApplied
      BY <2>1, <2>3, <3>1
    <3>2. CASE ~(rtBuf.seq > lastApplied)
      BY <2>1, <2>3, <3>2
    <3> QED
      BY <3>1, <3>2
  <2> QED
    BY <2>2, <2>3
<1>10. CASE UpdateError
  <2> USE <1>10 DEF UpdateError, UpdateTo, ReadFromRT, Contended, Install
  <2>1. Commanding /\ Commanding' /\ UNCHANGED <<activation, nextSeq, buf, cb>>
    OBVIOUS
  <2>2. CASE rtBuf' = buf /\ fresh /\ ~fresh'
    <3>1. CASE buf.seq > lastApplied
      BY <2>1, <2>2, <3>1
    <3>2. CASE ~(buf.seq > lastApplied)
      BY <2>1, <2>2, <3>2
    <3> QED
      BY <3>1, <3>2
  <2>3. CASE UNCHANGED <<rtBuf, fresh>>
    <3>1. CASE rtBuf.seq > lastApplied
      BY <2>1, <2>3, <3>1
    <3>2. CASE ~(rtBuf.seq > lastApplied)
      BY <2>1, <2>3, <3>2
    <3> QED
      BY <3>1, <3>2
  <2> QED
    BY <2>2, <2>3
<1>11. CASE UpdateNoState
  BY <1>11 DEF UpdateNoState
<1>12. CASE CallbackEnter
  BY <1>12 DEF CallbackEnter, Subscribed
<1>13. CASE CallbackReject
  BY <1>13 DEF CallbackReject
<1>14. CASE CallbackCheck
  BY <1>14 DEF CallbackCheck
<1>15. CASE CallbackSequence
  BY <1>15 DEF CallbackSequence
<1>16. CASE CallbackWrite
  BY <1>16 DEF CallbackWrite
<1>17. CASE UNCHANGED vars
  BY <1>17 DEF vars
<1> QED
  BY <1>1, <1>2, <1>3, <1>4, <1>5, <1>6, <1>7, <1>8, <1>9, <1>10, <1>11, <1>12, <1>13, <1>14, <1>15, <1>16, <1>17 DEF Next, Lifecycles, RealTime, Callback

(* IInv is inductive. *)
LEMMA StepInv == IInv /\ [Next]_vars => IInv'
  BY TypeOKStep, AcceptInvStep, ArrivalInvStep, SequenceInvStep, YoungerInvStep,
     LabelInvStep, OwnInvStep DEF IInv

(* The inductive invariant holds throughout every behaviour. *)
THEOREM InductiveInvariant == Spec => []IInv
  BY InitInv, StepInv, PTL DEF Spec

(* Every variable keeps its type, whatever the callback races with. *)
THEOREM TypeCorrect == Spec => []TypeOK
<1>1. IInv => TypeOK
  BY DEF IInv
<1> QED
  BY InductiveInvariant, <1>1, PTL

(* A target labelled with the activation that installs it was accepted and
   buffered in that activation. *)
THEOREM LabelsAreSound == Spec => []LabelSound
<1>1. IInv => LabelSound
  BY DEF IInv, TypeOK, LabelInv, LabelSound, Handed, Command, Activations
<1> QED
  BY InductiveInvariant, <1>1, PTL

(* Telemetry reports sequence 0 exactly while the activation pose is held. *)
THEOREM TelemetryIsTruthful == Spec => []TelemetryTruthful
<1>1. IInv => TelemetryTruthful
  BY DEF IInv, SequenceInv, TelemetryTruthful, Running, Commanding, Handed
<1> QED
  BY InductiveInvariant, <1>1, PTL

(* A target of this activation that was read is in force, unless this
   activation has installed a target of an earlier one. *)
THEOREM StarvationLeavesATrace == Spec => []StarvationIsVisible
<1>1. IInv => StarvationIsVisible
  BY DEF IInv, OwnInv, Own, StarvationIsVisible, Running, Commanding
<1> QED
  BY InductiveInvariant, <1>1, PTL

(* The initial states are the register's: nothing runs, nothing is taken. *)
LEMMA RegisterInit == Init => Register!Init
  BY DEF Init, Register!Init, Commanding

(* Every step is a step of the register or leaves it alone. *)
LEMMA RegisterStep == IInv /\ [Next]_vars => [Register!Next]_Register!vars
<1> SUFFICES ASSUME IInv, [Next]_vars
             PROVE  [Register!Next]_Register!vars
  OBVIOUS
<1> DEFINE T == IF Commanding THEN desired.msg ELSE 0
<1> USE DEF Register!vars, Commanding
<1>1. CASE OnConfigure \/ OnCleanup \/ ActivateRefused \/ ActivateStore
           \/ ActivateHold \/ ActivateReset
  BY <1>1 DEF OnConfigure, OnCleanup, ActivateRefused, ActivateStore,
     ActivateHold, ActivateReset
<1>2. CASE OnDeactivate
  BY <1>2 DEF OnDeactivate, Register!Next, Register!Stop
<1>3. CASE ActivateCommand
  <2>1. T' = 0
    BY <1>3 DEF ActivateCommand, IInv, AcceptInv, Activating, Hold
  <2> QED
    BY <1>3, <2>1 DEF ActivateCommand, Register!Next, Register!Start
<1>4. CASE Update \/ UpdateError
  <2>1. Commanding /\ Commanding' /\ UNCHANGED accepted
    BY <1>4 DEF Update, UpdateError, UpdateTo
  <2>2. CASE UNCHANGED desired
    BY <2>1, <2>2
  <2>3. CASE desired' = rtBuf' /\ rtBuf'.seq > lastApplied
    <3>1. rtBuf' \in {buf, rtBuf} /\ ((rtBuf' = buf /\ fresh) \/ rtBuf' = rtBuf)
      BY <1>4 DEF Update, UpdateError, UpdateTo, ReadFromRT
    <3>2. rtBuf'.msg \in accepted /\ rtBuf'.msg \in 1..MaxTargets
      BY <2>3, <3>1, BoundsAssumption
         DEF IInv, TypeOK, ArrivalInv, SequenceInv, Handed, Command, Targets
    <3>3. rtBuf'.msg > desired.msg
      BY <2>1, <2>3, <3>1, <3>2
         DEF IInv, TypeOK, SequenceInv, YoungerInv, Handed, Command, Targets
    <3>4. Register!Apply(rtBuf'.msg)
      BY <2>1, <2>3, <3>2, <3>3 DEF Register!Apply
    <3> QED
      BY <3>2, <3>4 DEF Register!Next
  <2> QED
    BY <1>4, <2>2, <2>3 DEF Update, UpdateError, UpdateTo, Install
<1>5. CASE UpdateNoState
  BY <1>5 DEF UpdateNoState
<1>6. CASE CallbackCheck
  <2>1. cb.cmd.msg = received /\ received \in 1..MaxTargets
    BY <1>6 DEF CallbackCheck, IInv, TypeOK, ArrivalInv, Targets
  <2>2. \A t \in accepted : t < received
    BY <1>6, <2>1 DEF CallbackCheck, IInv, TypeOK, ArrivalInv, Targets
  <2>3. Register!Take(received)
    BY <1>6, <2>1, <2>2 DEF CallbackCheck, Register!Take, IInv, AcceptInv
  <2> QED
    BY <2>1, <2>3 DEF Register!Next
<1>7. CASE CallbackEnter \/ CallbackReject \/ CallbackSequence \/ CallbackWrite
  BY <1>7 DEF CallbackEnter, CallbackReject, CallbackSequence, CallbackWrite
<1>8. CASE UNCHANGED vars
  BY <1>8 DEF vars
<1> QED
  BY <1>1, <1>2, <1>3, <1>4, <1>5, <1>6, <1>7, <1>8
     DEF Next, Lifecycles, RealTime, Callback

(* The controller implements the register it promises to its clients. *)
THEOREM ImplementsRegister == Spec => RegisterSpec
  BY InductiveInvariant, RegisterInit, RegisterStep, PTL
     DEF Spec, RegisterSpec, Register!Spec

(***************************************************************************)
(* An arm that is moved by a target of before its activation is a known    *)
(* case: the sample that installed it names two activations.               *)
(***************************************************************************)
THEOREM OldTargetsAreTold == Spec => []OldTargetsShow
<1>1. IInv => OldTargetsShow
  <2> SUFFICES ASSUME IInv, Commanding, desired.msg # 0,
                      desired.wrote # activation
               PROVE  foreign /\ desired.act < activation
    BY DEF OldTargetsShow
  <2>1. /\ desired.act <= desired.checked /\ desired.checked <= desired.wrote
        /\ desired.wrote <= activation
    BY DEF IInv, LabelInv, Handed
  <2>2. desired \in Command /\ activation \in Nat /\ foreign \in BOOLEAN
    BY DEF IInv, TypeOK, Activations
  <2>3. desired.act < activation
    BY <2>1, <2>2 DEF Command, Activations
  <2>4. ~Own(desired)
    BY <2>2, <2>3 DEF Own, Command, Activations
  <2> QED
    BY <2>2, <2>3, <2>4 DEF IInv, OwnInv
<1> QED
  BY <1>1, InductiveInvariant, PTL
=============================================================================
