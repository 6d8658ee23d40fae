------------------------ MODULE StreamingController ------------------------
(***************************************************************************)
(* The streaming joint impedance controller as its threads see it.         *)
(*                                                                         *)
(*  - The real-time thread runs on_activate, update and on_deactivate.     *)
(*    Only its accesses to state shared with the target callback are       *)
(*    steps of their own; what it does between two of them is private.     *)
(*  - The executor thread runs target_callback, one message at a time      *)
(*    (default callback group), broken at every atomic or mutex it uses.   *)
(*  - The controller manager drives the lifecycle (external).              *)
(*                                                                         *)
(* Targets are numbered by arrival: 1, 2, 3, ...  Target 0 stands for the  *)
(* pose measured at activation.  activation_ is a clock reading unique to  *)
(* each activation, so it is modelled by the activation's number.          *)
(***************************************************************************)
EXTENDS Naturals

CONSTANTS
  MaxTargets,      \* bound: messages delivered to target_callback
  MaxActivations   \* bound: successful passes through activation_.store

ASSUME BoundsAssumption == MaxTargets \in Nat /\ MaxActivations \in Nat

VARIABLES
  life,            \* lifecycle state, and the position inside on_activate
  coreActive,      \* core_.active_
  desired,         \* the command whose q is in core_.desired_q_
  lastApplied,     \* last_applied_sequence_
  activation,      \* activation_
  accept,          \* accept_commands_
  nextSeq,         \* next_sequence_
  buf,             \* target_buffer_: the slot written by the non-RT side
  fresh,           \* target_buffer_: new_data_available_
  rtBuf,           \* target_buffer_: the slot read by the RT side
  cb,              \* the callback in flight: its position and its command
  received,        \* messages taken from the subscription so far
  accepted,        \* history: targets that passed every check of a callback
  foreign          \* history: this activation installed another one's target

vars == <<life, coreActive, desired, lastApplied, activation, accept, nextSeq,
          buf, fresh, rtBuf, cb, received, accepted, foreign>>

Targets == 0..MaxTargets
Activations == 0..MaxActivations

Lifecycle == {"unconfigured", "inactive", "act_hold", "act_reset",
              "act_command", "active", "failed", "misconfigured", "finalized"}

CallbackPcs == {"idle", "check", "sequence", "write"}

(***************************************************************************)
(* A TargetCommand.  act is the activation the callback loaded when it was *)
(* entered; checked and wrote are history: the activation current when     *)
(* accept_commands_ was found true and when the buffer was written.        *)
(***************************************************************************)
Command == [msg : Targets, seq : Targets, act : Activations,
            checked : Activations, wrote : Activations]

Hold(a) == [msg |-> 0, seq |-> 0, act |-> 0, checked |-> a, wrote |-> a]

Idle == [pc |-> "idle", cmd |-> Hold(0)]

TypeOK ==
  /\ life \in Lifecycle
  /\ coreActive \in BOOLEAN
  /\ desired \in Command
  /\ lastApplied \in Targets
  /\ activation \in Activations
  /\ accept \in BOOLEAN
  /\ nextSeq \in Targets
  /\ buf \in Command
  /\ fresh \in BOOLEAN
  /\ rtBuf \in Command
  /\ cb \in [pc : CallbackPcs, cmd : Command]
  /\ received \in Targets
  /\ accepted \subseteq Targets
  /\ foreign \in BOOLEAN

Init ==
  /\ life = "unconfigured"
  /\ coreActive = FALSE
  /\ desired = Hold(0)
  /\ lastApplied = 0
  /\ activation = 0
  /\ accept = FALSE
  /\ nextSeq = 0
  /\ buf = Hold(0)
  /\ fresh = FALSE
  /\ rtBuf = Hold(0)
  /\ cb = Idle
  /\ received = 0
  /\ accepted = {}
  /\ foreign = FALSE

-----------------------------------------------------------------------------
(* The lifecycle. *)

\* on_configure creates the subscription and resets the command bookkeeping.
\* A bad parameter is an ERROR before that: the node has no on_error, so it is
\* finalized (an on_activate that fails ends there too, but with a subscription).
OnConfigure ==
  /\ life = "unconfigured"
  /\ \/ /\ life' = "inactive"
        /\ accept' = FALSE
        /\ nextSeq' = 0
        /\ lastApplied' = 0
     \/ /\ life' = "misconfigured"
        /\ UNCHANGED <<accept, nextSeq, lastApplied>>
  /\ UNCHANGED <<coreActive, desired, activation, buf, fresh, rtBuf, cb,
                 received, accepted, foreign>>

\* on_cleanup drops the subscription; a callback already running goes on.
OnCleanup ==
  /\ life = "inactive"
  /\ life' = "unconfigured"
  /\ accept' = FALSE
  /\ coreActive' = FALSE
  /\ UNCHANGED <<desired, lastApplied, activation, nextSeq, buf, fresh, rtBuf,
                 cb, received, accepted, foreign>>

\* on_activate gives up before activation_.store: the joint state or the
\* robot model is unusable, the latter after core_.activate(q).
ActivateRefused ==
  /\ life = "inactive"
  /\ life' = "finalized"
  /\ coreActive' = FALSE
  /\ desired' \in {desired, Hold(activation)}
  /\ UNCHANGED <<lastApplied, activation, accept, nextSeq, buf, fresh, rtBuf, cb,
                 received, accepted, foreign>>

\* core_.activate(q), then activation_.store.
ActivateStore ==
  /\ life = "inactive"
  /\ activation < MaxActivations
  /\ life' = "act_hold"
  /\ coreActive' = TRUE
  /\ activation' = activation + 1
  /\ desired' = Hold(activation')
  /\ foreign' = FALSE
  /\ UNCHANGED <<lastApplied, accept, nextSeq, buf, fresh, rtBuf, cb, received,
                 accepted>>

\* target_buffer_.writeFromNonRT(initial_hold).
ActivateHold ==
  /\ life = "act_hold"
  /\ life' = "act_reset"
  /\ buf' = Hold(activation)
  /\ fresh' = TRUE
  /\ UNCHANGED <<coreActive, desired, lastApplied, activation, accept, nextSeq,
                 rtBuf, cb, received, accepted, foreign>>

\* Mutant: last_applied_sequence_ survives from the activation before.
ActivateResetKeepsApplied ==
  /\ life = "act_reset"
  /\ life' = "act_command"
  /\ nextSeq' = 0
  /\ UNCHANGED <<coreActive, desired, lastApplied, activation, accept, buf,
                 fresh, rtBuf, cb, received, accepted, foreign>>

\* next_sequence_.store(0) and the RT-owned bookkeeping after it.
ActivateReset ==
  /\ life = "act_reset"
  /\ life' = "act_command"
  /\ nextSeq' = 0
  /\ lastApplied' = 0
  /\ UNCHANGED <<coreActive, desired, activation, accept, buf, fresh, rtBuf, cb,
                 received, accepted, foreign>>

\* Zero the effort interfaces, then accept_commands_.store(true).  An
\* interface that refuses the value fails the activation.
ActivateCommand ==
  /\ life = "act_command"
  /\ \/ /\ life' = "active"
        /\ accept' = TRUE
        /\ UNCHANGED coreActive
     \/ /\ life' = "finalized"
        /\ coreActive' = FALSE
        /\ UNCHANGED accept
  /\ UNCHANGED <<desired, lastApplied, activation, nextSeq, buf, fresh, rtBuf,
                 cb, received, accepted, foreign>>

\* Asked for by an operator, or by the controller manager after an ERROR.
OnDeactivate ==
  /\ life \in {"active", "failed"}
  /\ life' = "inactive"
  /\ accept' = FALSE
  /\ coreActive' = FALSE
  /\ UNCHANGED <<desired, lastApplied, activation, nextSeq, buf, fresh, rtBuf,
                 cb, received, accepted, foreign>>

-----------------------------------------------------------------------------
(* The real-time loop. *)

\* RealtimeBuffer::readFromRT.  It swaps the slots when there is new data and
\* it gets the mutex; while a callback is inside writeFromNonRT it does not
\* get it, and returns the command it returned last.
Contended == cb.pc = "write"

ReadFromRT ==
  \/ /\ fresh
     /\ rtBuf' = buf
     /\ fresh' = FALSE
  \/ /\ ~fresh \/ Contended
     /\ UNCHANGED <<rtBuf, fresh>>

\* Mutant: the sequence guard is gone.
InstallAlways(cmd) ==
  /\ desired' = cmd
  /\ lastApplied' = cmd.seq
  /\ foreign' = (foreign \/ cmd.act # activation)

\* timing::install: only a sequence newer than the last one applied.
Install(cmd) ==
  IF cmd.seq > lastApplied
  THEN /\ desired' = cmd
       /\ lastApplied' = cmd.seq
       /\ foreign' = (foreign \/ cmd.act # activation)
  ELSE UNCHANGED <<desired, lastApplied, foreign>>

\* One update that reads a valid joint state.  Everything after the
\* installation is private to the RT thread; any of it may return ERROR.
UpdateTo(result) ==
  /\ life = "active"
  /\ coreActive
  /\ ReadFromRT
  /\ Install(rtBuf')
  /\ life' = result
  /\ UNCHANGED <<coreActive, activation, accept, nextSeq, buf, cb, received,
                 accepted>>

Update == UpdateTo("active")

UpdateError == UpdateTo("failed")

\* read_joint_state fails: ERROR before the buffer is looked at.
UpdateNoState ==
  /\ life = "active"
  /\ life' = "failed"
  /\ UNCHANGED <<coreActive, desired, lastApplied, activation, accept, nextSeq,
                 buf, fresh, rtBuf, cb, received, accepted, foreign>>

-----------------------------------------------------------------------------
(* target_callback, on the executor thread. *)

Subscribed == life \notin {"unconfigured", "misconfigured"}

\* A message is taken and activation_ is loaded.
CallbackEnter ==
  /\ cb.pc = "idle"
  /\ Subscribed
  /\ received < MaxTargets
  /\ received' = received + 1
  /\ cb' = [pc |-> "check",
            cmd |-> [msg |-> received', seq |-> 0, act |-> activation,
                     checked |-> 0, wrote |-> 0]]
  /\ UNCHANGED <<life, coreActive, desired, lastApplied, activation, accept,
                 nextSeq, buf, fresh, rtBuf, accepted, foreign>>

\* accept_commands_ is false, or the message is malformed, unstamped or aged.
CallbackReject ==
  /\ cb.pc = "check"
  /\ cb' = Idle
  /\ UNCHANGED <<life, coreActive, desired, lastApplied, activation, accept,
                 nextSeq, buf, fresh, rtBuf, received, accepted, foreign>>

\* accept_commands_ is true and the message passes every check.
CallbackCheck ==
  /\ cb.pc = "check"
  /\ accept
  /\ cb' = [pc |-> "sequence", cmd |-> [cb.cmd EXCEPT !.checked = activation]]
  /\ accepted' = accepted \cup {cb.cmd.msg}
  /\ UNCHANGED <<life, coreActive, desired, lastApplied, activation, accept,
                 nextSeq, buf, fresh, rtBuf, received, foreign>>

\* Mutant: command.sequence = next_sequence_.fetch_add(1).
CallbackSequenceFromZero ==
  /\ cb.pc = "sequence"
  /\ nextSeq' = nextSeq + 1
  /\ cb' = [pc |-> "write", cmd |-> [cb.cmd EXCEPT !.seq = nextSeq]]
  /\ UNCHANGED <<life, coreActive, desired, lastApplied, activation, accept,
                 buf, fresh, rtBuf, received, accepted, foreign>>

\* Mutant: the counter is advanced for the command and again for its record.
CallbackSequenceTwice ==
  /\ cb.pc = "sequence"
  /\ nextSeq' = nextSeq + 2
  /\ cb' = [pc |-> "write", cmd |-> [cb.cmd EXCEPT !.seq = nextSeq']]
  /\ UNCHANGED <<life, coreActive, desired, lastApplied, activation, accept,
                 buf, fresh, rtBuf, received, accepted, foreign>>

\* next_sequence_.fetch_add(1) + 1.
CallbackSequence ==
  /\ cb.pc = "sequence"
  /\ nextSeq' = nextSeq + 1
  /\ cb' = [pc |-> "write", cmd |-> [cb.cmd EXCEPT !.seq = nextSeq']]
  /\ UNCHANGED <<life, coreActive, desired, lastApplied, activation, accept,
                 buf, fresh, rtBuf, received, accepted, foreign>>

\* Mutant: activation_ is loaded here and not when the callback is entered.
CallbackWriteLateLabel ==
  /\ cb.pc = "write"
  /\ buf' = [cb.cmd EXCEPT !.wrote = activation, !.act = activation]
  /\ fresh' = TRUE
  /\ cb' = Idle
  /\ UNCHANGED <<life, coreActive, desired, lastApplied, activation, accept,
                 nextSeq, rtBuf, received, accepted, foreign>>

\* target_buffer_.writeFromNonRT(command), and the callback returns.
CallbackWrite ==
  /\ cb.pc = "write"
  /\ buf' = [cb.cmd EXCEPT !.wrote = activation]
  /\ fresh' = TRUE
  /\ cb' = Idle
  /\ UNCHANGED <<life, coreActive, desired, lastApplied, activation, accept,
                 nextSeq, rtBuf, received, accepted, foreign>>

-----------------------------------------------------------------------------
Lifecycles ==
  \/ OnConfigure \/ OnCleanup \/ OnDeactivate
  \/ ActivateRefused \/ ActivateStore \/ ActivateHold \/ ActivateReset
  \/ ActivateCommand

RealTime == Update \/ UpdateError \/ UpdateNoState

Callback ==
  \/ CallbackEnter \/ CallbackReject \/ CallbackCheck \/ CallbackSequence
  \/ CallbackWrite

Next == Lifecycles \/ RealTime \/ Callback

\* The RT loop keeps cycling while the controller is active, and the executor
\* finishes the callback it has started.  Nobody owes a message, a switch or
\* an error.
Fairness == WF_vars(Update) /\ WF_vars(CallbackSequence \/ CallbackWrite)

Spec == Init /\ [][Next]_vars

FairSpec == Spec /\ Fairness

-----------------------------------------------------------------------------
(* Properties. *)

Running == life = "active"

\* An update that returned ERROR leaves its target in force until the
\* controller manager deactivates.
Commanding == life \in {"active", "failed"}

(***************************************************************************)
(* The controller implements the register it promises: within an           *)
(* activation the equilibrium only moves to later targets, each of them    *)
(* accepted while a controller was running, whatever the callback and the  *)
(* lifecycle interleave and however often target_buffer_ is stale.         *)
(***************************************************************************)
Register == INSTANCE TargetRegister WITH
  running <- Commanding,
  target <- IF Commanding THEN desired.msg ELSE 0,
  taken <- accepted

RegisterSpec == Register!Spec

(***************************************************************************)
(* The activation a sample is labelled with can be trusted: a target that  *)
(* carries the number of the activation that installs it was accepted and  *)
(* written in that activation, whatever activations its callback overlaps. *)
(* The timing analysis resolves applications on the strength of it.        *)
(***************************************************************************)
LabelSound ==
  desired.msg # 0 /\ desired.act = activation =>
    desired.checked = activation /\ desired.wrote = activation

(***************************************************************************)
(* Telemetry entry 37 tells hold from motion: an active controller reports *)
(* sequence 0 exactly while the equilibrium is the activation pose, also   *)
(* when callbacks race with the resets of on_activate.                     *)
(***************************************************************************)
TelemetryTruthful ==
  Running => (lastApplied = 0 <=> desired.msg = 0) /\ lastApplied = desired.seq

(***************************************************************************)
(* A target accepted in this activation and read by the RT loop is the     *)
(* equilibrium, unless a target of an earlier activation has been          *)
(* installed in this one (install has then labelled a sample with two      *)
(* different activations): starvation never goes unseen.                   *)
(***************************************************************************)
StarvationIsVisible ==
  Running /\ ~foreign /\ rtBuf.msg # 0 /\ rtBuf.act = activation =>
    desired.msg = rtBuf.msg

(***************************************************************************)
(* A target accepted by the activation it arrived in takes effect, or a    *)
(* younger one does, while that activation lasts: neither the try_lock of  *)
(* readFromRT, nor the single slot of the buffer, nor the sequence guard   *)
(* loses the last target sent.  The one excuse is a command of an earlier  *)
(* activation, whose sequence number starves the targets after it.         *)
(***************************************************************************)
TakesEffect ==
  \A m \in 1..MaxTargets :
    /\ Running
    /\ cb.pc = "sequence"
    /\ cb.cmd.msg = m
    /\ cb.cmd.act = activation
    ~> desired.msg >= m \/ ~Running \/ foreign

(***************************************************************************)
(* Claim of docs/joint_target_execution.md:370, "On activation it          *)
(* initializes `q_desired` from measured joint state and produces no       *)
(* internal motion": whatever replaces the activation pose was written by  *)
(* a callback during this activation.                                      *)
(***************************************************************************)
NoInternalMotion ==
  Running /\ desired.msg # 0 => desired.wrote = activation

(***************************************************************************)
(* What is left of that claim: a target that moves the arm although no     *)
(* callback of this activation wrote it was received before the activation *)
(* began and its label says so, so that the evidence gives it away.        *)
(***************************************************************************)
OldTargetsShow ==
  Commanding /\ desired.msg # 0 /\ desired.wrote # activation =>
    foreign /\ desired.act < activation

-----------------------------------------------------------------------------
(* The inductive invariant behind the safety properties. *)

\* Every target that reached the buffer or the core.
Handed == {buf, rtBuf, desired}

\* The callback has been given an accepted target to hand over.
Carrying == cb.pc \in {"sequence", "write"}

\* on_activate is under way.
Activating == life \in {"act_hold", "act_reset", "act_command"}

\* Commands are accepted exactly while the controller commands the arm.
AcceptInv ==
  /\ accept <=> Commanding
  /\ Commanding \/ Activating => coreActive /\ activation > 0
  /\ Activating => desired = Hold(activation)

\* The message in the callback is the last one received.  It is new to the
\* buffer and to the core, and accepted once it is past the checks.
ArrivalInv ==
  /\ nextSeq <= received
  /\ accepted \subseteq 1..received
  /\ \A x \in Handed : x.msg = 0 \/ x.msg \in accepted
  /\ cb.pc # "idle" =>
       /\ cb.cmd.msg = received
       /\ received > 0
       /\ \A x \in Handed : x.msg < received
  /\ cb.pc = "check" => received \notin accepted
  /\ Carrying => received \in accepted
  /\ cb.pc \in {"check", "sequence"} => nextSeq < received

\* Holds, and only holds, have sequence 0.
SequenceInv ==
  /\ \A x \in Handed : x.msg = 0 <=> x.seq = 0
  /\ cb.pc = "write" => cb.cmd.seq > 0
  /\ Commanding \/ life = "act_command" => lastApplied = desired.seq

\* Fresh data is younger than what has been read, and what has been read is
\* no older than the equilibrium.
YoungerInv ==
  /\ fresh /\ buf.msg # 0 => buf.msg > rtBuf.msg /\ buf.msg > desired.msg
  /\ Commanding /\ rtBuf.msg # 0 /\ desired.msg # 0 =>
       /\ desired.msg <= rtBuf.msg
       /\ desired.msg = rtBuf.msg => desired.seq = rtBuf.seq

\* Loaded, checked, written and installed, in this order.
LabelInv ==
  /\ \A x \in Handed : x.msg # 0 =>
       x.act <= x.checked /\ x.checked <= x.wrote /\ x.wrote <= activation
  /\ cb.pc # "idle" => cb.cmd.act <= activation
  /\ Carrying =>
       cb.cmd.act <= cb.cmd.checked /\ cb.cmd.checked <= activation

Own(x) == x.msg # 0 /\ x.act = activation

\* This activation's targets exist once it accepts commands; their sequence
\* numbers come from next_sequence_, which nothing resets from there on.
OwnInv ==
  /\ Activating =>
       /\ \A x \in Handed : ~Own(x)
       /\ Carrying => cb.cmd.act # activation
  /\ Commanding =>
       /\ \A x \in Handed : Own(x) => x.seq <= nextSeq
       /\ cb.pc = "write" /\ cb.cmd.act = activation =>
            /\ cb.cmd.seq <= nextSeq
            /\ \A x \in Handed : Own(x) => x.seq < cb.cmd.seq
       /\ fresh /\ Own(buf) =>
            \A x \in {rtBuf, desired} : Own(x) => x.seq < buf.seq
  /\ Commanding /\ ~foreign =>
       /\ desired.msg # 0 => Own(desired)
       /\ Own(rtBuf) => desired.msg = rtBuf.msg

(***************************************************************************)
(* The strengthening of the safety properties above that every step keeps. *)
(***************************************************************************)
IInv ==
  /\ TypeOK
  /\ AcceptInv
  /\ ArrivalInv
  /\ SequenceInv
  /\ YoungerInv
  /\ LabelInv
  /\ OwnInv
=============================================================================
