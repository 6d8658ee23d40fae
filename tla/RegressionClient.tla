-------------------------- MODULE RegressionClient --------------------------
(***************************************************************************)
(* The commissioning script manual_joint_target_server_regression.py with  *)
(* the joint-target server it tests: one goal is the script's, the others  *)
(* are those of other clients.  The script asks for the server's parameter *)
(* execute once and decides on the answer; an operator may set it at any   *)
(* time, and the server reads it when it executes a goal.                  *)
(*                                                                         *)
(* The script is a process of its own.  It gives up when a wait times out, *)
(* and what it has sent goes on without it.                                *)
(***************************************************************************)
EXTENDS JointTargetServer

CONSTANT Script  \* the script's goal

ASSUME ScriptAssumption == Script \in Goals

VARIABLES
  execute,  \* the server's parameter
  allow,    \* args.allow_execution
  client,   \* where main is
  saw,      \* execute_enabled
  sent,     \* the goal's request has been sent
  changed   \* history: execute was set after the script had asked for it

clientVars == <<execute, allow, client, saw, sent, changed>>

allVars == <<vars, clientVars>>

\* main waits for something, or it has returned.
Waiting == {"query", "answer", "send", "response", "result"}

ClientTypeOK ==
  /\ TypeOK
  /\ client \in Waiting \cup {"passed", "failed"}
  /\ {execute, allow, saw, sent, changed} \subseteq BOOLEAN

ClientInit ==
  /\ Init
  /\ execute \in BOOLEAN
  /\ allow \in BOOLEAN
  /\ client = "query"
  /\ saw = FALSE
  /\ sent = FALSE
  /\ changed = FALSE

-----------------------------------------------------------------------------
(* The script. *)

Stage(from, to) ==
  /\ client = from
  /\ client' = to
  /\ UNCHANGED <<vars, execute, allow, changed>>

\* server_execute_enabled: the server is there and answers.
QueryExecute ==
  /\ Stage("query", "answer")
  /\ saw' = execute
  /\ UNCHANGED sent

\* Mutant: the comparison is the wrong way round.
RefusesPlanOnly == ~saw /\ ~allow

Refuses == saw /\ ~allow

Refuse ==
  /\ Stage("answer", "failed")
  /\ Refuses
  /\ saw' = FALSE
  /\ UNCHANGED sent

\* fresh_joint_state and arm_q: the goal is built from a joint state.
ReadState ==
  /\ Stage("answer", "send")
  /\ ~Refuses
  /\ UNCHANGED <<saw, sent>>

\* send_goal_async: the server takes the request when it likes.
SendGoal ==
  /\ Stage("send", "response")
  /\ sent' = TRUE
  /\ UNCHANGED saw

GoalAccepted ==
  /\ pc[Script] \notin {"new", "rejected"}
  /\ Stage("response", "result")
  /\ UNCHANGED <<saw, sent>>

\* Mutant: validate_result asks for a success of whatever kind.
ValidatesSuccess == result[Script] # "failed"

\* validate_result, but for the final measurements.
Validates ==
  IF saw
  THEN /\ result[Script] = "execution_succeeded"
       /\ ev[Script].attempts = 1
       /\ ev[Script].status = "succeeded"
  ELSE /\ result[Script] = "plan_only_validated"
       /\ ev[Script].attempts = 0

Passes ==
  /\ result[Script] # "none"
  /\ Validates
  /\ Stage("result", "passed")
  /\ UNCHANGED <<saw, sent>>

\* A wait times out, the goal is rejected, a check fails or the script is
\* interrupted: main returns, and the goal is not cancelled.
GivesUp ==
  /\ \E from \in Waiting : Stage(from, "failed")
  /\ saw' = FALSE
  /\ UNCHANGED sent

-----------------------------------------------------------------------------
(* The server. *)

\* The operator (external).
SetExecute ==
  /\ execute' = ~execute
  /\ changed' = (client # "query")
  /\ UNCHANGED <<vars, allow, client, saw, sent>>

\* settings(), at the start of execute_callback.
ReadsSettings(g) ==
  pc[g] = "queued" /\ pc'[g] = "planning" => ev'[g].execute = execute

ServerCallback(g) ==
  /\ Callback(g)
  /\ ReadsSettings(g)
  /\ UNCHANGED clientVars

\* A goal is offered to the server after it has been sent.
ServerOffered(g) ==
  /\ g = Script => sent
  /\ GoalReject(g) \/ GoalAccept(g)
  /\ UNCHANGED clientVars

ServerElse ==
  /\ \/ \E g \in Goals : MoveitAnswers(g) \/ MoveitEnds(g)
     \/ SamplesAge \/ ShutDown
  /\ UNCHANGED clientVars

-----------------------------------------------------------------------------
ClientNext ==
  \/ QueryExecute \/ Refuse \/ ReadState \/ SendGoal \/ GoalAccepted
  \/ Passes \/ GivesUp \/ SetExecute
  \/ \E g \in Goals : ServerOffered(g) \/ ServerCallback(g)
  \/ ServerElse

ClientSpec == ClientInit /\ [][ClientNext]_allVars

ClientFairSpec ==
  ClientSpec /\ \A g \in Goals : WF_allVars(ServerCallback(g))

-----------------------------------------------------------------------------
(* Properties. *)

(***************************************************************************)
(* A passed regression means what it says, whoever set the parameter and   *)
(* when: the server ran the script's goal in the mode the script had been  *)
(* told, its client's goal succeeded, and the trajectory was executed to   *)
(* its end or, in the plan-only mode, never existed.                       *)
(***************************************************************************)
PassedIsTrue ==
  client = "passed" =>
    /\ reply[Script] = "succeeded"
    /\ ev[Script].execute = saw
    /\ moveit[Script] = IF saw THEN "succeeded" ELSE "none"

(***************************************************************************)
(* Without --allow-execution physical execution is refused (the script's   *)
(* help): a trajectory of the script's goal exists without it only if the  *)
(* parameter was set after the script had asked for it, at any time until  *)
(* the server executed the goal, the script still waiting or long gone.    *)
(***************************************************************************)
MotionIsPermitted == moveit[Script] # "none" => allow \/ changed

-----------------------------------------------------------------------------
(* The inductive invariant, beside the server's own IInv. *)

\* What the script's goal has to do with the parameter and the evidence.
ScriptInv ==
  /\ pc[Script] \notin {"new", "rejected"} => sent
  /\ ev[Script].execute => sent /\ (allow \/ changed)
  /\ moveit[Script] # "none" \/ pc[Script] \in {"execution", "send"} =>
       ev[Script].execute
  /\ ev[Script].outcome = "plan_only_validated" => ~ev[Script].execute
  /\ pc[Script] \in {"close", "reply", "done"} /\ ev[Script].outcome # "failed" =>
       reply[Script] = "succeeded"

\* What the script knows, and what it has let happen.
AskedInv ==
  /\ sent => client # "query"
  /\ client \in {"answer", "send", "response", "result"} /\ ~changed =>
       (execute <=> saw)
  /\ client \in {"send", "response", "result"} => (saw => allow)
  /\ sent /\ ~allow /\ ~changed => ~execute

ClientInv ==
  /\ ClientTypeOK
  /\ ScriptInv
  /\ AskedInv
  /\ PassedIsTrue
  /\ client = "passed" => pc[Script] = "done"
=============================================================================
