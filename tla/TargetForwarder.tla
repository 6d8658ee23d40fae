--------------------------- MODULE TargetForwarder ---------------------------
(***************************************************************************)
(* The target forwarder's gate: it forwards a valid target only on recent  *)
(* evidence that the streaming controller is active, which it gets by      *)
(* asking the controller manager (external) with one request at a time.    *)
(* The single-threaded executor runs poll, on_controllers and on_target    *)
(* one at a time.                                                          *)
(*                                                                         *)
(* Only the ages of monotonic readings matter, so a reading is kept as its *)
(* age, which Pass increments and which stops mattering past the expiry.   *)
(***************************************************************************)
EXTENDS Naturals

CONSTANTS
  Expiry,      \* controller_evidence_expiry_s, in ticks of the clock
  MaxTargets,  \* bound: targets received
  Fails        \* whether the manager may go away and replies be unreadable

ASSUME ForwarderAssumption ==
  /\ Expiry \in Nat
  /\ MaxTargets \in Nat
  /\ Fails \in BOOLEAN

VARIABLES
  evidence,    \* evidence_ns: {} when None, else the age of the reading
  pending,     \* pending is not None
  status,      \* controller_status
  counts,      \* counts
  wire,        \* external: the requests sent and not yet answered to us
  up,          \* external: service_is_ready()
  active,      \* external: the controller is active
  activeAge,   \* history: the time since the controller was last active
  lost         \* history: the service went away with a request unanswered

vars == <<evidence, pending, status, counts, wire, up, active, activeAge, lost>>

Ages == 0..(Expiry + 1)

Statuses == {"unknown", "service_unavailable", "request_error",
             "response_error", "active", "inactive_or_missing"}

Counters == {"received", "accepted", "rejected", "forwarded",
             "publication_errors"}

Request == [age : Ages, reply : {"none", "active", "inactive", "error"}]

TypeOK ==
  /\ evidence \in SUBSET Ages
  /\ pending \in BOOLEAN
  /\ status \in Statuses
  /\ counts \in [Counters -> 0..MaxTargets]
  /\ wire \in SUBSET Request
  /\ up \in BOOLEAN
  /\ active \in BOOLEAN
  /\ activeAge \in Ages
  /\ lost \in BOOLEAN

Init ==
  /\ evidence = {}
  /\ pending = FALSE
  /\ status = "unknown"
  /\ counts = [c \in Counters |-> 0]
  /\ wire = {}
  /\ up = FALSE
  /\ active = FALSE
  /\ activeAge = Expiry + 1
  /\ lost = FALSE

-----------------------------------------------------------------------------
(* The node's callbacks. *)

\* The timer fires while a request is outstanding: nothing is looked at.
PollPending ==
  /\ pending
  /\ UNCHANGED vars

PollUnavailable ==
  /\ ~pending
  /\ ~up
  /\ evidence' = {}
  /\ status' = "service_unavailable"
  /\ UNCHANGED <<pending, counts, wire, up, active, activeAge, lost>>

PollRequest ==
  /\ ~pending
  /\ up
  /\ pending' = TRUE
  /\ wire' = wire \cup {[age |-> 0, reply |-> "none"]}
  /\ UNCHANGED <<evidence, status, counts, up, active, activeAge, lost>>

\* call_async raises.
PollError ==
  /\ ~pending
  /\ up
  /\ evidence' = {}
  /\ status' = "request_error"
  /\ UNCHANGED <<pending, counts, wire, up, active, activeAge, lost>>

\* Mutant: the age of the evidence starts with its reply.
EvidenceOfReply(r) == IF r.reply = "active" THEN {0} ELSE {}

\* What a reply is evidence of: it is as old as the request.
EvidenceOf(r) == IF r.reply = "active" THEN {r.age} ELSE {}

StatusOf(r) == CASE r.reply = "active" -> "active"
                 [] r.reply = "inactive" -> "inactive_or_missing"
                 [] r.reply = "error" -> "response_error"

\* Mutant: the reply of an active controller leaves the request pending.
OnControllersStuck(r) ==
  /\ r \in wire
  /\ r.reply # "none"
  /\ wire' = wire \ {r}
  /\ pending' = (r.reply = "active")
  /\ evidence' = EvidenceOf(r)
  /\ status' = StatusOf(r)
  /\ UNCHANGED <<counts, up, active, activeAge, lost>>

\* The reply is in.
OnControllers(r) ==
  /\ r \in wire
  /\ r.reply # "none"
  /\ wire' = wire \ {r}
  /\ pending' = FALSE
  /\ evidence' = EvidenceOf(r)
  /\ status' = StatusOf(r)
  /\ UNCHANGED <<counts, up, active, activeAge, lost>>

\* The evidence lets a valid target through.
Admits == \E age \in evidence : age <= Expiry

\* Mutant: a target is counted on entry and again with its outcome.
CountTwice(names) == [c \in Counters |-> counts[c] + IF c \in names THEN 2 ELSE 0]

Count(names) == [c \in Counters |-> counts[c] + IF c \in names THEN 1 ELSE 0]

\* A target that fails rejection_reason, or comes without recent evidence.
OnTargetRejected(valid) ==
  /\ counts["received"] < MaxTargets
  /\ ~valid \/ ~Admits
  /\ counts' = Count({"received", "rejected"})
  /\ UNCHANGED <<evidence, pending, status, wire, up, active, activeAge, lost>>

\* It is published, or publish raises; it is never tried again.
OnTargetAccepted ==
  /\ counts["received"] < MaxTargets
  /\ Admits
  /\ \E end \in {"forwarded", "publication_errors"} :
       counts' = Count({"received", "accepted", end})
  /\ UNCHANGED <<evidence, pending, status, wire, up, active, activeAge, lost>>

-----------------------------------------------------------------------------
(* External: the controller manager, and time. *)

\* The manager answers what it sees now; what it sends may be unreadable.
Answer(r) ==
  /\ r \in wire
  /\ r.reply = "none"
  /\ up
  /\ \E reply \in {IF active THEN "active" ELSE "inactive"}
                   \cup (IF Fails THEN {"error"} ELSE {}) :
       wire' = (wire \ {r}) \cup {[age |-> r.age, reply |-> reply]}
  /\ UNCHANGED <<evidence, pending, status, counts, up, active, activeAge, lost>>

SwitchController ==
  /\ up
  /\ active' = ~active
  /\ activeAge' = 0
  /\ UNCHANGED <<evidence, pending, status, counts, wire, up, lost>>

\* The manager comes up, without the controller.
ServiceUp ==
  /\ ~up
  /\ up' = TRUE
  /\ UNCHANGED <<evidence, pending, status, counts, wire, active, activeAge, lost>>

\* It goes away; what it has not answered, it never will.
ServiceDown ==
  /\ Fails
  /\ up
  /\ up' = FALSE
  /\ active' = FALSE
  /\ activeAge' = IF active THEN 0 ELSE activeAge
  /\ wire' = {r \in wire : r.reply # "none"}
  /\ lost' = (lost \/ \E r \in wire : r.reply = "none")
  /\ UNCHANGED <<evidence, pending, status, counts>>

Older(age) == IF age <= Expiry THEN age + 1 ELSE age

Pass ==
  /\ evidence' = {Older(age) : age \in evidence}
  /\ wire' = {[age |-> Older(r.age), reply |-> r.reply] : r \in wire}
  /\ activeAge' = IF active THEN 0 ELSE Older(activeAge)
  /\ UNCHANGED <<pending, status, counts, up, active, lost>>

-----------------------------------------------------------------------------
Poll == PollPending \/ PollUnavailable \/ PollRequest \/ PollError

Next ==
  \/ Poll
  \/ \E r \in wire : OnControllers(r) \/ Answer(r)
  \/ \E valid \in BOOLEAN : OnTargetRejected(valid)
  \/ OnTargetAccepted
  \/ SwitchController \/ ServiceUp \/ ServiceDown \/ Pass

\* The timer fires and call_async does not raise for ever; a manager that is
\* up answers, and the executor takes the answer in.
Fairness ==
  /\ WF_vars(PollRequest)
  /\ WF_vars(\E r \in wire : Answer(r))
  /\ WF_vars(\E r \in wire : OnControllers(r))

Spec == Init /\ [][Next]_vars

FairSpec == Spec /\ Fairness

-----------------------------------------------------------------------------
(* Properties. *)

(***************************************************************************)
(* The gate fails closed: whenever it would let a target through, the      *)
(* controller has been active within the expiry, however late the reply    *)
(* came and whatever happened to the manager and the controller since.     *)
(***************************************************************************)
RecentlyActive == Admits => activeAge <= Expiry

(***************************************************************************)
(* Telemetry tells the gate's state: "active" is reported exactly when     *)
(* there is evidence, through every way a poll or a reply can fail.        *)
(***************************************************************************)
StatusTellsEvidence == status = "active" <=> evidence # {}

(***************************************************************************)
(* The evidence is true to the controller, and the telemetry to both.      *)
(***************************************************************************)
EvidenceIsTrue == RecentlyActive /\ StatusTellsEvidence

\* The request under way ends, with this status.
Ends(s) == pending /\ ~pending' /\ status' = s

(***************************************************************************)
(* If in the end the manager stays up with the controller active, requests *)
(* go on to be sent and to end with new evidence, again and again: so that *)
(* targets are not rejected for ever because the evidence has expired.     *)
(* The exceptions are that a request was lost with the manager, and that   *)
(* replies go on to be unreadable.                                         *)
(***************************************************************************)
KeepsConfirming ==
  <>[](up /\ active) =>
    \/ <>lost
    \/ []<><<Ends("response_error")>>_vars
    \/ []<><<Ends("active")>>_vars

-----------------------------------------------------------------------------
(* The inductive invariant behind RecentlyActive. *)

\* No observation of the controller being active is younger than its subject.
AgesInv ==
  /\ active => activeAge = 0
  /\ \A age \in evidence : age >= activeAge
  /\ \A r \in wire : r.reply = "active" => r.age >= activeAge

\* No counter runs ahead of the targets received.
CountsInv == \A c \in Counters : counts[c] <= counts["received"]

GateInv == TypeOK /\ AgesInv /\ CountsInv
=============================================================================
