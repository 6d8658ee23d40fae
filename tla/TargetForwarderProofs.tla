------------------------ MODULE TargetForwarderProofs ------------------------
(***************************************************************************)
(* The gate of the target forwarder fails closed for every expiry, any     *)
(* number of targets and any behaviour of the controller manager.          *)
(***************************************************************************)
EXTENDS TargetForwarder, TLAPS

(* Initially there is no evidence and no request. *)
LEMMA GateInit == Init => GateInv
<1> SUFFICES ASSUME Init PROVE TypeOK /\ AgesInv /\ CountsInv
  BY DEF GateInv
<1>1. counts \in [Counters -> 0..MaxTargets] /\ CountsInv
  BY ForwarderAssumption DEF Init, CountsInv, Counters
<1>2. activeAge \in Ages /\ AgesInv
  BY ForwarderAssumption DEF Init, Ages, AgesInv
<1>3. evidence \in SUBSET Ages /\ wire \in SUBSET Request /\ status \in Statuses
  BY DEF Init, Statuses
<1>4. /\ pending \in BOOLEAN /\ up \in BOOLEAN /\ active \in BOOLEAN
      /\ lost \in BOOLEAN
  BY Zenon DEF Init
<1> QED
  BY <1>1, <1>2, <1>3, <1>4 DEF TypeOK

(* Ages grow together, and stop together at the expiry. *)
LEMMA OlderKeepsOrder ==
  ASSUME NEW a \in Ages, NEW b \in Ages
  PROVE  /\ Older(a) \in Ages
         /\ b >= a => Older(b) >= Older(a)
         /\ Older(b) >= 0
  BY ForwarderAssumption DEF Ages, Older

(* A target counted with its outcome keeps the counters below the bound. *)
LEMMA CountKeepsBound ==
  ASSUME TypeOK, CountsInv, counts["received"] < MaxTargets,
         NEW names \in SUBSET Counters
  PROVE  Count(names) \in [Counters -> 0..MaxTargets]
<1>1. \A c \in Counters : counts[c] \in Nat /\ counts[c] < MaxTargets
  BY ForwarderAssumption DEF TypeOK, CountsInv, Counters
<1>2. \A c \in Counters : counts[c] + (IF c \in names THEN 1 ELSE 0) \in 0..MaxTargets
  BY <1>1, ForwarderAssumption
<1> QED
  BY <1>2 DEF Count

(* A target counted on reception keeps its counter ahead of the others. *)
LEMMA CountKeepsOrder ==
  ASSUME TypeOK, CountsInv, NEW names \in SUBSET Counters, "received" \in names,
         counts' = Count(names)
  PROVE  CountsInv'
<1>1. counts'["received"] = counts["received"] + 1
  BY DEF Count, Counters
<1>2. \A c \in Counters :
        counts[c] \in Nat /\ counts'[c] \in Nat /\ counts'[c] <= counts[c] + 1
  BY ForwarderAssumption DEF Count, TypeOK
<1>3. "received" \in Counters
  BY DEF Counters
<1> SUFFICES ASSUME NEW c \in Counters PROVE counts'[c] <= counts'["received"]
  BY DEF CountsInv
<1>4. counts[c] <= counts["received"]
  BY DEF CountsInv
<1> QED
  BY <1>1, <1>2, <1>3, <1>4

(* Every step keeps the counters in order. *)
LEMMA CountsStep == GateInv /\ [Next]_vars => CountsInv'
<1> SUFFICES ASSUME TypeOK, CountsInv, [Next]_vars PROVE CountsInv'
  BY DEF GateInv
<1>1. ASSUME NEW valid \in BOOLEAN, OnTargetRejected(valid) PROVE CountsInv'
  BY <1>1, CountKeepsOrder DEF OnTargetRejected, Counters
<1>2. CASE OnTargetAccepted
  <2>1. PICK end \in {"forwarded", "publication_errors"} :
          counts' = Count({"received", "accepted", end})
    BY <1>2 DEF OnTargetAccepted
  <2>2. {"received", "accepted", end} \in SUBSET Counters
    BY DEF Counters
  <2> QED
    BY <2>1, <2>2, CountKeepsOrder
<1>3. CASE UNCHANGED counts
  BY <1>3 DEF CountsInv
<1> QED
  BY <1>1, <1>2, <1>3 DEF Next, Poll, PollPending, PollUnavailable, PollRequest,
     PollError, OnControllers, Answer, SwitchController, ServiceUp, ServiceDown,
     Pass, vars

(* Every step keeps the types and the ages. *)
LEMMA GateStep == GateInv /\ [Next]_vars => TypeOK' /\ AgesInv'
<1> SUFFICES ASSUME TypeOK, AgesInv, CountsInv, [Next]_vars
             PROVE  TypeOK' /\ AgesInv'
  BY DEF GateInv
<1> USE ForwarderAssumption
<1>1. CASE PollPending
  BY <1>1 DEF PollPending, vars, TypeOK, AgesInv
<1>2. CASE PollUnavailable
  BY <1>2 DEF PollUnavailable, TypeOK, AgesInv, Statuses
<1>3. CASE PollRequest
  BY <1>3 DEF PollRequest, TypeOK, AgesInv, Request, Ages
<1>4. CASE PollError
  BY <1>4 DEF PollError, TypeOK, AgesInv, Statuses
<1>5. ASSUME NEW r \in wire, OnControllers(r) PROVE TypeOK' /\ AgesInv'
  <2>1. evidence' \in SUBSET Ages /\ status' \in Statuses
    BY <1>5 DEF OnControllers, EvidenceOf, StatusOf, TypeOK, Request, Statuses
  <2>2. \A age \in evidence' : age >= activeAge
    BY <1>5 DEF OnControllers, EvidenceOf, AgesInv
  <2> QED
    BY <1>5, <2>1, <2>2 DEF OnControllers, TypeOK, AgesInv
<1>6. ASSUME NEW r \in wire, Answer(r) PROVE TypeOK' /\ AgesInv'
  <2>1. PICK reply \in {IF active THEN "active" ELSE "inactive"}
                       \cup (IF Fails THEN {"error"} ELSE {}) :
          wire' = (wire \ {r}) \cup {[age |-> r.age, reply |-> reply]}
    BY <1>6 DEF Answer
  <2>2. r.age \in Ages /\ r.age >= 0
    BY DEF TypeOK, Request, Ages
  <2>3. wire' \in SUBSET Request
    BY <2>1, <2>2 DEF TypeOK, Request
  <2>4. \A x \in wire' : x.reply = "active" => x.age >= activeAge
    BY <2>1, <2>2 DEF AgesInv
  <2> QED
    BY <1>6, <2>3, <2>4 DEF Answer, TypeOK, AgesInv
<1>8. ASSUME NEW valid \in BOOLEAN, OnTargetRejected(valid)
      PROVE  TypeOK' /\ AgesInv'
  <2>1. counts' \in [Counters -> 0..MaxTargets]
    BY <1>8, CountKeepsBound DEF OnTargetRejected, Counters
  <2> QED
    BY <1>8, <2>1 DEF OnTargetRejected, TypeOK, AgesInv
<1>9. CASE OnTargetAccepted
  <2>1. counts' \in [Counters -> 0..MaxTargets]
    BY <1>9, CountKeepsBound DEF OnTargetAccepted, Counters
  <2> QED
    BY <1>9, <2>1 DEF OnTargetAccepted, TypeOK, AgesInv
<1>10. CASE SwitchController
  <2>1. \A a \in Ages : a >= 0
    BY DEF Ages
  <2> QED
    BY <1>10, <2>1 DEF SwitchController, TypeOK, AgesInv, Ages, Request
<1>11. CASE ServiceUp
  BY <1>11 DEF ServiceUp, TypeOK, AgesInv
<1>12. CASE ServiceDown
  <2>1. \A a \in Ages : a >= 0
    BY DEF Ages
  <2> QED
    BY <1>12, <2>1 DEF ServiceDown, TypeOK, AgesInv, Ages, Request
<1>13. CASE Pass
  BY <1>13, OlderKeepsOrder DEF Pass, TypeOK, AgesInv, Request, Ages
<1>14. CASE UNCHANGED vars
  BY <1>14 DEF vars, TypeOK, AgesInv
<1> QED
  BY <1>1, <1>2, <1>3, <1>4, <1>5, <1>6, <1>8, <1>9, <1>10, <1>11, <1>12,
     <1>13, <1>14 DEF Next, Poll

(***************************************************************************)
(* The ages of evidence_ns and of the requests under way never promise     *)
(* more than the controller manager saw.                                   *)
(***************************************************************************)
THEOREM GateInvariant == Spec => []GateInv
<1>1. Init => GateInv
  BY GateInit
<1>2. GateInv /\ [Next]_vars => GateInv'
  BY GateStep, CountsStep DEF GateInv
<1> QED
  BY <1>1, <1>2, PTL DEF Spec

(***************************************************************************)
(* Every variable has its type: the outcomes of on_target never outnumber  *)
(* the targets received.                                                   *)
(***************************************************************************)
THEOREM TypeCorrect == Spec => []TypeOK
<1>1. GateInv => TypeOK
  BY DEF GateInv
<1> QED
  BY <1>1, GateInvariant, PTL

(***************************************************************************)
(* The admission gate of on_target fails closed: a target is let through   *)
(* only if the controller was active within controller_evidence_expiry_s.  *)
(***************************************************************************)
THEOREM GateFailsClosed == Spec => []RecentlyActive
<1>1. GateInv => RecentlyActive
  BY ForwarderAssumption DEF GateInv, TypeOK, AgesInv, RecentlyActive, Admits, Ages
<1> QED
  BY <1>1, GateInvariant, PTL

(* Every step that changes the evidence or the status changes both. *)
LEMMA StatusStep ==
  TypeOK /\ StatusTellsEvidence /\ [Next]_vars => StatusTellsEvidence'
<1> SUFFICES ASSUME TypeOK, StatusTellsEvidence, [Next]_vars
             PROVE  StatusTellsEvidence'
  OBVIOUS
<1> USE DEF StatusTellsEvidence
<1>1. CASE PollUnavailable \/ PollError
  BY <1>1 DEF PollUnavailable, PollError
<1>2. ASSUME NEW r \in wire, OnControllers(r) PROVE StatusTellsEvidence'
  <2>1. r.reply \in {"active", "inactive", "error"}
    BY <1>2 DEF OnControllers, TypeOK, Request
  <2> QED
    BY <1>2, <2>1 DEF OnControllers, EvidenceOf, StatusOf
<1>3. CASE Pass
  BY <1>3 DEF Pass
<1>4. CASE UNCHANGED <<evidence, status>>
  BY <1>4
<1> QED
  BY <1>1, <1>2, <1>3, <1>4 DEF Next, Poll, PollPending, PollRequest, Answer,
     OnTargetRejected, OnTargetAccepted, SwitchController, ServiceUp,
     ServiceDown, vars

(***************************************************************************)
(* The telemetry of the forwarder says "active" exactly while evidence_ns  *)
(* is set.                                                                 *)
(***************************************************************************)
THEOREM StatusIsHonest == Spec => []StatusTellsEvidence
<1>1. Init => StatusTellsEvidence
  BY DEF Init, StatusTellsEvidence
<1> QED
  BY <1>1, StatusStep, TypeCorrect, PTL DEF Spec

(***************************************************************************)
(* What admits a target, and what is told of it, is true of the controller.*)
(***************************************************************************)
THEOREM EvidenceHolds == Spec => []EvidenceIsTrue
<1>1. RecentlyActive /\ StatusTellsEvidence => EvidenceIsTrue
  BY DEF EvidenceIsTrue
<1> QED
  BY <1>1, GateFailsClosed, StatusIsHonest, PTL
=============================================================================
