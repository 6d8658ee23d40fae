--------------------------- MODULE GripperClient ---------------------------
(***************************************************************************)
(* What the Franka Hand client promises the gripper and the scheduler,     *)
(* without its tick, futures and book: requests are numbered as they are   *)
(* made, a goal is given only for the one wanted now, in the order of the  *)
(* requests, once, with no other goal alive, and none after a stop.        *)
(***************************************************************************)
EXTENDS Naturals

VARIABLES
  asked,    \* requests made so far
  wanted,   \* the latest request that is not a repetition, 0 for none
  given,    \* the requests the gripper has been given a goal for
  alive,    \* those whose goal has not ended
  stopped   \* the client is giving up

vars == <<asked, wanted, given, alive, stopped>>

Init ==
  /\ asked = 0
  /\ wanted = 0
  /\ given = {}
  /\ alive = {}
  /\ stopped = FALSE

\* A request that repeats the one wanted changes nothing.
Ask ==
  /\ ~stopped
  /\ asked' = asked + 1
  /\ wanted' \in {wanted, asked'}
  /\ UNCHANGED <<given, alive, stopped>>

Give ==
  /\ ~stopped
  /\ alive = {}
  /\ \A id \in given : id < wanted
  /\ wanted # 0
  /\ given' = given \cup {wanted}
  /\ alive' = {wanted}
  /\ UNCHANGED <<asked, wanted, stopped>>

End ==
  /\ alive # {}
  /\ alive' = {}
  /\ UNCHANGED <<asked, wanted, given, stopped>>

Stop ==
  /\ ~stopped
  /\ stopped' = TRUE
  /\ wanted' = 0
  /\ UNCHANGED <<asked, given, alive>>

Next == Ask \/ Give \/ End \/ Stop

Spec == Init /\ [][Next]_vars
=============================================================================
