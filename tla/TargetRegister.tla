--------------------------- MODULE TargetRegister ---------------------------
(***************************************************************************)
(* What the streaming controller promises to whoever sends it targets,     *)
(* without its threads, buffers and sequence numbers: a register that      *)
(* holds the measured pose when it starts (target 0), takes targets only   *)
(* while it runs, and while it runs moves only forward, to targets it has  *)
(* taken.  Targets are numbered in the order they arrive.                  *)
(***************************************************************************)
EXTENDS Naturals

CONSTANT MaxTargets  \* bound: number of targets sent

VARIABLES
  running,   \* a controller is commanding the arm
  target,    \* the equilibrium it realizes, 0 for the pose at its start
  taken      \* the targets it has accepted

vars == <<running, target, taken>>

Init ==
  /\ running = FALSE
  /\ target = 0
  /\ taken = {}

Start ==
  /\ ~running
  /\ running' = TRUE
  /\ target' = 0
  /\ UNCHANGED taken

Stop ==
  /\ running
  /\ running' = FALSE
  /\ target' = 0
  /\ UNCHANGED taken

Take(m) ==
  /\ running
  /\ \A t \in taken : t < m
  /\ taken' = taken \cup {m}
  /\ UNCHANGED <<running, target>>

Apply(m) ==
  /\ running
  /\ m \in taken
  /\ m > target
  /\ target' = m
  /\ UNCHANGED <<running, taken>>

Next ==
  \/ Start
  \/ Stop
  \/ \E m \in 1..MaxTargets : Take(m) \/ Apply(m)

Spec == Init /\ [][Next]_vars
=============================================================================
