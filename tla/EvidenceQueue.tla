--------------------------- MODULE EvidenceQueue ---------------------------
(***************************************************************************)
(* What the evidence ring promises to its two threads, without cursors,    *)
(* slots and copies: a queue of the samples offered, numbered from 1, that *)
(* holds at most Capacity of them, refuses some and counts those, and      *)
(* gives the others out once each, oldest first.                           *)
(***************************************************************************)
EXTENDS Naturals, Sequences

CONSTANT Capacity  \* samples held at most

VARIABLES
  offered,  \* samples offered so far
  queue,    \* the samples held, oldest first
  dropped,  \* samples refused so far
  taken     \* the samples given out

vars == <<offered, queue, dropped, taken>>

Init ==
  /\ offered = 0
  /\ queue = <<>>
  /\ dropped = 0
  /\ taken = {}

Accept ==
  /\ Len(queue) < Capacity
  /\ offered' = offered + 1
  /\ queue' = Append(queue, offered')
  /\ UNCHANGED <<dropped, taken>>

Refuse ==
  /\ offered' = offered + 1
  /\ dropped' = dropped + 1
  /\ UNCHANGED <<queue, taken>>

Take ==
  /\ queue # <<>>
  /\ Head(queue) \notin taken
  /\ taken' = taken \cup {Head(queue)}
  /\ queue' = Tail(queue)
  /\ UNCHANGED <<offered, dropped>>

Next == Accept \/ Refuse \/ Take

Spec == Init /\ [][Next]_vars
=============================================================================
