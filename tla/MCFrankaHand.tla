---------------------------- MODULE MCFrankaHand ----------------------------
(* Small instances of FrankaHand. *)
EXTENDS FrankaHand
=============================================================================
