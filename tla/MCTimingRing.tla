---------------------------- MODULE MCTimingRing ----------------------------
(* Small instances of TimingRing. *)
EXTENDS TimingRing
=============================================================================
