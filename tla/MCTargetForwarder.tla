-------------------------- MODULE MCTargetForwarder --------------------------
(* Small instances of TargetForwarder. *)
EXTENDS TargetForwarder
=============================================================================
