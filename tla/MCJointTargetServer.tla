------------------------- MODULE MCJointTargetServer -------------------------
(* Small instances of JointTargetServer, and its mutants. *)
EXTENDS JointTargetServer
=============================================================================
