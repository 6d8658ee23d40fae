-------------------------- MODULE MCRosTransport --------------------------
(* Small instances of RosTransport. *)
EXTENDS RosTransport
=============================================================================
