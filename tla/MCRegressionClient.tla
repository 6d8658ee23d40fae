------------------------ MODULE MCRegressionClient ------------------------
(* Small instances of RegressionClient. *)
EXTENDS RegressionClient
=============================================================================
