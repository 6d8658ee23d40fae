----------------------- MODULE MCStreamingController -----------------------
(* Small instances of StreamingController, and its mutants. *)
EXTENDS StreamingController
=============================================================================
