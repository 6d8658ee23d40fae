--------------------------- MODULE MCEvidenceLog ---------------------------
(* Small instances of EvidenceLog. *)
EXTENDS EvidenceLog

\* Bound: once two publications have overlapped, there is an activation or a
\* timer drain less; until then, there are all of both.
FewAfterOverlap == overlapped => activation + drains <= 3
=============================================================================
