------------------------- MODULE MCGradingSessions -------------------------
(* Small instances of GradingSessions for TLC. *)
EXTENDS GradingSessions, TLC

CONSTANTS seven

\* Uploads of one paper: as the model read it, with a correction, and with a
\* second question that has been cleared again to an empty string.
ThreePapers == {1 :> None, 1 :> seven, (1 :> seven) @@ (2 :> Empty)}
=============================================================================
