----------------------------- MODULE MCLoopNest -----------------------------
(* A foreach over up to three dimensions, each of one or of three elements,   *)
(* ascending or descending, and another loop around it, in it, or both.       *)
EXTENDS LoopNest

MCBounds == {-1, 1}
=============================================================================
