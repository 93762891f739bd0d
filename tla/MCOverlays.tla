----------------------------- MODULE MCOverlays -----------------------------
(***************************************************************************)
(* A small instance of Overlays: one view more than there are entries.     *)
(***************************************************************************)
EXTENDS Overlays, TLC

CONSTANTS v1, v2, v3, v4

Symmetry == Permutations(View)
=============================================================================
