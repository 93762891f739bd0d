------------------------------- MODULE MCFiles -------------------------------
(***************************************************************************)
(* A small instance of Files: one save, and one asset of two bytes.      *)
(***************************************************************************)
EXTENDS Files, TLC

SmallPacked == [a \in {"level"} |-> <<4, 5>>]
SmallParts  == {<<2, 1>>}

Symmetry == Permutations(Handle)
=============================================================================
