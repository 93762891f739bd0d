----------------------------- MODULE MCTouchInput -----------------------------
(***************************************************************************)
(* A small instance of TouchInput: one more finger than there are slots.   *)
(***************************************************************************)
EXTENDS TouchInput

CONSTANTS f1, f2, f3, b1, k1, v1, p1, p2
=============================================================================
