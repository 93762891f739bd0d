---------------------------- MODULE MCPthreadMutex ----------------------------
(***************************************************************************)
(* A small instance of PthreadMutex: two threads, two words and two places *)
(* on the heap, one less than two racing threads and another word may      *)
(* want, so that allocations also fail for lack of memory.                 *)
(***************************************************************************)
EXTENDS PthreadMutex

CONSTANTS t1, t2, w1, w2, a1, a2
=============================================================================
