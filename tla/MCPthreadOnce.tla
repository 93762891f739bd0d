---------------------------- MODULE MCPthreadOnce ----------------------------
(***************************************************************************)
(* A small instance of PthreadOnce.                                        *)
(***************************************************************************)
EXTENDS PthreadOnce

CONSTANTS t1, t2, t3, o1, o2
=============================================================================
