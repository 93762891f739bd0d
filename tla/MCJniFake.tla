------------------------------ MODULE MCJniFake ------------------------------
(***************************************************************************)
(* Small instances of JniFake: four methods and a pool of three ids.       *)
(***************************************************************************)
EXTENDS JniFake

CONSTANTS start, stop, play, report, x, y, long

\* Of the long text only the part fits that y is.
SmallBeginning == [t \in Text |-> IF t = long THEN y ELSE t]
=============================================================================
