------------------------------ MODULE GameLock ------------------------------
(***************************************************************************)
(* What a pthread mutex promises the game, whatever its storage holds: at  *)
(* most one thread is inside, and only that thread re-enters or leaves.    *)
(***************************************************************************)
EXTENDS Naturals

CONSTANTS
  Thread,  \* the threads of the game
  Word,    \* the words of game memory that hold a mutex
  NoThread \* "nobody"

VARIABLES
  holder, \* holder[w]: the thread inside w
  depth   \* depth[w]: how often it has entered and not yet left

vars == <<holder, depth>>

Init ==
  /\ holder = [w \in Word |-> NoThread]
  /\ depth = [w \in Word |-> 0]

Acquire(t, w) ==
  /\ holder[w] \in {NoThread, t}
  /\ holder' = [holder EXCEPT ![w] = t]
  /\ depth' = [depth EXCEPT ![w] = depth[w] + 1]

Release(t, w) ==
  /\ holder[w] = t
  /\ holder' = [holder EXCEPT ![w] = IF depth[w] = 1 THEN NoThread ELSE t]
  /\ depth' = [depth EXCEPT ![w] = depth[w] - 1]

Next == \E t \in Thread, w \in Word : Acquire(t, w) \/ Release(t, w)

Spec == Init /\ [][Next]_vars
=============================================================================
