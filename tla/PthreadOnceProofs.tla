-------------------------- MODULE PthreadOnceProofs --------------------------
(***************************************************************************)
(* pthread_once() keeps its promise for any number of threads and control  *)
(* words.                                                                  *)
(***************************************************************************)
EXTENDS PthreadOnce, TLAPS

\* t has claimed the control word and not yet stored the end of the routine.
Runs(t) == pc[t] \in {"routine", "store"}

\* The word tells how far the routine is, and one thread at most is running it.
IInv ==
  /\ TypeOK
  /\ \A o \in Control :
       /\ begun[o] = IF control[o] = 0 THEN 0 ELSE 1
       /\ control[o] = 2 => finished[o]
       /\ control[o] = 1 => \E t \in Thread : Runs(t) /\ arg[t] = o
  /\ \A t \in Thread : pc[t] = "poll" => control[arg[t]] # 0
  /\ \A t \in Thread : Runs(t) => control[arg[t]] = 1
  /\ \A t \in Thread : pc[t] = "store" => finished[arg[t]]
  /\ \A t, u \in Thread : Runs(t) /\ Runs(u) /\ arg[t] = arg[u] => t = u
  /\ \A t \in Thread, o \in Control : <<t, o>> \in returned => control[o] = 2

\* The inductive invariant holds in every reachable state.
THEOREM Invariant == Spec => []IInv
<1>1. Init => IInv
  <2> SUFFICES ASSUME Init PROVE IInv
    OBVIOUS
  <2>1. TypeOK BY DEF Init, TypeOK
  <2>2. \A o \in Control : control[o] = 0 /\ begun[o] = 0
    BY DEF Init
  <2>3. \A t \in Thread : pc[t] = "idle"
    BY DEF Init
  <2>4. returned = {}
    BY DEF Init
  <2> QED BY <2>1, <2>2, <2>3, <2>4 DEF IInv, Runs
<1>2. IInv /\ [Next]_vars => IInv'
  <2> SUFFICES ASSUME IInv, [Next]_vars PROVE IInv'
    OBVIOUS
  <2> USE DEF IInv, TypeOK, Runs
  <2>1. ASSUME NEW t \in Thread, NEW o \in Control, Call(t, o) PROVE IInv'
    BY <2>1 DEF Call
  <2>2. ASSUME NEW t \in Thread, Exchange(t) PROVE IInv'
    BY <2>2 DEF Exchange, Claims, Running
  <2>3. ASSUME NEW t \in Thread, Routine(t) PROVE IInv'
    BY <2>3 DEF Routine
  <2>4. ASSUME NEW t \in Thread, Store(t) PROVE IInv'
    <3>1. /\ control' = [control EXCEPT ![arg[t]] = 2]
          /\ pc' = [pc EXCEPT ![t] = "idle"] /\ pc[t] = "store"
          /\ returned' = returned \cup {<<t, arg[t]>>}
          /\ UNCHANGED <<arg, begun, finished>>
      BY <2>4 DEF Store, Done
    <3>2. TypeOK' BY <3>1
    <3>3. \A u \in Thread : u # t /\ Runs(u)
                           => arg[u] # arg[t]
      BY <3>1
    <3>4. \A u \in Thread, o \in Control : <<u, o>> \in returned' =>
            control'[o] = 2
      BY <3>1
    <3>5. \A o \in Control : /\ begun'[o] = IF control'[o] = 0 THEN 0 ELSE 1
                             /\ control'[o] = 2 => finished'[o]
      BY <3>1
    <3>6. \A u \in Thread : Runs(u)' =>
            control'[arg'[u]] = 1 /\ (pc'[u] = "store" => finished'[arg'[u]])
      BY <3>1, <3>3
    <3>7. \A u, v \in Thread : Runs(u)' /\ Runs(v)' /\ arg'[u] = arg'[v] => u = v
      BY <3>1
    <3>8. ASSUME NEW o \in Control, control'[o] = 1
          PROVE  \E u \in Thread : Runs(u)' /\ arg'[u] = o
      <4>1. o # arg[t] /\ control[o] = 1
        BY <3>1, <3>8
      <4>2. PICK u \in Thread : Runs(u) /\ arg[u] = o
        BY <4>1
      <4> QED BY <3>1, <4>1, <4>2
    <3>9. \A u \in Thread : pc'[u] = "poll" => control'[arg'[u]] # 0
      BY <3>1
    <3> QED BY <3>2, <3>4, <3>5, <3>6, <3>7, <3>8, <3>9
  <2>5. ASSUME NEW t \in Thread, Poll(t) PROVE IInv'
    BY <2>5 DEF Poll
  <2>6. CASE UNCHANGED vars
    BY <2>6 DEF vars
  <2> QED BY <2>1, <2>2, <2>3, <2>4, <2>5, <2>6 DEF Next, Step
<1> QED BY <1>1, <1>2, PTL DEF Spec

\* A routine is started once, and no call returns before it has ended.
THEOREM OnceCorrect == Spec => []OnceBeforeReturn
<1>1. IInv => OnceBeforeReturn
  BY DEF IInv, TypeOK, OnceBeforeReturn
<1> QED BY <1>1, Invariant, PTL

\* No thread polls a control word whose routine nobody runs and nobody has run.
THEOREM PollCorrect == Spec => []PollEnds
<1>1. IInv => PollEnds
  BY DEF IInv, TypeOK, PollEnds, Runs
<1> QED BY <1>1, Invariant, PTL

\* pthread_once() keeps its promise, for any number of threads and control words.
THEOREM PromiseCorrect == Spec => []OnceSound
<1>1. OnceBeforeReturn /\ PollEnds => OnceSound
  BY DEF OnceSound
<1> QED BY <1>1, OnceCorrect, PollCorrect, PTL
=============================================================================
