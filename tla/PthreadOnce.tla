----------------------------- MODULE PthreadOnce -----------------------------
(***************************************************************************)
(* pthread_once() as source/imports.c gives it to the game: the first      *)
(* thread runs the routine, the others poll the control word until it has  *)
(* finished.  The routine does not call pthread_once() again.              *)
(***************************************************************************)
EXTENDS Naturals

CONSTANTS
  Thread, \* the threads of the game
  Control \* the once_control words, each with its own routine

VARIABLES
  control,  \* control[o]: 0 not begun, 1 running, 2 done
  pc,       \* pc[t]: where t is in pthread_once()
  arg,      \* arg[t]: the control word it was called with
  begun,    \* history: begun[o], how often the routine of o was started
  finished, \* history: finished[o], whether one run of it has ended
  returned  \* history: the pairs <<t, o>> for which the call has returned

vars == <<control, pc, arg, begun, finished, returned>>

Init ==
  /\ control = [o \in Control |-> 0]
  /\ pc = [t \in Thread |-> "idle"]
  /\ arg \in [Thread -> Control]
  /\ begun = [o \in Control |-> 0]
  /\ finished = [o \in Control |-> FALSE]
  /\ returned = {}

Call(t, o) ==
  /\ pc[t] = "idle"
  /\ pc' = [pc EXCEPT ![t] = "exchange"]
  /\ arg' = [arg EXCEPT ![t] = o]
  /\ UNCHANGED <<control, begun, finished, returned>>

\* Mutant of Claims: a thread that finds the routine running runs it too.
ClaimsUnfinished(o) == control[o] # 2
\* The compare-and-exchange succeeds.
Claims(o) == control[o] = 0

\* Mutant of Running: the word says "done" as soon as the routine is started.
RunningIsDone == 2
\* What the compare-and-exchange stores.
Running == 1

Exchange(t) ==
  /\ pc[t] = "exchange"
  /\ LET o == arg[t] IN
       IF Claims(o)
       THEN /\ control' = [control EXCEPT ![o] = Running]
            /\ begun' = [begun EXCEPT ![o] = begun[o] + 1]
            /\ pc' = [pc EXCEPT ![t] = "routine"]
       ELSE /\ pc' = [pc EXCEPT ![t] = "poll"]
            /\ UNCHANGED <<control, begun>>
  /\ UNCHANGED <<arg, finished, returned>>

\* init_routine() comes to its end.
Routine(t) ==
  /\ pc[t] = "routine"
  /\ finished' = [finished EXCEPT ![arg[t]] = TRUE]
  /\ pc' = [pc EXCEPT ![t] = "store"]
  /\ UNCHANGED <<control, arg, begun, returned>>

\* Mutant of Done: the end of the routine is not published.
NeverDone == 1
\* What the thread that ran the routine stores.
Done == 2

Store(t) ==
  /\ pc[t] = "store"
  /\ control' = [control EXCEPT ![arg[t]] = Done]
  /\ pc' = [pc EXCEPT ![t] = "idle"]
  /\ returned' = returned \cup {<<t, arg[t]>>}
  /\ UNCHANGED <<arg, begun, finished>>

\* A poll that does not find the routine done sleeps and polls again.
Poll(t) ==
  /\ pc[t] = "poll" /\ control[arg[t]] = 2
  /\ pc' = [pc EXCEPT ![t] = "idle"]
  /\ returned' = returned \cup {<<t, arg[t]>>}
  /\ UNCHANGED <<control, arg, begun, finished>>

Step(t) == Exchange(t) \/ Routine(t) \/ Store(t) \/ Poll(t)

Next == \E t \in Thread : Step(t) \/ \E o \in Control : Call(t, o)

Spec == Init /\ [][Next]_vars

\* Every thread is scheduled, and the routine ends.
Fairness == \A t \in Thread : WF_vars(Step(t))

FairSpec == Spec /\ Fairness

-----------------------------------------------------------------------------
TypeOK ==
  /\ control \in [Control -> {0, 1, 2}]
  /\ pc \in [Thread -> {"idle", "exchange", "routine", "store", "poll"}]
  /\ arg \in [Thread -> Control]
  /\ begun \in [Control -> Nat]
  /\ finished \in [Control -> BOOLEAN]
  /\ returned \subseteq Thread \X Control

\* However many threads come at once, a routine is started once, and no call
\* returns to any of them before it has ended.
OnceBeforeReturn ==
  \A o \in Control :
    /\ begun[o] <= 1
    /\ \A t \in Thread : <<t, o>> \in returned => begun[o] = 1 /\ finished[o]

\* A thread that polls waits for the end of a routine that has ended already or
\* that another thread is running: it never polls for what nobody will store.
PollEnds ==
  \A t \in Thread : pc[t] = "poll" =>
    \/ control[arg[t]] = 2
    \/ \E u \in Thread : arg[u] = arg[t] /\ pc[u] \in {"routine", "store"}

\* The routine runs once, nobody goes on before its end, and who waits for that end
\* waits for a thread that will bring it about.
OnceSound == OnceBeforeReturn /\ PollEnds

\* Every call returns, in particular those that find the routine running.
OnceCallsReturn == \A t \in Thread : pc[t] # "idle" ~> pc[t] = "idle"
=============================================================================
