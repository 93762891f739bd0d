----------------------------- MODULE GameThreads -----------------------------
(***************************************************************************)
(* The threads of the game: pthread_create_fake() of source/imports.c and  *)
(* the trampoline that they begin with.  A thread gets what to run in a    *)
(* ThreadStart on the heap, which the new thread frees, or the creator if  *)
(* there is no new thread.  The game reads its stack canary through        *)
(* TPIDR_EL0, which the trampoline lets point at a block of the thread.    *)
(***************************************************************************)
EXTENDS Integers

CONSTANTS
  Thread,    \* the threads that the game may create
  MainThread,
  NoBlock    \* NULL

ASSUME GameThreadsAssumption ==
  MainThread \notin Thread /\ NoBlock \notin Thread \cup {MainThread}

VARIABLES
  caller,  \* caller[t]: where the call that creates t is, and what it got
  state,   \* state[t]: where thread t is
  record,  \* record[t]: its ThreadStart
  tls,     \* TPIDR_EL0 of each thread: whose block it is
  starved, \* history: an allocation has failed
  misuse   \* history: a ThreadStart was read or freed that was not there

threadVars == <<caller, state, record, tls, starved, misuse>>

Blocks == Thread \cup {MainThread}

ThreadInit ==
  /\ caller = [t \in Thread |-> "none"] /\ state = [t \in Thread |-> "none"]
  /\ record = [t \in Thread |-> "none"]
  /\ tls = [t \in Blocks |-> NoBlock]
  /\ starved = FALSE /\ misuse = FALSE

\* free(), on the ThreadStart of t
FreeRecord(t) ==
  /\ record' = [record EXCEPT ![t] = "freed"]
  /\ misuse' = (misuse \/ record[t] # "live")

-----------------------------------------------------------------------------
(***************************************************************************)
(* pthread_create_fake()                                                   *)
(***************************************************************************)
\* There may be no memory for the ThreadStart.
Allocate(t) ==
  /\ caller[t] = "none"
  /\ \/ starved' = TRUE /\ UNCHANGED <<caller, record>>
     \/ /\ caller' = [caller EXCEPT ![t] = "calling"]
        /\ record' = [record EXCEPT ![t] = "live"]
        /\ UNCHANGED starved
  /\ UNCHANGED <<state, tls, misuse>>

\* pthread_create() may fail.  If not, the new thread runs at once.
Create(t) ==
  /\ caller[t] = "calling"
  /\ \/ /\ caller' = [caller EXCEPT ![t] = "created"]
        /\ state' = [state EXCEPT ![t] = "start"]
     \/ caller' = [caller EXCEPT ![t] = "refused"] /\ UNCHANGED state
  /\ UNCHANGED <<record, tls, starved, misuse>>

\* Mutant of Disposes: the creator always frees what it has allocated.
AlwaysDisposes(r) == TRUE
\* whether the creator frees the ThreadStart
Disposes(r) == r = "refused"

Created(t) ==
  /\ caller[t] \in {"created", "refused"}
  /\ caller' = [caller EXCEPT ![t] = "done"]
  /\ IF Disposes(caller[t]) THEN FreeRecord(t) ELSE UNCHANGED <<record, misuse>>
  /\ UNCHANGED <<state, tls, starved>>

-----------------------------------------------------------------------------
(***************************************************************************)
(* pthread_tls_trampoline()                                                *)
(***************************************************************************)
TakeStart(t) ==
  /\ state[t] = "start"
  /\ state' = [state EXCEPT ![t] = "tls"]
  /\ FreeRecord(t)
  /\ UNCHANGED <<caller, tls, starved>>

\* the block that a thread allocates
BlockOf(t) == t

\* The allocation is not tested, so that TPIDR_EL0 may become NULL.
Install(t) ==
  /\ state[t] = "tls"
  /\ state' = [state EXCEPT ![t] = "run"]
  /\ \/ tls' = [tls EXCEPT ![t] = BlockOf(t)] /\ UNCHANGED starved
     \/ tls' = [tls EXCEPT ![t] = NoBlock] /\ starved' = TRUE
  /\ UNCHANGED <<caller, record, misuse>>

\* s.entry() returns, and the block is leaked.
Leave(t) ==
  /\ state[t] = "run"
  /\ state' = [state EXCEPT ![t] = "ended"]
  /\ UNCHANGED <<caller, record, tls, starved, misuse>>

\* what needs no code of the game to run
ThreadStep(t) == Create(t) \/ Created(t) \/ TakeStart(t) \/ Install(t) \/ Leave(t)

-----------------------------------------------------------------------------
ThreadTypeOK ==
  /\ caller \in [Thread -> {"none", "calling", "created", "refused", "done"}]
  /\ state \in [Thread -> {"none", "start", "tls", "run", "ended"}]
  /\ record \in [Thread -> {"none", "live", "freed"}]
  /\ tls \in [Thread \cup {MainThread} -> Thread \cup {MainThread, NoBlock}]
  /\ starved \in BOOLEAN /\ misuse \in BOOLEAN

\* However the creator and the new thread interleave, the ThreadStart is read
\* while it is there, freed once, and not leaked, whether or not there is a thread.
StartRecordSafe ==
  /\ ~misuse
  /\ \A t \in Thread :
       /\ state[t] = "start" => record[t] = "live"
       /\ caller[t] = "done" /\ state[t] # "start" => record[t] = "freed"

\* No two threads of the game share a block, neither with each other nor with
\* main(), and only when memory had run out does one run without.
OwnTls ==
  \A t \in Thread : state[t] \in {"run", "ended"} =>
    tls[t] = t \/ (starved /\ tls[t] = NoBlock)

\* A thread of the game gets what it was created for, and runs on a block of its own.
ThreadsSound == StartRecordSafe /\ OwnTls
=============================================================================
