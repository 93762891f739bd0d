---------------------------- MODULE PthreadMutex ----------------------------
(***************************************************************************)
(* The pthread mutexes that source/imports.c gives the game.  A bionic     *)
(* mutex is one word of the game's memory.  A static initialiser leaves it *)
(* zero or a small sentinel, and ensure_mutex() replaces that by a newlib  *)
(* mutex at the first use, which several threads may race to do.           *)
(*                                                                         *)
(* The game is a client that keeps the contract of pthread mutexes: it     *)
(* initialises a word before it uses it unless the word has a static       *)
(* initialiser, only destroys a word that no thread uses, only unlocks     *)
(* what it has locked, relocks only recursive mutexes, and unlocks in the  *)
(* end.  A thread is inside one mutex at a time, because words share       *)
(* nothing but the heap.  It does not go on when a lock call fails.        *)
(***************************************************************************)
EXTENDS Integers, FiniteSets

CONSTANTS
  Thread,    \* the threads of the game
  Word,      \* the words of game memory that hold a mutex
  Address,   \* where calloc() may put a mutex; it fails when all are taken
  NoThread,  \* "nobody"
  NoAddress, \* "no mutex"
  MaxDepth   \* bound: how often a thread enters a recursive mutex

\* The contents of a word that is not the address of a mutex: 0, 0x4000, and
\* any other value up to 0x8000, such as bionic's errorcheck initialiser.
Marker == {"zero", "recursive", "other"}

ASSUME AddressAssumption ==
  /\ NoThread \notin Thread
  /\ NoAddress \notin Address
  /\ Marker \cap Address = {}
ASSUME MaxDepthAssumption == MaxDepth \in Nat \ {0}

VARIABLES
  storage, \* storage[w]: *uid, a marker or an address
  heap,    \* heap[a]: the kind of the mutex at a, or "free"
  owner,   \* owner[a]: the thread that has locked the mutex at a
  count,   \* count[a]: how often it has
  pc,      \* pc[t]: where t is in a lock or unlock call
  op,      \* op[t]: the call t is in, or was in last
  word,    \* word[t]: the word it was called with
  current, \* current[t]: the marker ensure_mutex() has loaded
  fresh,   \* fresh[t]: the mutex it has allocated and not yet published
  target,  \* target[t]: the mutex that lock or unlock is called on
  usable,  \* history: usable[w], initialised and not destroyed
  wanted,  \* history: wanted[w], the kind of mutex the game asked for
  inside   \* history: inside[t][w], successful locks less unlocks

clientVars == <<usable, wanted>>
callVars   == <<op, word>>
vars == <<storage, heap, owner, count, pc, callVars, current, fresh, target,
          clientVars, inside>>

Kind == {"normal", "recursive"}

\* The kind that a static initialiser asks for.
WantedBy(marker) == CASE marker = "zero"      -> "normal"
                      [] marker = "recursive" -> "recursive"
                      [] marker = "other"     -> "unsupported"

Init ==
  /\ storage \in [Word -> Marker]
  /\ wanted = [w \in Word |-> WantedBy(storage[w])]
  /\ usable \in [Word -> BOOLEAN]
  /\ heap = [a \in Address |-> "free"]
  /\ owner = [a \in Address |-> NoThread]
  /\ count = [a \in Address |-> 0]
  /\ pc = [t \in Thread |-> "idle"]
  /\ op = [t \in Thread |-> "lock"]
  /\ word \in [Thread -> Word]
  /\ current = [t \in Thread |-> "zero"]
  /\ fresh = [t \in Thread |-> NoAddress]
  /\ target = [t \in Thread |-> NoAddress]
  /\ inside = [t \in Thread |-> [w \in Word |-> 0]]

-----------------------------------------------------------------------------
(***************************************************************************)
(* The heap: allocate_mutex() leaves nothing behind when it fails.         *)
(***************************************************************************)
Free == {a \in Address : heap[a] = "free"}

\* pthread_mutex_destroy() and free()
Discard(a) == heap' = [heap EXCEPT ![a] = "free"]

-----------------------------------------------------------------------------
(***************************************************************************)
(* pthread_mutex_init_fake() and pthread_mutex_destroy_fake().  No other   *)
(* thread uses the word meanwhile, so that each is one step.               *)
(***************************************************************************)
Unused(w) == \A t \in Thread : inside[t][w] = 0 /\ (pc[t] # "idle" => word[t] # w)

InitMutex(t, w, kind) ==
  /\ pc[t] = "idle" /\ ~usable[w] /\ Unused(w)
  /\ \E a \in Free :
       /\ heap' = [heap EXCEPT ![a] = kind]
       /\ storage' = [storage EXCEPT ![w] = a]
  /\ usable' = [usable EXCEPT ![w] = TRUE]
  /\ wanted' = [wanted EXCEPT ![w] = kind]
  /\ UNCHANGED <<owner, count, pc, callVars, current, fresh, target, inside>>

\* What pthread_mutex_destroy_fake() leaves in a word that held an address.
AfterDestroy(w) == "zero"

DestroyMutex(t, w) ==
  /\ pc[t] = "idle" /\ usable[w] /\ Unused(w)
  /\ IF storage[w] \in Address
     THEN Discard(storage[w]) /\ storage' = [storage EXCEPT ![w] = AfterDestroy(w)]
     ELSE UNCHANGED <<heap, storage>>
  /\ usable' = [usable EXCEPT ![w] = FALSE]
  /\ UNCHANGED <<wanted, owner, count, pc, callVars, current, fresh, target,
                 inside>>

-----------------------------------------------------------------------------
(***************************************************************************)
(* The client calls lock or unlock.                                        *)
(***************************************************************************)
MayLock(t, w) ==
  /\ usable[w]
  /\ \A v \in Word \ {w} : inside[t][v] = 0
  /\ IF wanted[w] = "recursive" THEN inside[t][w] < MaxDepth ELSE inside[t][w] = 0

CallLock(t, w) ==
  /\ pc[t] = "idle" /\ MayLock(t, w)
  /\ pc' = [pc EXCEPT ![t] = "load"]
  /\ op' = [op EXCEPT ![t] = "lock"]
  /\ word' = [word EXCEPT ![t] = w]
  /\ UNCHANGED <<storage, heap, owner, count, current, fresh, target,
                 clientVars, inside>>

CallUnlock(t, w) ==
  /\ pc[t] = "idle" /\ inside[t][w] > 0
  /\ pc' = [pc EXCEPT ![t] = "load"]
  /\ op' = [op EXCEPT ![t] = "unlock"]
  /\ word' = [word EXCEPT ![t] = w]
  /\ UNCHANGED <<storage, heap, owner, count, current, fresh, target,
                 clientVars, inside>>

-----------------------------------------------------------------------------
(***************************************************************************)
(* ensure_mutex(), one step per access to *uid.                            *)
(***************************************************************************)
\* Load the word: an address is used as it is, an unknown marker makes the
\* call fail.
Load(t) ==
  /\ pc[t] = "load"
  /\ LET value == storage[word[t]] IN
       IF value \in Marker
       THEN /\ current' = [current EXCEPT ![t] = value]
            /\ pc' = [pc EXCEPT ![t] = IF value = "other" THEN "idle" ELSE "alloc"]
       ELSE pc' = [pc EXCEPT ![t] = "read"] /\ UNCHANGED current
  /\ UNCHANGED <<storage, heap, owner, count, callVars, fresh, target,
                 clientVars, inside>>

\* Mutant of KindOf: the sentinel is not told from zero.
AlwaysNormal(marker) == "normal"
\* The kind of mutex that ensure_mutex() allocates.
KindOf(marker) == IF marker = "recursive" THEN "recursive" ELSE "normal"

Allocate(t) ==
  /\ pc[t] = "alloc"
  /\ \E a \in Free :
       /\ heap' = [heap EXCEPT ![a] = KindOf(current[t])]
       /\ fresh' = [fresh EXCEPT ![t] = a]
  /\ pc' = [pc EXCEPT ![t] = "cas"]
  /\ UNCHANGED <<storage, owner, count, callVars, current, target, clientVars,
                 inside>>

AllocateFails(t) ==
  /\ pc[t] = "alloc" /\ Free = {}
  /\ pc' = [pc EXCEPT ![t] = "idle"]
  /\ UNCHANGED <<storage, heap, owner, count, callVars, current, fresh, target,
                 clientVars, inside>>

\* Mutant of Publishes: the new address is stored without a comparison.
StoresAlways(t) == TRUE
\* The compare-and-exchange succeeds.
Publishes(t) == storage[word[t]] = current[t]

\* Mutant of DiscardLost: the thread that lost the race leaks its mutex.
LeakLost(a) == UNCHANGED heap
\* The thread that lost the race destroys and frees its mutex.
DiscardLost(a) == Discard(a)

CompareExchange(t) ==
  /\ pc[t] = "cas"
  /\ IF Publishes(t)
     THEN storage' = [storage EXCEPT ![word[t]] = fresh[t]] /\ UNCHANGED heap
     ELSE DiscardLost(fresh[t]) /\ UNCHANGED storage
  /\ fresh' = [fresh EXCEPT ![t] = NoAddress]
  /\ pc' = [pc EXCEPT ![t] = "read"]
  /\ UNCHANGED <<owner, count, callVars, current, target, clientVars, inside>>

\* The second read of *uid, for the argument of the newlib call.
Read(t) ==
  /\ pc[t] = "read"
  /\ target' = [target EXCEPT ![t] = storage[word[t]]]
  /\ pc' = [pc EXCEPT ![t] = op[t]]
  /\ UNCHANGED <<storage, heap, owner, count, callVars, current, fresh,
                 clientVars, inside>>

-----------------------------------------------------------------------------
(***************************************************************************)
(* The newlib mutex: pthread_mutex_lock() waits until the mutex is free,   *)
(* or is a recursive one that its owner locks again.                       *)
(***************************************************************************)
Granted(t) ==
  LET a == target[t] IN
    owner[a] = NoThread \/ (owner[a] = t /\ heap[a] = "recursive")

Acquire(t) ==
  /\ pc[t] = "lock" /\ Granted(t)
  /\ LET a == target[t] IN
       /\ owner' = [owner EXCEPT ![a] = t]
       /\ count' = [count EXCEPT ![a] = count[a] + 1]
  /\ inside' = [inside EXCEPT ![t][word[t]] = inside[t][word[t]] + 1]
  /\ pc' = [pc EXCEPT ![t] = "idle"]
  /\ target' = [target EXCEPT ![t] = NoAddress]
  /\ UNCHANGED <<storage, heap, callVars, current, fresh, clientVars>>

Release(t) ==
  /\ pc[t] = "unlock"
  /\ LET a == target[t] IN
       /\ owner' = [owner EXCEPT ![a] = IF count[a] = 1 THEN NoThread ELSE owner[a]]
       /\ count' = [count EXCEPT ![a] = count[a] - 1]
  /\ inside' = [inside EXCEPT ![t][word[t]] = inside[t][word[t]] - 1]
  /\ pc' = [pc EXCEPT ![t] = "idle"]
  /\ target' = [target EXCEPT ![t] = NoAddress]
  /\ UNCHANGED <<storage, heap, callVars, current, fresh, clientVars>>

Ensure(t) == Load(t) \/ Allocate(t) \/ AllocateFails(t) \/ CompareExchange(t)
Shim(t)   == Ensure(t) \/ Read(t) \/ Release(t)
Client(t) == \E w \in Word :
               \/ DestroyMutex(t, w) \/ CallLock(t, w) \/ CallUnlock(t, w)
               \/ \E kind \in Kind : InitMutex(t, w, kind)

Next == \E t \in Thread : Shim(t) \/ Acquire(t) \/ Client(t)

Spec == Init /\ [][Next]_vars

(***************************************************************************)
(* A thread inside ensure_mutex() or unlock runs on, and a mutex that is   *)
(* free again and again is granted.  The game unlocks what it has locked,  *)
(* and does not relock a recursive mutex for ever without leaving it.      *)
(***************************************************************************)
Fairness ==
  \A t \in Thread :
    /\ WF_vars(Shim(t))
    /\ SF_vars(Acquire(t))
    /\ \A w \in Word :
         /\ WF_vars(CallUnlock(t, w))
         /\ []<>(inside[t][w] = 0) \/ <>[][~CallLock(t, w)]_vars

FairSpec == Spec /\ Fairness

-----------------------------------------------------------------------------
TypeOK ==
  /\ storage \in [Word -> Marker \cup Address]
  /\ heap \in [Address -> Kind \cup {"free"}]
  /\ owner \in [Address -> Thread \cup {NoThread}]
  /\ count \in [Address -> Nat]
  /\ pc \in [Thread -> {"idle", "load", "alloc", "cas", "read", "lock", "unlock"}]
  /\ op \in [Thread -> {"lock", "unlock"}]
  /\ word \in [Thread -> Word]
  /\ current \in [Thread -> Marker]
  /\ fresh \in [Thread -> Address \cup {NoAddress}]
  /\ target \in [Thread -> Address \cup {NoAddress}]
  /\ usable \in [Word -> BOOLEAN]
  /\ wanted \in [Word -> Kind \cup {"unsupported"}]
  /\ inside \in [Thread -> [Word -> Nat]]

\* Two threads are never inside the same mutex, also when both raced to
\* materialise it.
MutualExclusion ==
  \A w \in Word, t, u \in Thread : inside[t][w] > 0 /\ inside[u][w] > 0 => t = u

\* The mutex that newlib is called on is live, and is the one in the word: no
\* thread waits on the mutex of a thread that lost the race, or on a freed one.
TargetIsCurrent ==
  \A t \in Thread : pc[t] \in {"lock", "unlock"} =>
    /\ target[t] = storage[word[t]]
    /\ target[t] \in Address /\ heap[target[t]] # "free"

\* A mutex in a word or about to be published.
Reachable(a) == \/ \E w \in Word : storage[w] = a
                \/ \E t \in Thread : fresh[t] = a

AllReachable == \A a \in Address : heap[a] # "free" <=> Reachable(a)
NoSharing ==
  /\ \A v, w \in Word : storage[v] = storage[w] /\ storage[v] \in Address => v = w
  /\ \A t, u \in Thread : fresh[t] = fresh[u] /\ fresh[t] # NoAddress => t = u
  /\ \A w \in Word, t \in Thread : storage[w] \in Address => storage[w] # fresh[t]

\* Every mutex on the heap is in one word or is about to be published by one
\* thread, and every such mutex is live: nothing leaks, nothing is freed twice.
NoLeak == AllReachable /\ NoSharing

\* A materialised mutex is of the kind that the game asked for: a recursive
\* one is not replaced by one on which its owner would hang.
KindKept ==
  \A w \in Word : usable[w] /\ storage[w] \in Address => heap[storage[w]] = wanted[w]

Blocked(t) == pc[t] = "lock" /\ ~Granted(t)

\* A thread that is blocked in lock waits for another thread, which is inside the
\* word and is not blocked itself: no thread waits for itself, as it would if a
\* recursive initialiser gave a plain mutex, and nobody waits for a mutex that
\* nobody will unlock.
WaitsForUser ==
  \A t \in Thread : Blocked(t) =>
    LET u == owner[target[t]] IN
      /\ u # t /\ inside[u][word[t]] > 0
      /\ ~Blocked(u)

\* The words keep threads apart and let them go on: a mutex has one user at a time,
\* and who waits for it waits for that user.
LockSound == MutualExclusion /\ WaitsForUser

\* The mutexes that the threads share through a word are one mutex.
Lock == INSTANCE GameLock WITH
  holder <- [w \in Word |-> IF storage[w] \in Address THEN owner[storage[w]]
                                                      ELSE NoThread],
  depth  <- [w \in Word |-> IF storage[w] \in Address THEN count[storage[w]]
                                                      ELSE 0]

\* Whatever its words hold, the shim gives the game mutexes.
IsGameLock == Lock!Spec

\* Every lock and unlock call returns if what is locked is unlocked.
LockCallsReturn == \A t \in Thread : pc[t] # "idle" ~> pc[t] = "idle"
=============================================================================
