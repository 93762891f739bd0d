-------------------------- MODULE PthreadMutexProofs --------------------------
(***************************************************************************)
(* The shim gives any number of threads mutexes in any number of words,    *)
(* however many mutexes the heap holds: mutual exclusion, no leak, and the *)
(* refinement of GameLock.                                                 *)
(***************************************************************************)
EXTENDS PthreadMutex, TLAPS

-----------------------------------------------------------------------------
(***************************************************************************)
(* The parts of the inductive invariant.                                   *)
(***************************************************************************)
\* Only a thread between allocation and publication has a mutex of its own,
\* a mutex that is in no word is not locked, and only a usable word holds one.
FreshInCas == \A t \in Thread : fresh[t] # NoAddress <=> pc[t] = "cas"
PrivateUnlocked ==
  \A a \in Address : (\A w \in Word : storage[w] # a)
                    => owner[a] = NoThread /\ count[a] = 0
UnusableEmpty == \A w \in Word : usable[w] \/ storage[w] \in Marker

Heap == AllReachable /\ NoSharing /\ FreshInCas /\ PrivateUnlocked /\ UnusableEmpty

\* A call is made on a usable word.  From the second read of the word on the
\* word holds a mutex, and the call is on that mutex.
Calls ==
  \A t \in Thread :
    /\ pc[t] # "idle" => usable[word[t]]
    /\ pc[t] \in {"read", "lock", "unlock"} => storage[word[t]] \in Address
    /\ pc[t] \in {"lock", "unlock"} => target[t] = storage[word[t]]
    /\ pc[t] \in {"lock", "unlock"} => op[t] = pc[t]
    /\ pc[t] # "idle" /\ op[t] = "unlock" => inside[t][word[t]] > 0
    /\ pc[t] \in {"alloc", "cas"} =>
         \/ storage[word[t]] \in Address
         \/ storage[word[t]] = current[t] /\ current[t] \in {"zero", "recursive"}

\* Whoever is inside a word has locked the mutex in it, as often as it has
\* entered.
Locks ==
  /\ \A t \in Thread, w \in Word : inside[t][w] > 0 =>
       /\ usable[w] /\ storage[w] \in Address
       /\ owner[storage[w]] = t
  /\ \A w \in Word : storage[w] \in Address =>
       /\ owner[storage[w]] = NoThread => count[storage[w]] = 0
       /\ \A t \in Thread : owner[storage[w]] = t =>
            inside[t][w] = count[storage[w]] /\ count[storage[w]] > 0

\* Markers tell the kind of the mutex that will replace them.
Kinds ==
  /\ KindKept
  /\ \A w \in Word : usable[w] /\ storage[w] \in Marker => wanted[w] = WantedBy(storage[w])
  /\ \A t \in Thread : pc[t] = "cas" => heap[fresh[t]] = KindOf(current[t])

\* A thread is inside one word at a time, in calls too, and calls lock on a word
\* that it is inside only if it asked for a recursive mutex.
OneWord ==
  \A t \in Thread, v, w \in Word : inside[t][v] > 0 /\ inside[t][w] > 0 => v = w
CallInWord ==
  \A t \in Thread, w \in Word : pc[t] # "idle" /\ inside[t][w] > 0 => w = word[t]
Relocks ==
  \A t \in Thread : pc[t] # "idle" /\ op[t] = "lock" /\ inside[t][word[t]] > 0
                     => wanted[word[t]] = "recursive"

Waits == OneWord /\ CallInWord /\ Relocks

-----------------------------------------------------------------------------
(***************************************************************************)
(* Each part is preserved by every step.                                   *)
(***************************************************************************)
\* Every step preserves the types.
LEMMA TypeStep ==
  ASSUME TypeOK, Heap, Calls, Locks, [Next]_vars
  PROVE  TypeOK'
<1> USE AddressAssumption DEF TypeOK, Kind, callVars, clientVars
<1>1. ASSUME NEW t \in Thread, NEW w \in Word, NEW kind \in Kind, InitMutex(t, w, kind) PROVE TypeOK'
  BY <1>1 DEF InitMutex, Free
<1>2. ASSUME NEW t \in Thread, NEW w \in Word, DestroyMutex(t, w) PROVE TypeOK'
  BY <1>2 DEF DestroyMutex, Discard, AfterDestroy, Marker
<1>3. ASSUME NEW t \in Thread, NEW w \in Word, CallLock(t, w) PROVE TypeOK'
  BY <1>3 DEF CallLock, MayLock
<1>4. ASSUME NEW t \in Thread, NEW w \in Word, CallUnlock(t, w) PROVE TypeOK'
  BY <1>4 DEF CallUnlock
<1>5. ASSUME NEW t \in Thread, Load(t) PROVE TypeOK'
  BY <1>5 DEF Load
<1>6. ASSUME NEW t \in Thread, Allocate(t) PROVE TypeOK'
  BY <1>6 DEF Allocate, Free, KindOf
<1>7. ASSUME NEW t \in Thread, AllocateFails(t) PROVE TypeOK'
  BY <1>7 DEF AllocateFails
<1>8. ASSUME NEW t \in Thread, CompareExchange(t) PROVE TypeOK'
  BY <1>8 DEF CompareExchange, DiscardLost, Discard, Heap, FreshInCas
<1>9. ASSUME NEW t \in Thread, Read(t) PROVE TypeOK'
  BY <1>9 DEF Read, Calls
<1>10. ASSUME NEW t \in Thread, Acquire(t) PROVE TypeOK'
  BY <1>10 DEF Acquire, Granted, Calls
<1>11. ASSUME NEW t \in Thread, Release(t) PROVE TypeOK'
  <2>1. target[t] \in Address /\ word[t] \in Word
    BY <1>11 DEF Release, Calls
  <2>2. owner[target[t]] = t /\ count[target[t]] > 0 /\ inside[t][word[t]] > 0
    BY <1>11, <2>1 DEF Release, Calls, Locks
  <2>3. owner' \in [Address -> Thread \cup {NoThread}]
    BY <1>11, <2>1 DEF Release
  <2>4. count[target[t]] - 1 \in Nat /\ inside[t][word[t]] - 1 \in Nat
    BY <2>1, <2>2
  <2>5. count' \in [Address -> Nat]
    BY <1>11, <2>4 DEF Release
  <2>6. inside' \in [Thread -> [Word -> Nat]]
    BY <1>11, <2>4 DEF Release
  <2> QED BY <1>11, <2>3, <2>5, <2>6 DEF Release
<1>12. CASE UNCHANGED vars
  BY <1>12 DEF vars
<1> QED
  BY <1>1, <1>2, <1>3, <1>4, <1>5, <1>6, <1>7, <1>8, <1>9, <1>10, <1>11, <1>12
  DEF Next, Shim, Ensure, Client

\* Every step preserves the account of the heap.
LEMMA HeapStep ==
  ASSUME TypeOK, Heap, Calls, Locks, [Next]_vars
  PROVE  Heap'
<1> USE AddressAssumption
        DEF TypeOK, Heap, AllReachable, Reachable, NoSharing, FreshInCas,
            PrivateUnlocked, UnusableEmpty, Kind, callVars, clientVars
<1>0. ASSUME UNCHANGED <<storage, heap, fresh>>
      PROVE  AllReachable' /\ NoSharing'
  BY <1>0
<1>1. ASSUME NEW t \in Thread, NEW w \in Word, NEW kind \in Kind, InitMutex(t, w, kind) PROVE Heap'
  <2>1. PICK a \in Free : /\ heap' = [heap EXCEPT ![a] = kind]
                          /\ storage' = [storage EXCEPT ![w] = a]
    BY <1>1 DEF InitMutex
  <2>2. UNCHANGED <<fresh, pc, owner, count>> /\ storage[w] \in Marker
    BY <1>1 DEF InitMutex
  <2>3. a \in Address /\ ~Reachable(a)
    BY DEF Free
  <2>4. AllReachable'
    <3>1. ASSUME NEW b \in Address, b # a PROVE Reachable(b)' <=> Reachable(b)
      <4>1. \A v \in Word : storage'[v] = b <=> storage[v] = b
        BY <2>1, <2>2, <3>1
      <4> QED BY <2>2, <4>1
    <3>2. storage'[w] = a /\ heap'[a] # "free"
      BY <2>1, <2>3
    <3>3. \A b \in Address : b # a => heap'[b] = heap[b]
      BY <2>1, <2>3
    <3>4. Reachable(a)'
      BY <3>2
    <3>5. AllReachable
      OBVIOUS
    <3> HIDE DEF Reachable, NoSharing, FreshInCas, PrivateUnlocked, UnusableEmpty
    <3> QED BY <3>1, <3>2, <3>3, <3>4, <3>5
  <2>5. NoSharing' BY <2>1, <2>2, <2>3
  <2>6. FreshInCas' BY <2>2
  <2>7. PrivateUnlocked' BY <2>1, <2>2, <2>3
  <2>8. UnusableEmpty' BY <1>1, <2>1 DEF InitMutex
  <2> QED BY <2>4, <2>5, <2>6, <2>7, <2>8
<1>2. ASSUME NEW t \in Thread, NEW w \in Word, DestroyMutex(t, w) PROVE Heap'
  <2>1. CASE storage[w] \in Address
    <3>1. /\ heap' = [heap EXCEPT ![storage[w]] = "free"]
          /\ storage' = [storage EXCEPT ![w] = "zero"]
          /\ UNCHANGED <<fresh, pc, owner, count>>
      BY <1>2, <2>1 DEF DestroyMutex, Discard, AfterDestroy
    <3>2. owner[storage[w]] = NoThread /\ count[storage[w]] = 0
      BY <1>2, <2>1 DEF DestroyMutex, Unused, Locks
    <3>3. AllReachable' BY <2>1, <3>1 DEF Marker
    <3>4. NoSharing' BY <3>1 DEF Marker
    <3>5. FreshInCas' BY <3>1
    <3>6. PrivateUnlocked' BY <2>1, <3>1, <3>2
    <3>7. UnusableEmpty' BY <1>2, <3>1 DEF DestroyMutex, Marker
    <3> QED BY <3>3, <3>4, <3>5, <3>6, <3>7
  <2>2. CASE storage[w] \notin Address
    BY <1>2, <2>2, <1>0 DEF DestroyMutex
  <2> QED BY <2>1, <2>2
<1>3. ASSUME NEW t \in Thread, NEW w \in Word, CallLock(t, w) PROVE Heap'
  <2>1. UNCHANGED <<storage, heap, fresh, owner, count, usable>>
    BY <1>3 DEF CallLock
  <2>2. FreshInCas' BY <1>3 DEF CallLock
  <2> QED BY <2>1, <2>2, <1>0
<1>4. ASSUME NEW t \in Thread, NEW w \in Word, CallUnlock(t, w) PROVE Heap'
  <2>1. UNCHANGED <<storage, heap, fresh, owner, count, usable>>
    BY <1>4 DEF CallUnlock
  <2>2. FreshInCas' BY <1>4 DEF CallUnlock
  <2> QED BY <2>1, <2>2, <1>0
<1>5. ASSUME NEW t \in Thread, Load(t) PROVE Heap'
  BY <1>5 DEF Load, Marker
<1>6. ASSUME NEW t \in Thread, Allocate(t) PROVE Heap'
  BY <1>6 DEF Allocate, Free, KindOf
<1>7. ASSUME NEW t \in Thread, AllocateFails(t) PROVE Heap'
  <2>1. UNCHANGED <<storage, heap, fresh, owner, count, usable>>
    BY <1>7 DEF AllocateFails
  <2>2. FreshInCas' BY <1>7 DEF AllocateFails
  <2> QED BY <2>1, <2>2, <1>0
<1>8. ASSUME NEW t \in Thread, CompareExchange(t) PROVE Heap'
  <2>1. /\ fresh[t] \in Address /\ word[t] \in Word
        /\ fresh' = [fresh EXCEPT ![t] = NoAddress]
        /\ pc' = [pc EXCEPT ![t] = "read"]
        /\ UNCHANGED <<owner, count, usable>>
    BY <1>8 DEF CompareExchange
  <2>2. FreshInCas' BY <2>1
  <2>3. CASE Publishes(t)
    <3>1. storage' = [storage EXCEPT ![word[t]] = fresh[t]] /\ heap' = heap
      BY <1>8, <2>3 DEF CompareExchange
    <3>2. storage[word[t]] \in Marker
      BY <2>3 DEF Publishes
    <3>7. storage'[word[t]] = fresh[t] /\ heap[fresh[t]] # "free"
      BY <2>1, <3>1
    <3>8. ASSUME NEW a \in Address, a # fresh[t] PROVE Reachable(a)' <=> Reachable(a)
      <4>1. \A w \in Word : storage'[w] = a <=> storage[w] = a
        BY <3>1, <3>2, <3>7, <3>8
      <4>2. \A u \in Thread : fresh'[u] = a <=> fresh[u] = a
        BY <2>1, <3>8
      <4> QED BY <4>1, <4>2
    <3>9. ASSUME NEW a \in Address, a = fresh[t] PROVE Reachable(a)'
      BY <2>1, <3>7, <3>9
    <3>3. AllReachable' BY <3>1, <3>7, <3>8, <3>9
    <3>4. NoSharing' BY <2>1, <3>1, <3>2
    <3>5. PrivateUnlocked' BY <2>1, <3>1, <3>2
    <3>6. UnusableEmpty' BY <1>8, <2>1, <3>1 DEF CompareExchange, Calls
    <3> QED BY <2>2, <3>3, <3>4, <3>5, <3>6
  <2>4. CASE ~Publishes(t)
    <3>1. storage' = storage /\ heap' = [heap EXCEPT ![fresh[t]] = "free"]
      BY <1>8, <2>4 DEF CompareExchange, DiscardLost, Discard
    <3>7. ASSUME NEW a \in Address, a # fresh[t] PROVE Reachable(a)' <=> Reachable(a)
      BY <2>1, <3>1, <3>7
    <3>8. ASSUME NEW a \in Address, a = fresh[t] PROVE ~Reachable(a)'
      <4>1. \A w \in Word : storage'[w] # a
        BY <2>1, <3>1, <3>8
      <4>2. \A u \in Thread : fresh'[u] # a
        BY <2>1, <3>8
      <4> QED BY <4>1, <4>2
    <3>2. AllReachable' BY <2>1, <3>1, <3>7, <3>8
    <3>3. NoSharing' BY <2>1, <3>1
    <3> QED BY <2>1, <2>2, <3>1, <3>2, <3>3
  <2> QED BY <2>3, <2>4
<1>9. ASSUME NEW t \in Thread, Read(t) PROVE Heap'
  <2>1. UNCHANGED <<storage, heap, fresh, owner, count, usable>>
    BY <1>9 DEF Read
  <2>2. FreshInCas' BY <1>9 DEF Read
  <2> QED BY <2>1, <2>2, <1>0
<1>10. ASSUME NEW t \in Thread, Acquire(t) PROVE Heap'
  <2>1. UNCHANGED <<storage, heap, fresh, usable>>
    BY <1>10 DEF Acquire, Granted
  <2>2. FreshInCas' BY <1>10 DEF Acquire, Granted
  <2>3. target[t] = storage[word[t]] /\ word[t] \in Word
    BY <1>10 DEF Acquire, Granted, Calls
  <2>4. PrivateUnlocked' BY <1>10, <2>3 DEF Acquire, Granted
  <2> QED BY <2>1, <2>2, <2>4, <1>0
<1>11. ASSUME NEW t \in Thread, Release(t) PROVE Heap'
  <2>1. UNCHANGED <<storage, heap, fresh, usable>>
    BY <1>11 DEF Release
  <2>2. FreshInCas' BY <1>11 DEF Release
  <2>3. target[t] = storage[word[t]] /\ word[t] \in Word
    BY <1>11 DEF Release, Calls
  <2>4. PrivateUnlocked' BY <1>11, <2>3 DEF Release
  <2> QED BY <2>1, <2>2, <2>4, <1>0
<1>12. CASE UNCHANGED vars
  BY <1>12 DEF vars
<1> QED
  BY <1>1, <1>2, <1>3, <1>4, <1>5, <1>6, <1>7, <1>8, <1>9, <1>10, <1>11, <1>12
  DEF Next, Shim, Ensure, Client

\* Every step preserves what is known of a call.
LEMMA CallsStep ==
  ASSUME TypeOK, Heap, Calls, Locks, [Next]_vars
  PROVE  Calls'
<1> USE AddressAssumption DEF TypeOK, Calls, callVars, clientVars
<1>1. ASSUME NEW t \in Thread, NEW w \in Word, NEW kind \in Kind, InitMutex(t, w, kind) PROVE Calls'
  BY <1>1 DEF InitMutex, Unused
<1>2. ASSUME NEW t \in Thread, NEW w \in Word, DestroyMutex(t, w) PROVE Calls'
  BY <1>2 DEF DestroyMutex, Discard, AfterDestroy, Unused
<1>3. ASSUME NEW t \in Thread, NEW w \in Word, CallLock(t, w) PROVE Calls'
  BY <1>3 DEF CallLock, MayLock
<1>4. ASSUME NEW t \in Thread, NEW w \in Word, CallUnlock(t, w) PROVE Calls'
  BY <1>4 DEF CallUnlock, Locks
<1>5. ASSUME NEW t \in Thread, Load(t) PROVE Calls'
  BY <1>5 DEF Load, Marker
<1>6. ASSUME NEW t \in Thread, Allocate(t) PROVE Calls'
  BY <1>6 DEF Allocate, Free, KindOf
<1>7. ASSUME NEW t \in Thread, AllocateFails(t) PROVE Calls'
  BY <1>7 DEF AllocateFails
<1>8. ASSUME NEW t \in Thread, CompareExchange(t) PROVE Calls'
  <2>1. /\ pc[t] = "cas" /\ word[t] \in Word /\ fresh[t] \in Address
        /\ pc' = [pc EXCEPT ![t] = "read"]
        /\ UNCHANGED <<op, word, current, target, usable, inside>>
    BY <1>8 DEF CompareExchange, Heap, FreshInCas
  <2>2. storage'[word[t]] \in Address
    BY <1>8, <2>1 DEF CompareExchange, Publishes
  <2>3. \A w \in Word : \/ storage'[w] = storage[w]
                       \/ /\ storage[w] \notin Address
                          /\ storage'[w] \in Address
    BY <1>8, <2>1 DEF CompareExchange, Publishes
  <2>4. ASSUME NEW u \in Thread, u # t
        PROVE  /\ pc'[u] = pc[u] /\ word[u] \in Word
               /\ \/ storage'[word[u]] = storage[word[u]]
                  \/ /\ storage[word[u]] \notin Address
                     /\ storage'[word[u]] \in Address
    BY <2>1, <2>3, <2>4
  <2> QED BY <2>1, <2>2, <2>4
<1>9. ASSUME NEW t \in Thread, Read(t) PROVE Calls'
  BY <1>9 DEF Read
<1>10. ASSUME NEW t \in Thread, Acquire(t) PROVE Calls'
  BY <1>10 DEF Acquire, Granted
<1>11. ASSUME NEW t \in Thread, Release(t) PROVE Calls'
  BY <1>11 DEF Release
<1>12. CASE UNCHANGED vars
  BY <1>12 DEF vars
<1> QED
  BY <1>1, <1>2, <1>3, <1>4, <1>5, <1>6, <1>7, <1>8, <1>9, <1>10, <1>11, <1>12
  DEF Next, Shim, Ensure, Client

\* Every step preserves the account of who is inside.
LEMMA LocksStep ==
  ASSUME TypeOK, Heap, Calls, Locks, [Next]_vars
  PROVE  Locks'
<1> USE AddressAssumption DEF TypeOK, Heap, Locks, callVars, clientVars
<1>1. ASSUME NEW t \in Thread, NEW w \in Word, NEW kind \in Kind, InitMutex(t, w, kind) PROVE Locks'
  BY <1>1 DEF InitMutex, Unused, Free, Reachable, NoSharing, AllReachable, UnusableEmpty, PrivateUnlocked
<1>2. ASSUME NEW t \in Thread, NEW w \in Word, DestroyMutex(t, w) PROVE Locks'
  BY <1>2 DEF DestroyMutex, Discard, AfterDestroy, Unused, Marker, NoSharing, PrivateUnlocked
<1>3. ASSUME NEW t \in Thread, NEW w \in Word, CallLock(t, w) PROVE Locks'
  BY <1>3 DEF CallLock, MayLock
<1>4. ASSUME NEW t \in Thread, NEW w \in Word, CallUnlock(t, w) PROVE Locks'
  BY <1>4 DEF CallUnlock
<1>5. ASSUME NEW t \in Thread, Load(t) PROVE Locks'
  BY <1>5 DEF Load
<1>6. ASSUME NEW t \in Thread, Allocate(t) PROVE Locks'
  BY <1>6 DEF Allocate, Free, KindOf
<1>7. ASSUME NEW t \in Thread, AllocateFails(t) PROVE Locks'
  BY <1>7 DEF AllocateFails
<1>8. ASSUME NEW t \in Thread, CompareExchange(t) PROVE Locks'
  <2>1. UNCHANGED <<owner, count, usable, inside>> /\ word[t] \in Word
    BY <1>8 DEF CompareExchange
  <2>2. CASE Publishes(t)
    <3>1. storage' = [storage EXCEPT ![word[t]] = fresh[t]] /\ fresh[t] \in Address
      BY <1>8, <2>2 DEF CompareExchange, FreshInCas
    <3>2. storage[word[t]] \in Marker
      BY <2>2 DEF Publishes
    <3>3. owner[fresh[t]] = NoThread /\ count[fresh[t]] = 0
      BY <3>1 DEF NoSharing, PrivateUnlocked
    <3> QED BY <2>1, <3>1, <3>2, <3>3
  <2>3. CASE ~Publishes(t)
    BY <1>8, <2>1, <2>3 DEF CompareExchange
  <2> QED BY <2>2, <2>3
<1>9. ASSUME NEW t \in Thread, Read(t) PROVE Locks'
  BY <1>9 DEF Read, Calls
<1>10. ASSUME NEW t \in Thread, Acquire(t) PROVE Locks'
  BY <1>10 DEF Acquire, Granted, Calls, NoSharing
<1>11. ASSUME NEW t \in Thread, Release(t) PROVE Locks'
  <2>1. target[t] = storage[word[t]] /\ word[t] \in Word
        /\ target[t] \in Address /\ inside[t][word[t]] > 0
    BY <1>11 DEF Release, Calls
  <2>2. owner[target[t]] = t /\ inside[t][word[t]] = count[target[t]]
    BY <2>1
  <2>3. \A w \in Word : w # word[t] => storage[w] # target[t]
    BY <2>1 DEF NoSharing
  <2>4. UNCHANGED <<storage, usable>>
    BY <1>11 DEF Release
  <2>5. /\ inside' = [inside EXCEPT ![t][word[t]] = inside[t][word[t]] - 1]
        /\ count' = [count EXCEPT ![target[t]] = count[target[t]] - 1]
        /\ owner' = [owner EXCEPT ![target[t]] =
                       IF count[target[t]] = 1 THEN NoThread ELSE t]
    BY <1>11, <2>2 DEF Release
  <2>6. \A u \in Thread, w \in Word : w # word[t] =>
          /\ inside'[u][w] = inside[u][w]
          /\ storage[w] \in Address =>
               owner'[storage[w]] = owner[storage[w]]
               /\ count'[storage[w]] = count[storage[w]]
    BY <2>1, <2>3, <2>5
  <2>7. \A u \in Thread : u # t => inside'[u][word[t]] = inside[u][word[t]]
                                /\ inside[u][word[t]] = 0
    BY <2>1, <2>2, <2>5
  <2>8. /\ inside'[t][word[t]] = count[target[t]] - 1
        /\ count'[target[t]] = count[target[t]] - 1
        /\ owner'[target[t]] = IF count[target[t]] = 1 THEN NoThread ELSE t
        /\ count[target[t]] \in Nat
    BY <2>1, <2>2, <2>5
  <2>9. ASSUME NEW u \in Thread, NEW w \in Word, inside'[u][w] > 0
        PROVE  usable[w] /\ storage[w] \in Address /\ owner'[storage[w]] = u
    <3>1. CASE w # word[t] BY <2>6, <2>9, <3>1
    <3>2. CASE w = word[t] /\ u # t BY <2>7, <2>9, <3>2
    <3>3. CASE w = word[t] /\ u = t BY <2>1, <2>8, <2>9, <3>3
    <3> QED BY <3>1, <3>2, <3>3
  <2>10. ASSUME NEW w \in Word, storage[w] \in Address
         PROVE  /\ owner'[storage[w]] = NoThread => count'[storage[w]] = 0
                /\ \A u \in Thread : owner'[storage[w]] = u =>
                     /\ inside'[u][w] = count'[storage[w]]
                     /\ count'[storage[w]] > 0
    <3>1. CASE w # word[t] BY <2>6, <2>10, <3>1
    <3>2. CASE w = word[t] BY <2>1, <2>2, <2>8, <2>10, <3>2
    <3> QED BY <3>1, <3>2
  <2> QED BY <2>4, <2>9, <2>10
<1>12. CASE UNCHANGED vars
  BY <1>12 DEF vars
<1> QED
  BY <1>1, <1>2, <1>3, <1>4, <1>5, <1>6, <1>7, <1>8, <1>9, <1>10, <1>11, <1>12
  DEF Next, Shim, Ensure, Client

\* Every step preserves the kinds.
LEMMA KindsStep ==
  ASSUME TypeOK, Heap, Calls, Locks, Kinds, [Next]_vars
  PROVE  Kinds'
<1> USE AddressAssumption DEF TypeOK, Heap, AllReachable, NoSharing, Reachable, FreshInCas, Kinds, KindKept, callVars, clientVars
<1>1. ASSUME NEW t \in Thread, NEW w \in Word, NEW kind \in Kind, InitMutex(t, w, kind) PROVE Kinds'
  BY <1>1 DEF InitMutex, Free, UnusableEmpty
<1>2. ASSUME NEW t \in Thread, NEW w \in Word, DestroyMutex(t, w) PROVE Kinds'
  BY <1>2 DEF DestroyMutex, Discard, AfterDestroy
<1>3. ASSUME NEW t \in Thread, NEW w \in Word, CallLock(t, w) PROVE Kinds'
  BY <1>3 DEF CallLock, MayLock
<1>4. ASSUME NEW t \in Thread, NEW w \in Word, CallUnlock(t, w) PROVE Kinds'
  BY <1>4 DEF CallUnlock
<1>5. ASSUME NEW t \in Thread, Load(t) PROVE Kinds'
  <2>1. UNCHANGED <<storage, heap, usable, wanted, fresh>>
    BY <1>5 DEF Load
  <2>2. \A u \in Thread : pc'[u] = "cas" => pc[u] = "cas" /\ u # t
    BY <1>5 DEF Load
  <2>3. \A u \in Thread : u # t => current'[u] = current[u]
    BY <1>5 DEF Load
  <2> QED BY <2>1, <2>2, <2>3 DEF KindOf
<1>6. ASSUME NEW t \in Thread, Allocate(t) PROVE Kinds'
  BY <1>6 DEF Allocate, Free, KindOf
<1>7. ASSUME NEW t \in Thread, AllocateFails(t) PROVE Kinds'
  BY <1>7 DEF AllocateFails
<1>8. ASSUME NEW t \in Thread, CompareExchange(t) PROVE Kinds'
  <2>1. UNCHANGED <<wanted, usable, current>> /\ word[t] \in Word
        /\ pc' = [pc EXCEPT ![t] = "read"] /\ fresh' = [fresh EXCEPT ![t] = NoAddress]
        /\ fresh[t] \in Address
    BY <1>8 DEF CompareExchange
  <2>2. CASE Publishes(t)
    <3>1. storage' = [storage EXCEPT ![word[t]] = fresh[t]] /\ heap' = heap
      BY <1>8, <2>2 DEF CompareExchange
    <3>2. storage[word[t]] = current[t] /\ current[t] \in {"zero", "recursive"}
      BY <1>8, <2>2 DEF CompareExchange, Publishes, Calls, Marker
    <3>3. usable[word[t]] /\ heap[fresh[t]] = KindOf(current[t])
      BY <1>8 DEF CompareExchange, Calls
    <3>4. wanted[word[t]] = KindOf(current[t])
      BY <2>1, <3>2, <3>3 DEF WantedBy, KindOf, Marker
    <3>5. KindKept' BY <2>1, <3>1, <3>3, <3>4
    <3> QED BY <2>1, <3>1, <3>5
  <2>3. CASE ~Publishes(t)
    <3>1. storage' = storage /\ heap' = [heap EXCEPT ![fresh[t]] = "free"]
      BY <1>8, <2>3 DEF CompareExchange, DiscardLost, Discard
    <3>2. \A w \in Word : storage[w] \in Address => storage[w] # fresh[t]
      OBVIOUS
    <3>3. \A u \in Thread : u # t /\ pc[u] = "cas" => fresh[u] # fresh[t]
      BY <2>1
    <3>4. KindKept' BY <2>1, <3>1, <3>2
    <3> QED BY <2>1, <3>1, <3>3, <3>4
  <2> QED BY <2>2, <2>3
<1>9. ASSUME NEW t \in Thread, Read(t) PROVE Kinds'
  BY <1>9 DEF Read
<1>10. ASSUME NEW t \in Thread, Acquire(t) PROVE Kinds'
  BY <1>10 DEF Acquire, Granted
<1>11. ASSUME NEW t \in Thread, Release(t) PROVE Kinds'
  BY <1>11 DEF Release
<1>12. CASE UNCHANGED vars
  BY <1>12 DEF vars
<1> QED
  BY <1>1, <1>2, <1>3, <1>4, <1>5, <1>6, <1>7, <1>8, <1>9, <1>10, <1>11, <1>12
  DEF Next, Shim, Ensure, Client

\* Every step preserves what is known of the words that a thread is inside.
LEMMA WaitsStep ==
  ASSUME TypeOK, Heap, Calls, Locks, Waits, [Next]_vars
  PROVE  Waits'
<1> USE DEF TypeOK, Waits, OneWord, CallInWord, Relocks, callVars, clientVars
<1>1. ASSUME NEW t \in Thread, NEW w \in Word, NEW kind \in Kind, InitMutex(t, w, kind) PROVE Waits'
  BY <1>1 DEF InitMutex, Unused
<1>2. ASSUME NEW t \in Thread, NEW w \in Word, DestroyMutex(t, w) PROVE Waits'
  BY <1>2 DEF DestroyMutex
<1>3. ASSUME NEW t \in Thread, NEW w \in Word, CallLock(t, w) PROVE Waits'
  BY <1>3 DEF CallLock, MayLock
<1>4. ASSUME NEW t \in Thread, NEW w \in Word, CallUnlock(t, w) PROVE Waits'
  BY <1>4 DEF CallUnlock
<1>5. ASSUME NEW t \in Thread, Load(t) PROVE Waits'
  BY <1>5 DEF Load
<1>6. ASSUME NEW t \in Thread, Allocate(t) PROVE Waits'
  BY <1>6 DEF Allocate
<1>7. ASSUME NEW t \in Thread, AllocateFails(t) PROVE Waits'
  BY <1>7 DEF AllocateFails
<1>8. ASSUME NEW t \in Thread, CompareExchange(t) PROVE Waits'
  BY <1>8 DEF CompareExchange
<1>9. ASSUME NEW t \in Thread, Read(t) PROVE Waits'
  BY <1>9 DEF Read, Calls
<1>10. ASSUME NEW t \in Thread, Acquire(t) PROVE Waits'
  BY <1>10 DEF Acquire
<1>11. ASSUME NEW t \in Thread, Release(t) PROVE Waits'
  BY <1>11 DEF Release
<1>12. CASE UNCHANGED vars
  BY <1>12 DEF vars
<1> QED
  BY <1>1, <1>2, <1>3, <1>4, <1>5, <1>6, <1>7, <1>8, <1>9, <1>10, <1>11, <1>12
  DEF Next, Shim, Ensure, Client

-----------------------------------------------------------------------------
(***************************************************************************)
(* The theorems.                                                           *)
(***************************************************************************)
IInv == TypeOK /\ Heap /\ Calls /\ Locks /\ Kinds /\ Waits

\* The inductive invariant holds in every reachable state.
THEOREM Invariant == Spec => []IInv
<1>1. Init => IInv
  <2> SUFFICES ASSUME Init PROVE IInv
    OBVIOUS
  <2> USE AddressAssumption DEF Init
  <2>1. TypeOK
    BY DEF TypeOK, Marker, Kind, WantedBy
  <2>2. Heap
    BY DEF Heap, AllReachable, Reachable, NoSharing, FreshInCas,
       PrivateUnlocked, UnusableEmpty
  <2>3. Calls /\ Locks
    BY DEF Calls, Locks
  <2>4. Kinds
    BY DEF Kinds, KindKept
  <2>5. Waits
    BY DEF Waits, OneWord, CallInWord, Relocks
  <2> QED BY <2>1, <2>2, <2>3, <2>4, <2>5 DEF IInv
<1>2. IInv /\ [Next]_vars => IInv'
  BY TypeStep, HeapStep, CallsStep, LocksStep, KindsStep, WaitsStep DEF IInv
<1> QED BY <1>1, <1>2, PTL DEF Spec

\* Every reachable state is well-typed.
THEOREM TypeCorrect == Spec => []TypeOK
<1>1. IInv => TypeOK BY DEF IInv
<1> QED BY <1>1, Invariant, PTL

\* Two threads are never inside the same mutex, also when both raced to
\* materialise it.
THEOREM Exclusion == Spec => []MutualExclusion
<1>1. IInv => MutualExclusion
  BY DEF IInv, Locks, MutualExclusion
<1> QED BY <1>1, Invariant, PTL

\* lock and unlock reach newlib with the live mutex that is in the word.
THEOREM TargetCorrect == Spec => []TargetIsCurrent
<1>1. IInv => TargetIsCurrent
  BY DEF IInv, TypeOK, Calls, Heap, AllReachable, Reachable, TargetIsCurrent
<1> QED BY <1>1, Invariant, PTL

\* No mutex is lost by the threads that race to materialise one, and none is
\* freed while it is in use.
THEOREM HeapCorrect == Spec => []NoLeak
<1>1. IInv => NoLeak
  BY DEF IInv, Heap, NoLeak
<1> QED BY <1>1, Invariant, PTL

\* A recursive initialiser gives a recursive mutex.
THEOREM KindCorrect == Spec => []KindKept
<1>1. IInv => KindKept
  BY DEF IInv, Kinds
<1> QED BY <1>1, Invariant, PTL

\* Whoever waits for a mutex waits for another thread, which is inside the word
\* and does not wait.
THEOREM WaitsCorrect == Spec => []WaitsForUser
<1>1. IInv => WaitsForUser
  <2> SUFFICES ASSUME IInv, NEW t \in Thread, Blocked(t),
                      NEW u, u = owner[target[t]]
               PROVE  u # t /\ inside[u][word[t]] > 0 /\ ~Blocked(u)
    BY DEF WaitsForUser
  <2> USE DEF IInv, TypeOK
  <2>1. /\ pc[t] = "lock" /\ op[t] = "lock" /\ word[t] \in Word /\ usable[word[t]]
        /\ target[t] = storage[word[t]] /\ target[t] \in Address
        /\ u \in Thread
    BY DEF Blocked, Granted, Calls
  <2>2. inside[u][word[t]] > 0
    BY <2>1 DEF Locks
  <2>3. u # t
    <3> SUFFICES ASSUME u = t PROVE FALSE
      OBVIOUS
    <3>1. wanted[word[t]] = "recursive"
      BY <2>1, <2>2 DEF Waits, Relocks
    <3>2. heap[target[t]] = "recursive"
      BY <2>1, <3>1 DEF Kinds, KindKept
    <3> QED BY <3>2 DEF Blocked, Granted
  <2>4. ~Blocked(u)
    <3> SUFFICES ASSUME Blocked(u) PROVE FALSE
      OBVIOUS
    <3>1. pc[u] = "lock" /\ op[u] = "lock" /\ word[u] = word[t]
      BY <2>1, <2>2 DEF Blocked, Waits, CallInWord, Calls
    <3>2. target[u] = target[t] /\ owner[target[u]] = u
      BY <2>1, <3>1 DEF Calls
    <3>3. wanted[word[t]] = "recursive"
      BY <2>1, <2>2, <3>1 DEF Waits, Relocks
    <3>4. heap[target[u]] = "recursive"
      BY <2>1, <3>2, <3>3 DEF Kinds, KindKept
    <3> QED BY <3>2, <3>4 DEF Blocked, Granted
  <2> QED BY <2>2, <2>3, <2>4
<1> QED BY <1>1, Invariant, PTL

\* The words behave as mutexes towards the threads that use and await them.
THEOREM LocksCorrect == Spec => []LockSound
<1>1. MutualExclusion /\ WaitsForUser => LockSound
  BY DEF LockSound
<1> QED BY <1>1, Exclusion, WaitsCorrect, PTL

-----------------------------------------------------------------------------
(***************************************************************************)
(* The refinement: locking the mutex in a word is acquiring the word.      *)
(***************************************************************************)
Holder == [w \in Word |-> IF storage[w] \in Address THEN owner[storage[w]]
                                                    ELSE NoThread]
Depth == [w \in Word |-> IF storage[w] \in Address THEN count[storage[w]]
                                                   ELSE 0]

\* Locking the mutex in a word is acquiring the word, ...
LEMMA AcquireRefines ==
  ASSUME IInv, NEW t \in Thread, NEW w \in Word, w = word[t], Acquire(t)
  PROVE  Lock!Acquire(t, w)
<1> USE DEF IInv, TypeOK
<1> DEFINE a == target[t]
<1>1. w \in Word /\ a \in Address /\ storage[w] = a
  BY DEF Acquire, Granted, Calls
<1>2. \A v \in Word \ {w} : storage[v] # a
  BY <1>1 DEF Heap, NoSharing
<1>3. /\ owner[a] \in {NoThread, t}
      /\ owner' = [owner EXCEPT ![a] = t]
      /\ count' = [count EXCEPT ![a] = count[a] + 1]
      /\ storage' = storage
  BY DEF Acquire, Granted
<1> HIDE DEF a
<1>4. Holder[w] \in {NoThread, t}
  BY <1>1, <1>3 DEF Holder
<1>5. Holder' = [Holder EXCEPT ![w] = t]
  BY <1>1, <1>2, <1>3 DEF Holder
<1>6. Depth' = [Depth EXCEPT ![w] = Depth[w] + 1]
  BY <1>1, <1>2, <1>3 DEF Depth
<1> QED BY <1>4, <1>5, <1>6 DEF Lock!Acquire, Holder, Depth

\* ... unlocking it is releasing the word, ...
LEMMA ReleaseRefines ==
  ASSUME IInv, NEW t \in Thread, NEW w \in Word, w = word[t], Release(t)
  PROVE  Lock!Release(t, w)
<1> USE DEF IInv, TypeOK
<1> DEFINE a == target[t]
<1>1. w \in Word /\ a \in Address /\ storage[w] = a /\ inside[t][w] > 0
  BY DEF Release, Calls
<1>2. \A v \in Word \ {w} : storage[v] # a
  BY <1>1 DEF Heap, NoSharing
<1>3. /\ owner[a] = t
      /\ owner' = [owner EXCEPT ![a] = IF count[a] = 1 THEN NoThread ELSE t]
      /\ count' = [count EXCEPT ![a] = count[a] - 1]
      /\ storage' = storage
  <2>1. owner[a] = t BY <1>1 DEF Locks
  <2> QED BY <2>1 DEF Release
<1> HIDE DEF a
<1>4. Holder[w] = t
  BY <1>1, <1>3 DEF Holder
<1>5. Holder' = [Holder EXCEPT ![w] = IF Depth[w] = 1 THEN NoThread ELSE t]
  BY <1>1, <1>2, <1>3 DEF Holder, Depth
<1>6. Depth' = [Depth EXCEPT ![w] = Depth[w] - 1]
  <2>1. Depth[w] = count[a] /\ count'[a] = count[a] - 1
    BY <1>1, <1>3 DEF Depth
  <2>2. \A v \in Word \ {w} : storage[v] \in Address =>
          count'[storage[v]] = count[storage[v]]
    BY <1>2, <1>3
  <2> QED BY <1>1, <1>3, <2>1, <2>2 DEF Depth
<1> QED BY <1>4, <1>5, <1>6 DEF Lock!Release, Holder, Depth

\* ... and a mutex is published, discarded or destroyed only while nobody has locked it.
LEMMA OtherStepsStutter ==
  ASSUME IInv, [Next]_vars,
         \A t \in Thread : ~Acquire(t) /\ ~Release(t)
  PROVE  UNCHANGED <<Holder, Depth>>
<1> USE DEF IInv, TypeOK, callVars, clientVars
<1>1. ASSUME UNCHANGED <<storage, owner, count>>
      PROVE  UNCHANGED <<Holder, Depth>>
  BY <1>1 DEF Holder, Depth
<1>2. ASSUME NEW w \in Word, NEW x, storage' = [storage EXCEPT ![w] = x],
             UNCHANGED <<owner, count>>,
             storage[w] \in Address => owner[storage[w]] = NoThread,
             storage[w] \in Address => count[storage[w]] = 0,
             x \in Address => owner[x] = NoThread /\ count[x] = 0
      PROVE  UNCHANGED <<Holder, Depth>>
  BY <1>2 DEF Holder, Depth
<1>3. ASSUME NEW t \in Thread, NEW w \in Word, NEW kind \in Kind,
             InitMutex(t, w, kind)
      PROVE  UNCHANGED <<Holder, Depth>>
  <2>1. PICK a \in Free : storage' = [storage EXCEPT ![w] = a]
    BY <1>3 DEF InitMutex
  <2>2. owner[a] = NoThread /\ count[a] = 0
    BY DEF Free, Heap, AllReachable, Reachable, PrivateUnlocked
  <2>3. storage[w] \notin Address
    BY <1>3, AddressAssumption DEF InitMutex, Heap, UnusableEmpty
  <2> QED BY <1>2, <1>3, <2>1, <2>2, <2>3 DEF InitMutex
<1>4. ASSUME NEW t \in Thread, NEW w \in Word, DestroyMutex(t, w)
      PROVE  UNCHANGED <<Holder, Depth>>
  <2>1. CASE storage[w] \in Address
    <3>1. storage' = [storage EXCEPT ![w] = "zero"] /\ UNCHANGED <<owner, count>>
      BY <1>4, <2>1 DEF DestroyMutex, AfterDestroy
    <3>2. owner[storage[w]] = NoThread /\ count[storage[w]] = 0
      BY <1>4, <2>1 DEF DestroyMutex, Unused, Locks
    <3>3. "zero" \notin Address
      BY AddressAssumption DEF Marker
    <3> QED BY <1>2, <3>1, <3>2, <3>3
  <2>2. CASE storage[w] \notin Address
    BY <1>1, <1>4, <2>2 DEF DestroyMutex
  <2> QED BY <2>1, <2>2
<1>5. ASSUME NEW t \in Thread, CompareExchange(t)
      PROVE  UNCHANGED <<Holder, Depth>>
  <2>1. CASE Publishes(t)
    <3>1. /\ storage' = [storage EXCEPT ![word[t]] = fresh[t]]
          /\ UNCHANGED <<owner, count>>
          /\ fresh[t] \in Address /\ word[t] \in Word
      BY <1>5, <2>1 DEF CompareExchange, Heap, FreshInCas
    <3>2. storage[word[t]] \notin Address
      BY <2>1, AddressAssumption DEF Publishes
    <3>3. owner[fresh[t]] = NoThread /\ count[fresh[t]] = 0
      BY <3>1 DEF Heap, NoSharing, PrivateUnlocked
    <3> QED BY <1>2, <3>1, <3>2, <3>3
  <2>2. CASE ~Publishes(t)
    BY <1>1, <1>5, <2>2 DEF CompareExchange
  <2> QED BY <2>1, <2>2
<1>6. ASSUME NEW t \in Thread,
             Load(t) \/ Allocate(t) \/ AllocateFails(t) \/ Read(t)
      PROVE  UNCHANGED <<Holder, Depth>>
  BY <1>1, <1>6 DEF Load, Allocate, AllocateFails, Read
<1>7. ASSUME NEW t \in Thread, NEW w \in Word, CallLock(t, w) \/ CallUnlock(t, w)
      PROVE  UNCHANGED <<Holder, Depth>>
  BY <1>1, <1>7 DEF CallLock, CallUnlock
<1>8. CASE UNCHANGED vars
  BY <1>1, <1>8 DEF vars
<1> QED BY <1>3, <1>4, <1>5, <1>6, <1>7, <1>8 DEF Next, Shim, Ensure, Client

\* The shim implements GameLock, whatever the words hold and whichever thread
\* materialises them.
THEOREM Refinement == Spec => IsGameLock
<1>1. Init => Lock!Init
  <2> SUFFICES ASSUME Init PROVE Lock!Init
    OBVIOUS
  <2>1. \A w \in Word : storage[w] \notin Address
    BY AddressAssumption DEF Init
  <2> QED BY <2>1 DEF Lock!Init
<1>2. IInv /\ [Next]_vars => [Lock!Next]_(Lock!vars)
  <2> SUFFICES ASSUME IInv, [Next]_vars
               PROVE  Lock!Next \/ UNCHANGED Lock!vars
    OBVIOUS
  <2>1. ASSUME NEW t \in Thread, Acquire(t) PROVE Lock!Next
    <3>1. PICK w \in Word : w = word[t] BY DEF IInv, TypeOK
    <3>2. Lock!Acquire(t, w) BY <2>1, <3>1, AcquireRefines
    <3>3. \E u \in Thread, v \in Word : Lock!Acquire(u, v) \/ Lock!Release(u, v)
      BY <3>2
    <3> QED BY <3>3 DEF Lock!Next
  <2>2. ASSUME NEW t \in Thread, Release(t) PROVE Lock!Next
    <3>1. PICK w \in Word : w = word[t] BY DEF IInv, TypeOK
    <3>2. Lock!Release(t, w) BY <2>2, <3>1, ReleaseRefines
    <3>3. \E u \in Thread, v \in Word : Lock!Acquire(u, v) \/ Lock!Release(u, v)
      BY <3>2
    <3> QED BY <3>3 DEF Lock!Next
  <2>3. CASE \A t \in Thread : ~Acquire(t) /\ ~Release(t)
    BY <2>3, OtherStepsStutter DEF Lock!vars, Holder, Depth
  <2> QED BY <2>1, <2>2, <2>3
<1> QED BY <1>1, <1>2, Invariant, PTL DEF Spec, IsGameLock, Lock!Spec
=============================================================================
