--------------------------- MODULE JniFakeProofs ---------------------------
(***************************************************************************)
(* Proofs about JniFake, for any methods, texts and size of the pool.      *)
(*                                                                         *)
(* RequestKept is not inductive: that the keyboard begins with the text of *)
(* the last request needs that text_input_initial has it while the request *)
(* is pending, which Requested adds.  That calls run what they name while  *)
(* ids fit the pool needs that the pool then has exactly as many records   *)
(* as the calls of get_id() have needed, which Roomy adds.                 *)
(***************************************************************************)
EXTENDS JniFake, FiniteSetTheorems, TLAPS

Requested ==
  /\ pc \in {"game", "keyboard", "changed", "finished"}
  /\ wanted <=> pending
  /\ pending \in BOOLEAN /\ wanted \in BOOLEAN
  /\ initial = Beginning[wantedText]
  /\ pc = "keyboard" => shown = Beginning[wantedText]

\* In the beginning nothing is asked for.
LEMMA RequestedInit == Init => Requested
BY JniAssumption DEF Init, Requested

\* Every way in which the game and jni_update() can go on.
LEMMA RequestedStep == ASSUME Requested, [Next]_vars PROVE Requested'
<1> USE DEF Requested, idVars, textVars, updateVars, wantedVars
<1>1. ASSUME NEW m \in Method, GetMethodID(m) PROVE Requested'
  BY <1>1 DEF GetMethodID
<1>2. ASSUME NEW m \in Method, NEW text \in Text, CallMethod(m, text) PROVE Requested'
  <2> DEFINE ran == pool[id[m]]
  <2>1. pc # "keyboard" /\ pc' = pc
    BY <1>2 DEF CallMethod, GameRuns
  <2>2. CASE ran = Start
    BY <1>2, <2>1, <2>2, JniAssumption DEF CallMethod, Dispatch, InitialText
  <2>3. CASE ran = Stop
    BY <1>2, <2>1, <2>3, JniAssumption DEF CallMethod, Dispatch
  <2>4. CASE ran # Start /\ ran # Stop
    BY <1>2, <2>1, <2>4 DEF CallMethod, Dispatch
  <2> QED BY <2>2, <2>3, <2>4
<1>3. CASE Update
  BY <1>3 DEF Update, ClearsPending
<1>4. ASSUME NEW rc \in BOOLEAN, Keyboard(rc) PROVE Requested'
  BY <1>4 DEF Keyboard, AfterKeyboard
<1>5. CASE Changed
  BY <1>5 DEF Changed
<1>6. CASE Finished
  BY <1>6 DEF Finished, ClearsPending
<1>7. CASE UNCHANGED vars
  BY <1>7 DEF vars
<1> QED BY <1>1, <1>2, <1>3, <1>4, <1>5, <1>6, <1>7 DEF Next

\* No request is lost, however the calls and callbacks fall.
THEOREM RequestCorrect == Spec => []RequestKept
<1>1. Requested => RequestKept
  BY DEF Requested, RequestKept
<1> QED BY <1>1, RequestedInit, RequestedStep, PTL DEF Spec

-----------------------------------------------------------------------------
(***************************************************************************)
(* The pool of ids.                                                        *)
(***************************************************************************)
\* the methods that need one record, and the calls that need one each
Once  == {asked[i] : i \in 1 .. Len(asked)} \ Long
Again == {i \in 1 .. Len(asked) : asked[i] \in Long}

Pool ==
  /\ pool \in Seq(Method) /\ id \in [Method -> Nat] /\ asked \in Seq(Method)
  /\ IsFiniteSet(Once) /\ IsFiniteSet(Again)

\* The pool while it has not overflowed.
Roomy ==
  Needed <= MaxIds =>
    /\ Len(pool) = Needed
    /\ \A i, j \in 1 .. Len(pool) : pool[i] = pool[j] /\ pool[i] \notin Long => i = j
    /\ \A i \in 1 .. Len(pool) : pool[i] \notin Long => pool[i] \in Once
    /\ \A m \in Once : \E i \in 1 .. Len(pool) : pool[i] = m
    /\ \A m \in Method : id[m] # 0 => id[m] \in 1 .. Len(pool) /\ pool[id[m]] = m
    /\ last.meant = last.ran

\* How many records one more call of get_id() needs.
LEMMA NeededNext ==
  ASSUME Pool, NEW m \in Method, asked' = Append(asked, m)
  PROVE  /\ Once' = IF m \in Long THEN Once ELSE Once \cup {m}
         /\ Again' = IF m \in Long THEN Again \cup {Len(asked) + 1} ELSE Again
         /\ IsFiniteSet(Once') /\ IsFiniteSet(Again')
         /\ Needed \in Nat
         /\ Needed' = IF m \in Once THEN Needed ELSE Needed + 1
<1>1. /\ asked' \in Seq(Method) /\ Len(asked) \in Nat /\ Len(asked') = Len(asked) + 1
      /\ \A i \in 1 .. Len(asked) : asked'[i] = asked[i]
      /\ asked'[Len(asked) + 1] = m
  BY DEF Pool
<1>2. 1 .. Len(asked') = (1 .. Len(asked)) \cup {Len(asked) + 1}
  BY <1>1
<1>3. /\ Once' = IF m \in Long THEN Once ELSE Once \cup {m}
      /\ Again' = IF m \in Long THEN Again \cup {Len(asked) + 1} ELSE Again
  BY <1>1, <1>2 DEF Once, Again
<1>4. Len(asked) + 1 \notin Again
  BY <1>1 DEF Again
<1>5. Cardinality(Once) \in Nat /\ Cardinality(Again) \in Nat
  BY FS_CardinalityType DEF Pool
<1>6. Needed = Cardinality(Once) + Cardinality(Again)
  BY DEF Needed, Once, Again
<1>7. Needed' = Cardinality(Once') + Cardinality(Again')
  BY DEF Needed, Once, Again
<1>8. CASE m \in Long
  <2>1. Once' = Once /\ Again' = Again \cup {Len(asked) + 1} /\ m \notin Once
    BY <1>3, <1>8 DEF Once
  <2>2. IsFiniteSet(Again') /\ Cardinality(Again') = Cardinality(Again) + 1
    BY <1>4, <2>1, FS_AddElement DEF Pool
  <2>3. Needed' = Needed + 1 /\ Needed \in Nat
    BY <1>5, <1>6, <1>7, <2>1, <2>2
  <2>4. IsFiniteSet(Once')
    BY <2>1 DEF Pool
  <2> QED BY <1>3, <2>1, <2>2, <2>3, <2>4
<1>9. CASE m \notin Long
  <2>1. Once' = Once \cup {m} /\ Again' = Again
    BY <1>3, <1>9
  <2>2. /\ IsFiniteSet(Once')
        /\ Cardinality(Once') = IF m \in Once THEN Cardinality(Once) ELSE Cardinality(Once) + 1
    BY <2>1, FS_AddElement DEF Pool
  <2>3. Needed' = (IF m \in Once THEN Needed ELSE Needed + 1) /\ Needed \in Nat
    BY <1>5, <1>6, <1>7, <2>1, <2>2
  <2>4. IsFiniteSet(Again')
    BY <2>1 DEF Pool
  <2> QED BY <1>3, <2>2, <2>3, <2>4
<1> QED BY <1>8, <1>9

\* A method that was asked for before is found, and another gets a record.
LEMMA GetStep ==
  ASSUME Pool, Roomy, NEW m \in Method, GetMethodID(m)
  PROVE  (Pool /\ Roomy)'
<1> USE JniAssumption
<1>1. /\ asked' = Append(asked, m) /\ UNCHANGED last
      /\ Len(pool) \in Nat
  BY DEF GetMethodID, Pool
<1>2. Pool'
  <2>1. \E i \in Nat : id' = [id EXCEPT ![m] = i]
    BY <1>1 DEF GetMethodID, FirstMatch
  <2>2. pool' = pool \/ pool' = Append(pool, m)
    BY DEF GetMethodID
  <2>3. id' \in [Method -> Nat]
    BY <2>1 DEF Pool
  <2>4. pool' \in Seq(Method)
    <3>1. pool \in Seq(Method) /\ Append(pool, m) \in Seq(Method)
      BY DEF Pool
    <3> QED BY <2>2, <3>1
  <2> QED BY <1>1, <2>3, <2>4, NeededNext DEF Pool
<1>3. SUFFICES ASSUME Needed' <= MaxIds PROVE Roomy'
  BY <1>2 DEF Roomy
<1>4. Needed <= MaxIds /\ Needed \in Nat
  BY <1>1, <1>3, NeededNext
<1>5. CASE m \in Once
  <2>1. PICK i \in 1 .. Len(pool) : pool[i] = m /\ m \notin Long
    BY <1>4, <1>5 DEF Roomy, Once
  <2>2. FirstMatch(m) = {i}
    BY <1>4, <2>1 DEF FirstMatch, Matches, Roomy
  <2>3. id' = [id EXCEPT ![m] = i] /\ pool' = pool
    BY <2>2 DEF GetMethodID
  <2>4. Once' = Once /\ Needed' = Needed
    BY <1>1, <1>5, <2>1, NeededNext
  <2> QED BY <1>1, <1>4, <2>1, <2>3, <2>4 DEF Roomy, Pool
<1>6. CASE m \notin Once
  <2>1. Needed' = Needed + 1 /\ Len(pool) < MaxIds
    BY <1>1, <1>3, <1>4, <1>6, NeededNext DEF Roomy
  <2>2. FirstMatch(m) = {}
    BY <1>4, <1>6 DEF FirstMatch, Matches, Roomy
  <2>3. pool' = Append(pool, m) /\ id' = [id EXCEPT ![m] = Len(pool) + 1]
    BY <2>1, <2>2 DEF GetMethodID, Full
  <2>4. /\ Len(pool') = Len(pool) + 1 /\ pool'[Len(pool) + 1] = m
        /\ \A i \in 1 .. Len(pool) : pool'[i] = pool[i]
    BY <2>3 DEF Pool
  <2>5. 1 .. Len(pool') = (1 .. Len(pool)) \cup {Len(pool) + 1}
    BY <1>1, <2>4
  <2>6. Once' = IF m \in Long THEN Once ELSE Once \cup {m}
    BY <1>1, NeededNext
  <2>7. \A n \in Method : id'[n] # 0 => id'[n] \in 1 .. Len(pool') /\ pool'[id'[n]] = n
    BY <1>1, <1>4, <2>3, <2>4, <2>5 DEF Roomy, Pool
  <2>8. \A i, j \in 1 .. Len(pool') : pool'[i] = pool'[j] /\ pool'[i] \notin Long => i = j
    BY <1>4, <1>6, <2>4, <2>5 DEF Roomy
  <2>9. /\ \A i \in 1 .. Len(pool') : pool'[i] \notin Long => pool'[i] \in Once'
        /\ \A n \in Once' : \E i \in 1 .. Len(pool') : pool'[i] = n
    BY <1>4, <2>4, <2>5, <2>6 DEF Roomy
  <2> QED BY <1>1, <1>4, <2>1, <2>4, <2>7, <2>8, <2>9 DEF Roomy
<1> QED BY <1>5, <1>6

\* As long as ids fit the pool every call runs the method that it names, for any
\* number of methods, of ids and of times that the game asks for one.
THEOREM DispatchCorrect == Spec => []DispatchWhileRoom
<1>1. Init => Pool /\ Roomy
  <2> SUFFICES ASSUME Init PROVE Pool /\ Roomy
    OBVIOUS
  <2>1. Once = {} /\ Again = {} /\ Len(pool) = 0
    BY DEF Init, Once, Again
  <2>2. Needed = 0
    <3>1. Needed = Cardinality(Once) + Cardinality(Again)
      BY DEF Needed, Once, Again
    <3> QED BY <2>1, <3>1, FS_EmptySet
  <2> QED BY <2>1, <2>2, FS_EmptySet DEF Init, Pool, Roomy
<1>2. ASSUME Pool, Roomy, [Next]_vars PROVE (Pool /\ Roomy)'
  <2>1. ASSUME NEW m \in Method, GetMethodID(m) PROVE (Pool /\ Roomy)'
    BY <1>2, <2>1, GetStep
  <2>2. ASSUME NEW m \in Method, NEW text \in Text, CallMethod(m, text)
        PROVE  (Pool /\ Roomy)'
    <3>1. /\ UNCHANGED <<pool, id, asked>> /\ id[m] # 0
          /\ last' = [meant |-> m, ran |-> pool[id[m]]]
      BY <2>2 DEF CallMethod, idVars
    <3>2. Once' = Once /\ Again' = Again /\ Needed' = Needed
      BY <3>1 DEF Needed, Once, Again
    <3>3. Pool'
      BY <1>2, <3>1, <3>2 DEF Pool
    <3>4. Roomy'
      BY <1>2, <3>1, <3>2 DEF Roomy
    <3> QED BY <3>3, <3>4
  <2>3. CASE UNCHANGED <<idVars, last>>
    BY <1>2, <2>3 DEF idVars, Pool, Roomy, Needed, Once, Again
  <2> QED BY <1>2, <2>1, <2>2, <2>3
          DEF Next, Update, Keyboard, Changed, Finished, vars
<1>3. Roomy => DispatchWhileRoom
  BY DEF Roomy, DispatchWhileRoom
<1> QED BY <1>1, <1>2, <1>3, PTL DEF Spec

-----------------------------------------------------------------------------
(***************************************************************************)
(* The types.                                                              *)
(***************************************************************************)
\* Asking for an id keeps the pool within its size and every id within the pool.
LEMMA GetTyped ==
  ASSUME TypeOK, NEW m \in Method, GetMethodID(m)
  PROVE  TypeOK'
<1> USE JniAssumption DEF TypeOK
<1>1. /\ Len(pool) \in Nat /\ asked' = Append(asked, m)
      /\ UNCHANGED <<last, pending, initial, pc, shown, wanted, wantedText>>
  BY DEF GetMethodID, textVars, updateVars, wantedVars
<1>2. asked' \in Seq(Method)
  BY <1>1
<1>3. CASE \E i \in FirstMatch(m) : id' = [id EXCEPT ![m] = i] /\ UNCHANGED pool
  BY <1>1, <1>2, <1>3 DEF FirstMatch
<1>4. CASE Full /\ id' = [id EXCEPT ![m] = 1] /\ UNCHANGED pool
  <2>1. 1 \in 0 .. Len(pool)
    BY <1>1, <1>4 DEF Full
  <2> QED BY <1>1, <1>2, <1>4, <2>1
<1>5. CASE /\ ~Full /\ pool' = Append(pool, m)
           /\ id' = [id EXCEPT ![m] = Len(pool) + 1]
  <2>1. pool' \in Seq(Method) /\ Len(pool') = Len(pool) + 1
    BY <1>5
  <2>2. Len(pool') <= MaxIds
    BY <1>1, <1>5, <2>1 DEF Full
  <2>3. 0 .. Len(pool) \subseteq 0 .. Len(pool') /\ Len(pool) + 1 \in 0 .. Len(pool')
    BY <1>1, <2>1
  <2>4. id' \in [Method -> 0 .. Len(pool')]
    BY <1>5, <2>3
  <2> QED BY <1>1, <1>2, <2>1, <2>2, <2>4
<1> QED BY <1>3, <1>4, <1>5 DEF GetMethodID

\* Every id that the game is given is the position of a record, also when the pool has
\* overflowed, and the pool never exceeds MAX_IDS.
THEOREM TypeCorrect == Spec => []TypeOK
<1> USE JniAssumption
<1>1. Init => TypeOK
  <2> SUFFICES ASSUME Init PROVE TypeOK
    OBVIOUS
  <2>1. pool \in Seq(Method) /\ Len(pool) = 0 /\ asked \in Seq(Method)
    BY DEF Init
  <2>2. id \in [Method -> 0 .. Len(pool)] /\ Len(pool) <= MaxIds
    BY <2>1 DEF Init
  <2> QED BY <2>1, <2>2 DEF Init, TypeOK
<1>2. ASSUME TypeOK, [Next]_vars PROVE TypeOK'
  <2> USE <1>2 DEF TypeOK, idVars, textVars, updateVars, wantedVars
  <2>1. ASSUME NEW m \in Method, GetMethodID(m) PROVE TypeOK'
    BY <2>1, GetTyped
  <2>2. ASSUME NEW m \in Method, NEW text \in Text, CallMethod(m, text) PROVE TypeOK'
    <3> DEFINE ran == pool[id[m]]
    <3>1. ran \in Method
      BY <2>2 DEF CallMethod
    <3>2. /\ UNCHANGED <<pool, id, asked, pc, shown>> /\ Dispatch(ran, text)
          /\ last' = [meant |-> m, ran |-> ran]
          /\ wanted' = (ran = Start \/ (wanted /\ ran # Stop))
          /\ wantedText' = IF ran = Start THEN text ELSE wantedText
      BY <2>2 DEF CallMethod
    <3> HIDE DEF ran
    <3>3. pending' \in BOOLEAN /\ initial' \in Text
      <4>1. InitialText(text) \in Text
        BY JniAssumption DEF InitialText
      <4>2. pending' \in BOOLEAN /\ initial' \in {InitialText(text), initial}
        BY <3>2 DEF Dispatch
      <4> QED BY <4>1, <4>2
    <3>4. last' \in [meant : Method \cup {NoMethod}, ran : Method \cup {NoMethod}]
      BY <3>1, <3>2
    <3>5. wanted' \in BOOLEAN /\ wantedText' \in Text
      BY <3>2
    <3> QED BY <3>2, <3>3, <3>4, <3>5
  <2>3. CASE Update
    BY <2>3 DEF Update
  <2>4. ASSUME NEW rc \in BOOLEAN, Keyboard(rc) PROVE TypeOK'
    BY <2>4 DEF Keyboard, AfterKeyboard
  <2>5. CASE Changed \/ Finished
    BY <2>5 DEF Changed, Finished
  <2>6. CASE UNCHANGED vars
    BY <2>6 DEF vars
  <2> QED BY <1>2, <2>1, <2>2, <2>3, <2>4, <2>5, <2>6 DEF Next
<1> QED BY <1>1, <1>2, PTL DEF Spec
=============================================================================
