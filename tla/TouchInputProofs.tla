-------------------------- MODULE TouchInputProofs --------------------------
(***************************************************************************)
(* Proofs about Overlays and TouchInput, for every number of views,        *)
(* entries, fingers, slots, buttons and keys.  UsesOverlays connects the   *)
(* two, so that the first section holds for TouchInput as well.            *)
(***************************************************************************)
EXTENDS TouchInput, FiniteSetTheorems, TLAPS

(***************************************************************************)
(* The registry of overlays.  The invariant of the type, NoDangling and    *)
(* AgreeOnHidden is inductive as it stands: the destructor clears every    *)
(* entry of a view.  LiveRegistered needs that no view is in two entries,  *)
(* so that a full registry has as many views as entries.                   *)
(***************************************************************************)
OverlayInv == OverlayTypeOK /\ NoDangling /\ AgreeOnHidden

\* Overlays stays well formed: the entries hold only views that exist, and all
\* registered views agree with touch_controls_hidden.
THEOREM OverlayInvariant == OverlaySpec => []OverlayInv
<1> USE OverlaysAssumption
<1>1. OverlayInit => OverlayInv
  BY DEF OverlayInit, OverlayInv, OverlayTypeOK, NoDangling, AgreeOnHidden, Registered,
         Entry
<1>2. ASSUME OverlayInv, [OverlayNext]_overlayVars PROVE OverlayInv'
  <2>1. ASSUME NEW v \in View, InitView(v) PROVE OverlayInv'
    <3>1. /\ registry' \in [Entry -> View \cup {NoView}]
          /\ \A w \in View : Registered(w)' => Registered(w) \/ w = v
      BY <1>2, <2>1 DEF InitView, Takes, Registered, Entry, OverlayInv, OverlayTypeOK
    <3>2. ASSUME Registered(v)' PROVE invisible'[v] = hidden
      <4>1. CASE \A i \in Entry : ~Takes(i, v)
        BY <2>1, <3>2, <4>1 DEF InitView, Takes, Registered
      <4>2. CASE \E i \in Entry : Takes(i, v)
        BY <1>2, <2>1, <4>2 DEF InitView, Shown, OverlayInv, OverlayTypeOK
      <4> QED BY <4>1, <4>2
    <3>3. /\ invisible' \in [View -> BOOLEAN]
          /\ \A w \in View : w # v => invisible'[w] = invisible[w]
      BY <1>2, <2>1 DEF InitView, Shown, OverlayInv, OverlayTypeOK
    <3>4. alive' = alive \cup {v} /\ hidden' = hidden /\ strained' \in BOOLEAN
      BY <2>1 DEF InitView
    <3>5. OverlayTypeOK'
      BY <1>2, <3>1, <3>3, <3>4 DEF OverlayInv, OverlayTypeOK, Entry
    <3> QED BY <1>2, <3>1, <3>2, <3>3, <3>4, <3>5
        DEF OverlayInv, NoDangling, AgreeOnHidden
  <2>2. ASSUME NEW v \in View, DestroyView(v) PROVE OverlayInv'
    <3>1. \A w \in View : Registered(w)' => Registered(w) /\ w # v
      BY <1>2, <2>2
      DEF DestroyView, Cleared, Registered, Entry, OverlayInv, OverlayTypeOK
    <3>2. registry' \in [0 .. MaxOverlays - 1 -> View \cup {NoView}]
      BY <1>2, <2>2 DEF DestroyView, Cleared, Entry, OverlayInv, OverlayTypeOK
    <3> QED BY <1>2, <2>2, <3>1, <3>2
        DEF DestroyView, OverlayInv, OverlayTypeOK, NoDangling, AgreeOnHidden
  <2>3. ASSUME NEW h \in BOOLEAN, SetHidden(h) PROVE OverlayInv'
    <3>1. \A w \in View : Registered(w)' <=> Registered(w)
      BY <2>3 DEF SetHidden, Registered
    <3>2. OverlayTypeOK'
      BY <1>2, <2>3 DEF SetHidden, OverlayInv, OverlayTypeOK
    <3>3. \A w \in View : Registered(w) => invisible'[w] = h
      BY <2>3 DEF SetHidden
    <3> QED BY <1>2, <2>3, <3>1, <3>2, <3>3
        DEF SetHidden, OverlayInv, NoDangling, AgreeOnHidden
  <2>4. CASE UNCHANGED overlayVars
    BY <1>2, <2>4 DEF overlayVars, OverlayInv, OverlayTypeOK, NoDangling, AgreeOnHidden,
                      Registered
  <2> QED BY <1>2, <2>1, <2>2, <2>3, <2>4 DEF OverlayNext, OverlayStep
<1> QED BY <1>1, <1>2, PTL DEF OverlaySpec

\* Unless a view was initialised twice or there were too many, no view is in two
\* entries, and every view that exists is in one.
Distinct ==
  ~strained => \A i, j \in Entry : registry[i] = registry[j] /\ registry[i] # NoView => i = j

LInv == IsFiniteSet(alive) /\ Distinct /\ LiveRegistered

\* A registry without an empty entry has as many views as entries.
LEMMA FullRegistry ==
  ASSUME OverlayInv, LInv, ~strained, \A i \in Entry : registry[i] # NoView
  PROVE  Cardinality(alive) >= MaxOverlays
<1>1. registry \in [Entry -> alive]
  BY DEF OverlayInv, OverlayTypeOK, NoDangling, Registered, Entry
<1>2. IsFiniteSet(Entry) /\ Cardinality(Entry) = MaxOverlays
  BY OverlaysAssumption, FS_Interval DEF Entry
<1>3. Cardinality(alive) \in Nat
  BY FS_CardinalityType DEF LInv
<1>4. ~(Cardinality(alive) < Cardinality(Entry))
  <2>1. ASSUME Cardinality(alive) < Cardinality(Entry)
        PROVE  \E i, j \in Entry : i # j /\ registry[i] = registry[j]
    BY <1>1, <1>2, <2>1, FS_PigeonHole, Zenon DEF LInv
  <2> QED BY <2>1 DEF LInv, Distinct
<1> QED BY <1>2, <1>3, <1>4, OverlaysAssumption

\* The first destroyed or unused entry is found again, however views came and went.
THEOREM LiveInvariant == OverlaySpec => [](OverlayInv /\ LInv)
<1> USE OverlaysAssumption
<1>1. OverlayInit => LInv
  BY FS_EmptySet DEF OverlayInit, LInv, Distinct, LiveRegistered, Entry
<1>2. ASSUME OverlayInv, LInv, [OverlayNext]_overlayVars PROVE LInv'
  <2>1. ASSUME NEW v \in View, InitView(v) PROVE LInv'
    <3>1. IsFiniteSet(alive')
      BY <1>2, <2>1, FS_AddElement DEF InitView, LInv
    <3>2. SUFFICES ASSUME ~strained' PROVE Distinct' /\ LiveRegistered'
      BY <3>1 DEF LInv, Distinct, LiveRegistered
    <3>3. ~strained /\ v \notin alive /\ ~(Cardinality(alive) >= MaxOverlays)
      BY <2>1, <3>2 DEF InitView
    <3>4. \A i \in Entry : registry[i] # v
      BY <1>2, <3>3 DEF OverlayInv, NoDangling, Registered
    <3>5. \E i \in Entry : registry[i] = NoView
      BY <1>2, <3>3, FullRegistry
    <3>6. PICK e \in Entry : registry[e] = NoView /\ registry' = [registry EXCEPT ![e] = v]
      BY <2>1, <3>4, <3>5 DEF InitView, Takes
    <3>7. registry \in [Entry -> View \cup {NoView}]
      BY <1>2 DEF OverlayInv, OverlayTypeOK, Entry
    <3>8. Distinct'
      BY <1>2, <3>3, <3>4, <3>6, <3>7 DEF LInv, Distinct
    <3>9. \A w \in alive : Registered(w)'
      BY <1>2, <3>3, <3>6, <3>7
      DEF LInv, LiveRegistered, Registered, OverlayInv, OverlayTypeOK
    <3>10. Registered(v)'
      BY <3>6, <3>7 DEF Registered
    <3> QED BY <2>1, <3>8, <3>9, <3>10 DEF InitView, LiveRegistered
  <2>2. ASSUME NEW v \in View, DestroyView(v) PROVE LInv'
    <3>1. IsFiniteSet(alive')
      BY <1>2, <2>2, FS_RemoveElement DEF DestroyView, LInv
    <3>2. Distinct'
      BY <1>2, <2>2 DEF DestroyView, Cleared, LInv, Distinct
    <3>3. ASSUME NEW w \in alive, w # v, Registered(w) PROVE Registered(w)'
      BY <2>2, <3>3 DEF DestroyView, Cleared, Registered
    <3>4. LiveRegistered'
      BY <1>2, <2>2, <3>3 DEF DestroyView, LInv, LiveRegistered
    <3> QED BY <3>1, <3>2, <3>4 DEF LInv
  <2>3. CASE UNCHANGED <<registry, alive, strained>>
    BY <1>2, <2>3 DEF LInv, Distinct, LiveRegistered, Registered
  <2> QED BY <1>2, <2>1, <2>2, <2>3
      DEF OverlayNext, OverlayStep, SetHidden, overlayVars
<1> QED BY <1>1, <1>2, OverlayInvariant, PTL DEF OverlaySpec

\* set_touch_controls_hidden() never calls the game with a destroyed view, for
\* any number of views, entries and initialisations of the same view.
THEOREM NoDanglingCorrect == OverlaySpec => []NoDangling
<1>1. OverlayInv => NoDangling
  BY DEF OverlayInv
<1> QED BY <1>1, OverlayInvariant, PTL

\* The registry has exactly the views that exist, for any number of views and entries.
THEOREM RegistryCorrect == OverlaySpec => []RegistrySound
<1>1. OverlayInv /\ LInv => RegistrySound
  BY DEF OverlayInv, LInv, RegistrySound
<1> QED BY <1>1, LiveInvariant, PTL

\* Every registered view shows or hides its controls as touch_controls_hidden
\* says.
THEOREM AgreeOnHiddenCorrect == OverlaySpec => []AgreeOnHidden
<1>1. OverlayInv => AgreeOnHidden
  BY DEF OverlayInv
<1> QED BY <1>1, OverlayInvariant, PTL

-----------------------------------------------------------------------------
(***************************************************************************)
(* The input.  The touch protocol is inductive once slots and buttons have *)
(* different ids and the fingers of a sample are known to be fingers.      *)
(***************************************************************************)
TouchRecord == [finger : Finger, pos : Position]

\* The part of the type invariant that the proofs need.
Types ==
  /\ held \subseteq Button
  /\ finger \in [Slot -> Finger \cup {NoFinger}]
  /\ touch \in [Id -> {"up", "down", "confused"}]
  /\ sample \in Seq(TouchRecord) /\ next \in Nat \ {0}

\* No key is down before the game has a keyboard.
Keys == NoStuckKey /\ (~keyboard => keyDown = {})

IInv == Types /\ TouchProtocol /\ OneSlot /\ Keys

\* A sample of the touch screen is a sequence of touches.
LEMMA SamplesAreSequences ==
  ASSUME NEW s \in Samples
  PROVE  s \in Seq(TouchRecord)
<1>1. PICK n \in 0 .. Cardinality(Finger) : s \in [1 .. n -> TouchRecord]
  BY DEF Samples, TouchRecord
<1>2. n \in Nat
  BY <1>1
<1> QED BY <1>1, <1>2

\* In the beginning nothing is held.
LEMMA InitInv == TouchInit => IInv
BY DEF TouchInit, IInv, Types, TouchProtocol, OneSlot, Keys, NoStuckKey

\* The buttons and keys of the controller.
LEMMA ControllerStep ==
  ASSUME IInv, NEW down \in SUBSET Button, NEW now \in SUBSET Key,
         NEW other \in BOOLEAN, UpdateInput(down, now, other)
  PROVE  IInv'
<1> USE TouchInputAssumption DEF IInv
<1>1. UNCHANGED <<finger, sample, next, keyboard>> /\ held' = down /\ keys' = now
  BY DEF UpdateInput, slotVars, loopVars
<1>2. \A i \in Id : touch'[i] =
        IF i \in down THEN "down" ELSE IF i \in held THEN "up" ELSE touch[i]
  BY DEF UpdateInput, ButtonPhase, Receive, Types, TouchProtocol, Id
<1>3. touch' \in [Id -> {"up", "down", "confused"}]
  <2>1. touch' = [i \in Id |-> touch'[i]]
    BY DEF UpdateInput
  <2> QED BY <1>2, <2>1 DEF Types
<1>4. TouchProtocol'
  BY <1>1, <1>2 DEF Types, TouchProtocol, Id
<1>5. Keys'
  BY <1>1 DEF UpdateInput, Released, Keys, NoStuckKey
<1> QED BY <1>1, <1>3, <1>4, <1>5 DEF Types, OneSlot

\* One touch of a sample.
LEMMA TouchStep ==
  ASSUME IInv, Touch
  PROVE  IInv'
<1> USE TouchInputAssumption DEF IInv
<1> DEFINE t == sample[next]
<1>1. t.finger \in Finger /\ t.finger # NoFinger
  <2>1. next \in 1 .. Len(sample) /\ sample \in Seq(TouchRecord)
    BY DEF Touch, Types
  <2>2. sample[next] \in TouchRecord
    BY <2>1
  <2> QED BY <2>2 DEF TouchRecord
<1>2. UNCHANGED <<held, keys, keyboard, keyDown, sample>> /\ next' = next + 1
  BY DEF Touch, buttonVars
<1> HIDE DEF t
<1>3. CASE \E s \in Found(t.finger) :
             /\ touch' = touch \/ touch' = [touch EXCEPT ![s] = Receive("MOVED", touch[s])]
             /\ UNCHANGED finger
  <2>1. PICK s \in Slot :
          /\ finger[s] = t.finger
          /\ touch' = touch \/ touch' = [touch EXCEPT ![s] = Receive("MOVED", touch[s])]
          /\ UNCHANGED finger
    BY <1>3 DEF Found
  <2>2. touch[s] = "down"
    BY <1>1, <2>1 DEF TouchProtocol, Id
  <2>3. touch' = touch
    BY <2>1, <2>2 DEF Receive, Types
  <2> QED BY <1>2, <2>1, <2>3 DEF Types, TouchProtocol, OneSlot, Keys, NoStuckKey
<1>4. CASE \E s \in Slot :
             /\ Found(t.finger) = {} /\ s \in Inactive
             /\ touch' = [touch EXCEPT ![s] = Receive("BEGAN", touch[s])]
             /\ finger' = [finger EXCEPT ![s] = t.finger]
  <2>1. PICK s \in Slot :
          /\ Found(t.finger) = {} /\ s \in Inactive
          /\ touch' = [touch EXCEPT ![s] = Receive("BEGAN", touch[s])]
          /\ finger' = [finger EXCEPT ![s] = t.finger]
    BY <1>4
  <2>2. finger[s] = NoFinger /\ s \notin held /\ s \in Id
    BY <2>1 DEF Inactive, Types, Id
  <2>3. touch[s] = "up"
    BY <2>2 DEF TouchProtocol
  <2>4. touch' = [touch EXCEPT ![s] = "down"]
    BY <2>1, <2>3 DEF Receive
  <2>5. Types'
    <3>1. finger' \in [Slot -> Finger \cup {NoFinger}]
      BY <1>1, <2>1 DEF Types
    <3>2. touch' \in [Id -> {"up", "down", "confused"}]
      BY <2>2, <2>4 DEF Types
    <3> QED BY <1>2, <3>1, <3>2 DEF Types
  <2>6. TouchProtocol'
    BY <1>1, <1>2, <2>1, <2>2, <2>4 DEF Types, TouchProtocol
  <2>7. OneSlot'
    BY <1>1, <2>1 DEF Types, OneSlot, Found
  <2> QED BY <1>2, <2>5, <2>6, <2>7 DEF Keys, NoStuckKey
<1>5. CASE UNCHANGED <<touch, finger>>
  BY <1>2, <1>5 DEF Types, TouchProtocol, OneSlot, Keys, NoStuckKey
<1> QED BY <1>3, <1>4, <1>5 DEF Touch, Inactive, slotVars, t

\* The fingers that are gone.
LEMMA EndStep ==
  ASSUME IInv, EndTouches
  PROVE  IInv'
<1> USE TouchInputAssumption DEF IInv
<1>1. UNCHANGED <<held, keys, keyboard, keyDown, sample, next>>
  BY DEF EndTouches, buttonVars, loopVars
<1>2. finger' = [s \in Slot |-> IF s \in Lifted THEN NoFinger ELSE finger[s]]
  BY DEF EndTouches
<1>3. \A i \in Id : touch'[i] = IF i \in Lifted THEN "up" ELSE touch[i]
  <2>1. \A i \in Lifted : i \in Id /\ touch[i] = "down"
    BY DEF Lifted, TouchProtocol, Id
  <2> QED BY <2>1 DEF EndTouches, Receive
<1>4. touch' \in [Id -> {"up", "down", "confused"}]
  <2>1. touch' = [i \in Id |-> touch'[i]]
    BY DEF EndTouches
  <2> QED BY <1>3, <2>1 DEF Types
<1>5. TouchProtocol'
  <2>1. \A i \in Lifted : i \in Slot /\ i \notin held
    BY DEF Lifted, Types
  <2> QED BY <1>1, <1>2, <1>3, <2>1 DEF Types, TouchProtocol, Id
<1> QED BY <1>1, <1>2, <1>4, <1>5 DEF Types, OneSlot, Keys, NoStuckKey

\* The inductive invariant, whatever the controller and the touch screen do.
THEOREM Invariant == TouchSpec => []IInv
<1>1. ASSUME IInv, [Next]_vars PROVE IInv'
  <2>1. CASE Controller
    BY <1>1, <2>1, ControllerStep DEF Controller
  <2>2. CASE NoSample
    BY <1>1, <2>2
    DEF NoSample, IInv, Types, TouchProtocol, OneSlot, Keys, NoStuckKey,
        buttonVars, slotVars, gameVars
  <2>3. ASSUME NEW s \in Samples, Sample(s) PROVE IInv'
    BY <1>1, <2>3, SamplesAreSequences
    DEF Sample, IInv, Types, TouchProtocol, OneSlot, Keys, NoStuckKey,
        buttonVars, slotVars, gameVars
  <2>4. CASE Touch
    BY <1>1, <2>4, TouchStep
  <2>5. CASE EndTouches
    BY <1>1, <2>5, EndStep
  <2>6. CASE Game
    BY <1>1, <2>6
    DEF Game, IInv, Types, TouchProtocol, OneSlot, Keys, NoStuckKey, slotVars,
        loopVars, gameVars
  <2>7. CASE GameOverlays \/ UNCHANGED vars
    BY <1>1, <2>7
    DEF GameOverlays, vars, IInv, Types, TouchProtocol, OneSlot, Keys, NoStuckKey,
        buttonVars, slotVars, loopVars, gameVars
  <2> QED BY <1>1, <2>1, <2>2, <2>3, <2>4, <2>5, <2>6, <2>7 DEF Next, UpdateTouch
<1> QED BY <1>1, InitInv, PTL DEF TouchSpec

\* What the two loops of update_touch() count, see and move is in range.
Ranges ==
  /\ pc \in {"input", "sample", "touch", "game"} /\ keys \subseteq Key
  /\ used \in BOOLEAN /\ keyboard \in BOOLEAN /\ at \in [Slot -> Position]
  /\ sample \in Samples /\ next <= Len(sample) + 1 /\ seen \subseteq Slot

\* The touch screen may report that nothing touches it.
LEMMA NoTouches == <<>> \in Samples
<1>1. 0 \in 0 .. Cardinality(Finger)
  BY FS_CardinalityType, TouchInputAssumption
<1>2. <<>> \in [1 .. 0 -> TouchRecord]
  OBVIOUS
<1>3. \A i, j \in 1 .. 0 : <<>>[i].finger = <<>>[j].finger => i = j
  OBVIOUS
<1> QED BY <1>1, <1>2, <1>3 DEF Samples, TouchRecord

\* The loop over a sample looks at each touch once and then ends.
LEMMA RangeStep == ASSUME IInv, Ranges, Touch PROVE Ranges'
<1>1. /\ pc = "touch" /\ pc' = pc /\ next \in 1 .. Len(sample) /\ next' = next + 1
      /\ UNCHANGED <<keys, used, keyboard, sample>> /\ Len(sample) \in Nat
  BY DEF Touch, buttonVars, IInv, Types
<1>2. sample[next].pos \in Position
  <2>1. sample[next] \in TouchRecord
    BY <1>1 DEF IInv, Types
  <2> QED BY <2>1 DEF TouchRecord
<1>3. at' \in [Slot -> Position] /\ seen' \subseteq Slot
  BY <1>2 DEF Touch, Ranges, Found, Inactive, slotVars
<1>4. next' <= Len(sample') + 1
  BY <1>1
<1> QED BY <1>1, <1>3, <1>4 DEF Ranges

\* The state of the input is always of the types it should have, for any number of
\* fingers, slots, buttons and keys: slots are of touch_slots, and the loop over a
\* sample stays within it.
THEOREM TypeCorrect == TouchSpec => []TypeOK
<1>1. ASSUME TouchInit PROVE Ranges
  <2>1. sample = <<>> /\ sample \in Samples
    BY <1>1, NoTouches DEF TouchInit
  <2>2. next <= Len(sample) + 1
    <3>1. Len(<<>>) = 0 /\ next = 1
      BY <1>1 DEF TouchInit
    <3> QED BY <2>1, <3>1
  <2>3. /\ pc = "input" /\ keys = {} /\ used \in BOOLEAN /\ keyboard \in BOOLEAN
        /\ at \in [Slot -> Position] /\ seen = {}
    BY <1>1 DEF TouchInit
  <2> QED BY <2>1, <2>2, <2>3 DEF Ranges
<1>2. ASSUME IInv, Ranges, [Next]_vars PROVE Ranges'
  <2>1. CASE Controller
    BY <1>2, <2>1 DEF Controller, UpdateInput, slotVars, loopVars, Ranges
  <2>2. CASE NoSample
    BY <1>2, <2>2, NoTouches DEF NoSample, buttonVars, slotVars, Ranges
  <2>3. ASSUME NEW s \in Samples, Sample(s) PROVE Ranges'
    <3>1. Len(s) \in Nat
      BY SamplesAreSequences
    <3> QED BY <1>2, <2>3, <3>1 DEF Sample, buttonVars, slotVars, Ranges
  <2>4. CASE EndTouches
    BY <1>2, <2>4 DEF EndTouches, buttonVars, loopVars, Ranges
  <2>5. CASE Game
    BY <1>2, <2>5 DEF Game, slotVars, loopVars, Ranges
  <2>6. CASE GameOverlays \/ UNCHANGED vars
    BY <1>2, <2>6 DEF GameOverlays, vars, buttonVars, slotVars, loopVars, Ranges
  <2> QED BY <1>2, <2>1, <2>2, <2>3, <2>4, <2>5, <2>6, RangeStep DEF Next, UpdateTouch
<1>3. IInv /\ Ranges => TypeOK
  <2> SUFFICES ASSUME IInv, Ranges PROVE TypeOK
    OBVIOUS
  <2>1. next \in 1 .. Len(sample) + 1
    BY DEF IInv, Types, Ranges
  <2>2. keyDown \subseteq Key
    BY DEF IInv, Keys, NoStuckKey, Ranges
  <2> QED BY <2>1, <2>2 DEF IInv, Types, Ranges, TypeOK, Slot
<1> QED BY <1>1, <1>2, <1>3, Invariant, PTL DEF TouchSpec

\* For every id the game gets BEGAN MOVED* ENDED, and has down exactly the buttons
\* that are held and the slots that are in use.
THEOREM ProtocolCorrect == TouchSpec => []TouchProtocol
<1>1. IInv => TouchProtocol
  BY DEF IInv
<1> QED BY <1>1, Invariant, PTL

\* A finger never drives two touches.
THEOREM OneSlotCorrect == TouchSpec => []OneSlot
<1>1. IInv => OneSlot
  BY DEF IInv
<1> QED BY <1>1, Invariant, PTL

\* A key never stays down that the controller does not hold.
THEOREM KeysCorrect == TouchSpec => []NoStuckKey
<1>1. IInv => NoStuckKey
  BY DEF IInv, Keys
<1> QED BY <1>1, Invariant, PTL

\* The game has down the touches and keys of the buttons and fingers that are, in
\* well-formed sequences.
THEOREM EventsCorrect == TouchSpec => []EventsSound
<1>1. TouchProtocol /\ NoStuckKey => EventsSound
  BY DEF EventsSound
<1> QED BY <1>1, ProtocolCorrect, KeysCorrect, PTL

-----------------------------------------------------------------------------
(***************************************************************************)
(* Overlays, as a component of TouchInput.                                 *)
(***************************************************************************)
\* update_input(), update_touch() and the game use the registry only through its
\* operations, so that all that is proved of Overlays holds here.
THEOREM UsesOverlays == TouchSpec => OverlaySpec
<1>1. TouchInit => OverlayInit
  BY DEF TouchInit
<1>2. ASSUME [Next]_vars PROVE [OverlayNext]_overlayVars
  <2>1. CASE Controller
    BY <2>1 DEF Controller, UpdateInput, OverlayNext
  <2>2. CASE \E s \in Samples : Sample(s)
    BY <2>2 DEF Sample, OverlayNext
  <2>3. CASE GameOverlays
    BY <2>3 DEF GameOverlays, OverlayNext
  <2>4. CASE NoSample \/ Touch \/ EndTouches \/ Game \/ UNCHANGED vars
    BY <2>4 DEF NoSample, Touch, EndTouches, Game, vars
  <2> QED BY <1>2, <2>1, <2>2, <2>3, <2>4 DEF Next, UpdateTouch
<1> QED BY <1>1, <1>2, PTL DEF TouchSpec, OverlaySpec

\* What touch_controls_hidden says of the last sample and of the controller.
Follow ==
  /\ used \in BOOLEAN /\ hidden \in BOOLEAN
  /\ pc = "sample" => (used => hidden)
  /\ pc # "sample" => /\ sample # <<>> => ~hidden
                      /\ sample = <<>> /\ used => hidden

\* Every registered overlay follows what was used last, whenever it was created.
THEOREM ControlsCorrect == TouchSpec => []ControlsFollow
<1>1. TouchInit => Follow
  BY DEF TouchInit, OverlayInit, Follow
<1>2. ASSUME Follow, [Next]_vars PROVE Follow'
  <2>1. ASSUME NEW down \in SUBSET Button, NEW now \in SUBSET Key, NEW other \in BOOLEAN,
               UpdateInput(down, now, other)
        PROVE  Follow'
    <3>1. pc = "input" /\ pc' = "sample" /\ used' = other
      BY <2>1 DEF UpdateInput
    <3>2. hidden' = IF other \/ used THEN TRUE ELSE hidden
      BY <2>1 DEF UpdateInput, InUse, SetHidden, overlayVars
    <3> QED BY <1>2, <3>1, <3>2 DEF Follow
  <2>2. CASE NoSample
    BY <1>2, <2>2 DEF NoSample, overlayVars, buttonVars, Follow
  <2>3. ASSUME NEW s \in Samples, Sample(s) PROVE Follow'
    <3>1. hidden' = IF s # <<>> THEN FALSE ELSE hidden
      BY <2>3 DEF Sample, SetHidden, overlayVars
    <3>2. pc = "sample" /\ pc' = "touch" /\ sample' = s /\ used' = used
      BY <2>3 DEF Sample, buttonVars
    <3> QED BY <1>2, <3>1, <3>2 DEF Follow
  <2>4. CASE Touch \/ EndTouches \/ Game \/ UNCHANGED vars
    <3>1. UNCHANGED <<hidden, used, sample>>
      BY <2>4 DEF Touch, EndTouches, Game, vars, overlayVars, buttonVars, loopVars
    <3>2. pc = "sample" <=> pc' = "sample"
      BY <2>4 DEF Touch, EndTouches, Game, vars
    <3> QED BY <1>2, <3>1, <3>2 DEF Follow
  <2>5. CASE GameOverlays
    BY <1>2, <2>5
    DEF GameOverlays, OverlayStep, InitView, DestroyView, buttonVars, loopVars, Follow
  <2> QED BY <1>2, <2>1, <2>2, <2>3, <2>4, <2>5 DEF Next, Controller, UpdateTouch
<1>3. Follow /\ OverlayInv => ControlsFollow
  BY DEF Follow, OverlayInv, OverlayTypeOK, AgreeOnHidden, ControlsFollow
<1> QED BY <1>1, <1>2, <1>3, UsesOverlays, OverlayInvariant, PTL DEF TouchSpec

-----------------------------------------------------------------------------
(***************************************************************************)
(* The loop over a sample.                                                 *)
(***************************************************************************)
\* All slots have a finger.
Taken == \A s \in Slot : finger[s] # NoFinger

\* A slot was seen for one touch of the sample so far, and every touch so far has its
\* slot, or found none that was free.
Tracked ==
  pc = "touch" =>
    /\ next <= Len(sample) + 1 /\ seen \subseteq Slot
    /\ \A i, j \in 1 .. Len(sample) : sample[i].finger = sample[j].finger => i = j
    /\ \A s \in seen : \E i \in 1 .. next - 1 :
         finger[s] = sample[i].finger /\ at[s] = sample[i].pos
    /\ \A i \in 1 .. next - 1 :
         (\E s \in seen : finger[s] = sample[i].finger) \/ Taken

\* A touch of a sample has a finger and a position.
LEMMA TouchOf ==
  ASSUME sample \in Seq(TouchRecord), NEW i \in 1 .. Len(sample)
  PROVE  sample[i].finger \in Finger /\ sample[i].pos \in Position
<1>1. sample[i] \in TouchRecord
  OBVIOUS
<1> QED BY <1>1 DEF TouchRecord

\* One touch more.
LEMMA TrackStep ==
  ASSUME IInv, at \in [Slot -> Position], Tracked, Touch
  PROVE  Tracked'
<1> DEFINE t == sample[next]
<1>1. /\ pc = "touch" /\ pc' = "touch" /\ next \in 1 .. Len(sample) /\ next' = next + 1
      /\ sample' = sample /\ Len(sample) \in Nat
  BY DEF Touch, IInv, Types
<1>2. t.finger \in Finger /\ t.finger # NoFinger
  <2>1. t \in TouchRecord
    BY <1>1 DEF IInv, Types
  <2> QED BY <2>1, TouchInputAssumption DEF TouchRecord
<1>3. \A i \in 1 .. next - 1 : i \in 1 .. Len(sample) /\ sample[i].finger # t.finger
  BY <1>1 DEF Tracked
<1>4. \A s \in seen : s \in Slot /\ finger[s] # t.finger /\ finger[s] # NoFinger
  <2>1. \A i \in 1 .. Len(sample) : sample[i].finger \in Finger
    BY TouchOf DEF IInv, Types
  <2> QED BY <1>1, <1>3, <2>1, TouchInputAssumption DEF Tracked
<1>5. 1 .. next' - 1 = (1 .. next - 1) \cup {next}
  BY <1>1
<1> HIDE DEF t
<1>6. CASE \E s \in Slot :
             /\ s \notin seen /\ finger' = [finger EXCEPT ![s] = t.finger]
             /\ finger[s] \in {t.finger, NoFinger}
             /\ at' = [at EXCEPT ![s] = t.pos] /\ seen' = seen \cup {s}
  <2>1. PICK s \in Slot :
             /\ s \notin seen /\ finger' = [finger EXCEPT ![s] = t.finger]
             /\ finger[s] \in {t.finger, NoFinger}
             /\ at' = [at EXCEPT ![s] = t.pos] /\ seen' = seen \cup {s}
    BY <1>6
  <2>2. finger'[s] = t.finger /\ at'[s] = t.pos
    BY <2>1 DEF IInv, Types
  <2>3. \A r \in seen : finger'[r] = finger[r] /\ at'[r] = at[r]
    BY <1>4, <2>1 DEF IInv, Types
  <2>4. Taken => Taken'
    BY <1>2, <2>1 DEF Taken, IInv, Types
  <2>5. \A r \in seen' : \E i \in 1 .. next' - 1 :
          finger'[r] = sample'[i].finger /\ at'[r] = sample'[i].pos
    BY <1>1, <1>5, <2>1, <2>2, <2>3 DEF Tracked, t
  <2>6. \A i \in 1 .. next' - 1 :
          (\E r \in seen' : finger'[r] = sample'[i].finger) \/ Taken'
    BY <1>1, <1>5, <2>1, <2>2, <2>3, <2>4 DEF Tracked, t
  <2>7. /\ next' <= Len(sample') + 1 /\ seen' \subseteq Slot
        /\ \A i, j \in 1 .. Len(sample') : sample'[i].finger = sample'[j].finger => i = j
    BY <1>1, <2>1 DEF Tracked
  <2> QED BY <2>5, <2>6, <2>7 DEF Tracked
<1>7. CASE UNCHANGED <<finger, at, seen>> /\ Inactive = {}
  <2>1. Taken'
    BY <1>7 DEF Inactive, Taken
  <2> QED BY <1>1, <1>5, <1>7, <2>1 DEF Tracked
<1>8. ASSUME NEW s \in Found(t.finger), UNCHANGED finger,
             at' = [at EXCEPT ![s] = t.pos], seen' = seen \cup {s}
      PROVE  Tracked'
  <2>1. s \in Slot /\ finger[s] = t.finger /\ s \notin seen
    BY <1>4, <1>8 DEF Found
  <2>2. finger' = [finger EXCEPT ![s] = t.finger]
    BY <1>8, <2>1 DEF IInv, Types
  <2> QED BY <1>6, <1>8, <2>1, <2>2
<1>9. ASSUME NEW s \in Inactive, finger' = [finger EXCEPT ![s] = t.finger],
             at' = [at EXCEPT ![s] = t.pos], seen' = seen \cup {s}
      PROVE  Tracked'
  <2>1. s \in Slot /\ finger[s] = NoFinger /\ s \notin seen
    BY <1>4, <1>9 DEF Inactive
  <2> QED BY <1>6, <1>9, <2>1
<1> QED BY <1>7, <1>8, <1>9 DEF Touch, slotVars, t

\* At the end of every sample the slots agree with it, for any number of fingers and
\* slots, in any order of touches.
THEOREM SlotsCorrect == TouchSpec => []SlotsTrackSample
<1> DEFINE Placed == at \in [Slot -> Position] /\ (pc = "touch" => sample \in Samples)
<1>1. TouchInit => Placed /\ Tracked
  BY DEF TouchInit, Tracked
<1>2. ASSUME IInv, Placed, Tracked, [Next]_vars PROVE (Placed /\ Tracked)'
  <2>1. CASE Controller \/ NoSample \/ EndTouches
    BY <1>2, <2>1
    DEF Controller, UpdateInput, NoSample, EndTouches, slotVars, Tracked
  <2>2. ASSUME NEW s \in Samples, Sample(s) PROVE (Placed /\ Tracked)'
    <3>1. /\ pc' = "touch" /\ sample' = s /\ next' = 1 /\ seen' = {}
          /\ UNCHANGED <<finger, at>>
      BY <2>2 DEF Sample, slotVars
    <3>2. /\ Len(s) \in Nat
          /\ \A i, j \in 1 .. Len(s) : s[i].finger = s[j].finger => i = j
      <4>1. PICK n \in 0 .. Cardinality(Finger) :
              /\ s \in [1 .. n -> TouchRecord]
              /\ \A i, j \in 1 .. n : s[i].finger = s[j].finger => i = j
        BY DEF Samples, TouchRecord
      <4>2. n \in Nat /\ Len(s) = n
        BY <4>1
      <4> QED BY <4>1, <4>2
    <3> QED BY <1>2, <3>1, <3>2 DEF Tracked
  <2>3. CASE Touch
    <3>1. \A i \in 1 .. Len(sample) : sample[i].pos \in Position
      BY <1>2, TouchOf DEF IInv, Types
    <3>2. /\ pc = "touch" /\ sample' = sample /\ sample[next].pos \in Position
          /\ at' = at \/ \E r \in Slot : at' = [at EXCEPT ![r] = sample[next].pos]
      BY <1>2, <2>3, <3>1 DEF Touch, slotVars, Found, Inactive, IInv, Types
    <3>3. Placed'
      BY <1>2, <3>2
    <3> QED BY <1>2, <2>3, <3>3, TrackStep
  <2>4. CASE Game \/ UNCHANGED vars
    BY <1>2, <2>4 DEF Game, vars, slotVars, loopVars, Tracked, Taken
  <2>5. CASE GameOverlays
    BY <1>2, <2>5 DEF GameOverlays, slotVars, loopVars, Tracked, Taken
  <2> QED BY <1>2, <2>1, <2>2, <2>3, <2>4, <2>5 DEF Next, UpdateTouch
<1>3. IInv /\ Tracked => SlotsTrackSample
  <2> SUFFICES ASSUME IInv, Tracked, pc = "touch", next > Len(sample)
               PROVE  /\ \A s \in seen : \E i \in 1 .. Len(sample) :
                           finger[s] = sample[i].finger /\ at[s] = sample[i].pos
                      /\ \A i \in 1 .. Len(sample) :
                           \/ \E s \in seen : finger[s] = sample[i].finger
                           \/ \A s \in Slot : finger[s] # NoFinger
    BY DEF SlotsTrackSample
  <2>1. next - 1 = Len(sample)
    BY DEF Tracked, IInv, Types
  <2> QED BY <2>1 DEF Tracked, Taken
<1> QED BY <1>1, <1>2, <1>3, Invariant, PTL DEF TouchSpec

=============================================================================
