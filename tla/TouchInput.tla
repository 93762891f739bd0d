----------------------------- MODULE TouchInput -----------------------------
(***************************************************************************)
(* update_input() and update_touch() of source/main.c: controller buttons  *)
(* and fingers become touches of the game, some keys become key events,    *)
(* and whichever was used last decides if the touch controls are shown.    *)
(*                                                                         *)
(* A frame of the main loop is update_input(), update_touch(), and the     *)
(* game.  The game is a monitor of what it is told: for each touch id and  *)
(* each key, whether it is down.  While it handles an event or draws a     *)
(* frame it may create and destroy overlays.                               *)
(***************************************************************************)
EXTENDS Overlays, Sequences

CONSTANTS
  Finger,   \* the finger ids of the touch screen
  NoFinger, \* an inactive slot
  MaxTouch, \* MAX_TOUCH
  Button,   \* the touch ids of the buttons in button_map
  Key,      \* the keys that the controller drives
  Position  \* where a finger can be, after scaling

\* The slots that the loops over touch_slots run through.
Slot == 0 .. MaxTouch - 1

ASSUME TouchInputAssumption ==
  /\ NoFinger \notin Finger /\ IsFiniteSet(Finger)
  /\ MaxTouch \in Nat \ {0}
  /\ Slot \cap Button = {}
  /\ Position # {}

VARIABLES
  pc,       \* where the main loop is in the frame
  held,     \* pad_prev: the buttons of button_map that are held
  keys,     \* left_prev, right_prev, jump_prev
  used,     \* controller_used of the next frame is set: pad_prev and
            \* stick_was_active are not all clear
  keyboard, \* whether sharedKeyboard() returns a keyboard
  finger,   \* touch_slots[s].finger_id, or NoFinger
  at,       \* touch_slots[s].x and .y
  sample,   \* the touches of the sample that update_touch() works on
  next,     \* its loop counter
  seen,     \* the slots it has seen
  touch,    \* game: "up", "down" or, after a wrong event, "confused", by id
  keyDown   \* game: the keys that are down

buttonVars == <<held, keys, used, keyboard>>
slotVars   == <<finger, at>>
loopVars   == <<sample, next, seen>>
gameVars   == <<touch, keyDown>>
vars == <<pc, buttonVars, slotVars, loopVars, gameVars, overlayVars>>

Id == Slot \cup Button

\* What the game makes of a phase for an id: a touch begins when the id is up,
\* and moves and ends when it is down.
Receive(phase, state) ==
  CASE phase = "BEGAN" /\ state = "up"   -> "down"
    [] phase = "MOVED" /\ state = "down" -> "down"
    [] phase = "ENDED" /\ state = "down" -> "up"
    [] OTHER                             -> "confused"

TouchInit ==
  /\ OverlayInit
  /\ pc = "input"
  /\ held = {} /\ keys = {} /\ used = FALSE /\ keyboard \in BOOLEAN
  /\ finger = [s \in Slot |-> NoFinger] /\ at \in [Slot -> Position]
  /\ sample = <<>> /\ next = 1 /\ seen = {}
  /\ touch = [i \in Id |-> "up"] /\ keyDown = {}

-----------------------------------------------------------------------------
(***************************************************************************)
(* update_input()                                                          *)
(***************************************************************************)
\* Mutant of ButtonPhase: a button that is still held begins again.
PhaseOfHeld(b, down) == IF b \in down THEN "BEGAN" ELSE "ENDED"
\* drive_button(), for a button that is or was held
ButtonPhase(b, down) ==
  IF b \in down THEN IF b \in held THEN "MOVED" ELSE "BEGAN" ELSE "ENDED"

\* The keys of drive_key() that have come up.
Released(now) == keys \ now

\* controller_used: the pad or a stick is in use, or was in the last frame.
InUse(other) == other \/ used

\* down and now are the buttons and keys of the pad.  other says if the pad or a
\* stick is used at all, by them or in a way that has no touch or key.
UpdateInput(down, now, other) ==
  /\ pc = "input" /\ pc' = "sample"
  /\ down # {} \/ now # {} => other
  /\ touch' = [i \in Id |-> IF i \in down \cup held
                            THEN Receive(ButtonPhase(i, down), touch[i])
                            ELSE touch[i]]
  /\ keyDown' = IF keyboard THEN (keyDown \cup (now \ keys)) \ Released(now)
                            ELSE keyDown
  /\ IF InUse(other) THEN SetHidden(TRUE) ELSE UNCHANGED overlayVars
  /\ held' = down /\ keys' = now /\ used' = other
  /\ UNCHANGED <<keyboard, slotVars, loopVars>>

-----------------------------------------------------------------------------
(***************************************************************************)
(* update_touch()                                                          *)
(***************************************************************************)
\* hidGetTouchScreenStates() has nothing.
NoSample ==
  /\ pc = "sample" /\ pc' = "game"
  /\ sample' = <<>> /\ next' = 1 /\ seen' = {}
  /\ UNCHANGED <<buttonVars, slotVars, gameVars, overlayVars>>

\* The samples of the touch screen: no finger is in one twice.
Samples ==
  UNION {{s \in [1 .. n -> [finger : Finger, pos : Position]] :
            \A i, j \in 1 .. n : s[i].finger = s[j].finger => i = j} :
         n \in 0 .. Cardinality(Finger)}

Sample(s) ==
  /\ pc = "sample" /\ pc' = "touch"
  /\ sample' = s /\ next' = 1 /\ seen' = {}
  /\ IF s # <<>> THEN SetHidden(FALSE) ELSE UNCHANGED overlayVars
  /\ UNCHANGED <<buttonVars, slotVars, gameVars>>

\* touch_slot_find(), as a set
Found(f) == {s \in Slot : finger[s] = f}

\* Mutant of Inactive: the last slot is never used.
InactiveButLast == {s \in Slot : s # MaxTouch - 1 /\ finger[s] = NoFinger}
\* the slots that are not active, of which touch_slot_alloc() takes the first
Inactive == {s \in Slot : finger[s] = NoFinger}

Touch ==
  /\ pc = "touch" /\ next <= Len(sample)
  /\ next' = next + 1
  /\ LET t == sample[next] IN
       \/ \E s \in Found(t.finger) :
            /\ touch' = IF t.pos = at[s] THEN touch
                        ELSE [touch EXCEPT ![s] = Receive("MOVED", touch[s])]
            /\ at' = [at EXCEPT ![s] = t.pos]
            /\ seen' = seen \cup {s}
            /\ UNCHANGED finger
       \/ /\ Found(t.finger) = {}
          /\ \E s \in Inactive :
               /\ \A r \in Inactive : s <= r
               /\ touch' = [touch EXCEPT ![s] = Receive("BEGAN", touch[s])]
               /\ finger' = [finger EXCEPT ![s] = t.finger]
               /\ at' = [at EXCEPT ![s] = t.pos]
               /\ seen' = seen \cup {s}
       \/ /\ Found(t.finger) = {}
          /\ Inactive = {}
          /\ UNCHANGED <<touch, slotVars, seen>>
  /\ UNCHANGED <<pc, buttonVars, sample, keyDown, overlayVars>>

\* Mutant of Lifted: a sample without touches is not worked on.
LiftedUnlessEmpty ==
  {s \in Slot : finger[s] # NoFinger /\ s \notin seen /\ sample # <<>>}
\* The slots whose fingers are gone.
Lifted == {s \in Slot : finger[s] # NoFinger /\ s \notin seen}

EndTouches ==
  /\ pc = "touch" /\ next > Len(sample)
  /\ pc' = "game"
  /\ touch' = [i \in Id |-> IF i \in Lifted THEN Receive("ENDED", touch[i])
                                            ELSE touch[i]]
  /\ finger' = [s \in Slot |-> IF s \in Lifted THEN NoFinger ELSE finger[s]]
  /\ UNCHANGED <<buttonVars, at, loopVars, keyDown, overlayVars>>

-----------------------------------------------------------------------------
(***************************************************************************)
(* The game: it draws, it may have created its keyboard meanwhile, which   *)
(* then stays, and it creates and destroys overlays in any event handler,  *)
(* of which there is none between update_input() and the sample.           *)
(***************************************************************************)
Game ==
  /\ pc = "game" /\ pc' = "input"
  /\ keyboard' \in {TRUE, keyboard}
  /\ UNCHANGED <<held, keys, used, slotVars, loopVars, gameVars, overlayVars>>

GameOverlays ==
  /\ pc # "sample" /\ OverlayStep
  /\ UNCHANGED <<pc, buttonVars, slotVars, loopVars, gameVars>>

UpdateTouch == NoSample \/ (\E s \in Samples : Sample(s)) \/ Touch \/ EndTouches

Controller == \E down \in SUBSET Button, now \in SUBSET Key, other \in BOOLEAN :
                UpdateInput(down, now, other)

Next == Controller \/ UpdateTouch \/ Game \/ GameOverlays

TouchSpec == TouchInit /\ [][Next]_vars

(***************************************************************************)
(* The main loop goes on, and the touch screen again and again has a       *)
(* sample.                                                                 *)
(***************************************************************************)
Fairness ==
  /\ WF_vars(Controller \/ UpdateTouch \/ Game)
  /\ SF_vars(\E s \in Samples : Sample(s))

FairSpec == TouchSpec /\ Fairness

-----------------------------------------------------------------------------
TypeOK ==
  /\ pc \in {"input", "sample", "touch", "game"}
  /\ held \subseteq Button /\ keys \subseteq Key
  /\ used \in BOOLEAN /\ keyboard \in BOOLEAN
  /\ finger \in [0 .. MaxTouch - 1 -> Finger \cup {NoFinger}]
  /\ at \in [Slot -> Position]
  /\ sample \in Samples /\ next \in 1 .. Len(sample) + 1 /\ seen \subseteq Slot
  /\ touch \in [Id -> {"up", "down", "confused"}] /\ keyDown \subseteq Key

\* The game only gets sequences BEGAN MOVED* ENDED for an id, and at all times
\* has down the ids of the buttons held and of the slots in use, no others.
TouchProtocol ==
  \A i \in Id : touch[i] = IF i \in held \cup {s \in Slot : finger[s] # NoFinger}
                           THEN "down" ELSE "up"

\* A finger never drives two touches.
OneSlot == \A r, s \in Slot : finger[r] = finger[s] /\ finger[r] # NoFinger => r = s

\* After a sample, every slot in use has the finger and position of a touch of
\* it, and a touch without a slot found all slots taken.
SlotsTrackSample ==
  pc = "touch" /\ next > Len(sample) =>
    /\ \A s \in seen : \E i \in 1 .. Len(sample) :
         finger[s] = sample[i].finger /\ at[s] = sample[i].pos
    /\ \A i \in 1 .. Len(sample) :
         \/ \E s \in seen : finger[s] = sample[i].finger
         \/ \A s \in Slot : finger[s] # NoFinger

\* A key never stays down that the controller does not hold, whenever the
\* game's keyboard came to be.
NoStuckKey == keyDown \subseteq keys

\* The touches and keys that the game believes to be down are those that are.
EventsSound == TouchProtocol /\ NoStuckKey

\* Between the samples of two frames, every registered overlay shows its touch
\* controls if the screen was touched, and hides them if only the controller was
\* used, also one that the game has created in answer to an event.
ControlsFollow ==
  pc # "sample" => \A v \in View : Registered(v) =>
    /\ sample # <<>> => ~invisible[v]
    /\ sample = <<>> /\ used => invisible[v]

\* When nothing is touched or held any more, the game in the end has every touch
\* and every key up: a lifted finger is noticed in a later sample.
AllReleased ==
  <>[](held = {} /\ keys = {} /\ sample = <<>>) =>
    <>[](keyDown = {} /\ \A i \in Id : touch[i] = "up")
=============================================================================
