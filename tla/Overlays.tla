------------------------------ MODULE Overlays ------------------------------
(***************************************************************************)
(* The registry of game overlays in source/main.c.  Hooks on the game's    *)
(* GameOverlayView::InitWithGameState() and on its destructor record which *)
(* views exist, so that set_touch_controls_hidden() can show or hide the   *)
(* touch controls of all of them.  Everything runs on the main thread.     *)
(*                                                                         *)
(* A view is an address: one that was destroyed may be used again, and the *)
(* game may initialise a view that exists once more.                       *)
(***************************************************************************)
EXTENDS Integers, FiniteSets

CONSTANTS
  View,       \* the addresses of game overlay views
  NoView,     \* NULL
  MaxOverlays \* MAX_GAME_OVERLAYS

ASSUME OverlaysAssumption ==
  /\ NoView \notin View
  /\ MaxOverlays \in Nat \ {0}

VARIABLES
  registry,  \* game_overlays
  hidden,    \* touch_controls_hidden
  alive,     \* the views that exist
  invisible, \* invisible[v]: whether the control buttons of v are hidden
  strained   \* history: a view was initialised twice, or too many existed

overlayVars == <<registry, hidden, alive, invisible, strained>>

\* The entries that the loops over game_overlays run through.
Entry == 0 .. MaxOverlays - 1

Registered(v) == \E i \in Entry : registry[i] = v

OverlayInit ==
  /\ registry = [i \in Entry |-> NoView]
  /\ hidden = FALSE
  /\ alive = {} /\ invisible \in [View -> BOOLEAN] /\ strained = FALSE

\* game_overlay_init_hook() stops at the first entry that holds v or nothing.
Takes(i, v) == registry[i] \in {v, NoView}

\* Mutant of Shown: a new view shows its controls.
AlwaysShown == FALSE
\* What the hook tells a view that it registers.
Shown == hidden

InitView(v) ==
  /\ \/ \E i \in Entry :
          /\ Takes(i, v) /\ \A j \in 0 .. i - 1 : ~Takes(j, v)
          /\ registry' = [registry EXCEPT ![i] = v]
          /\ invisible' = [invisible EXCEPT ![v] = Shown]
     \/ /\ \A i \in Entry : ~Takes(i, v)
        /\ UNCHANGED registry
        /\ \E b \in BOOLEAN : invisible' = [invisible EXCEPT ![v] = b]
  /\ alive' = alive \cup {v}
  /\ strained' = (strained \/ v \in alive \/ Cardinality(alive) >= MaxOverlays)
  /\ UNCHANGED hidden

\* Mutant of Cleared: the search stops at the first entry.
ClearedOnce(v) ==
  [i \in Entry |-> IF registry[i] = v /\ \A j \in 0 .. i - 1 : registry[j] # v
                   THEN NoView ELSE registry[i]]
\* The registry without v, which may be in several entries.
Cleared(v) == [i \in Entry |-> IF registry[i] = v THEN NoView ELSE registry[i]]

DestroyView(v) ==
  /\ v \in alive
  /\ registry' = Cleared(v)
  /\ alive' = alive \ {v}
  /\ UNCHANGED <<hidden, invisible, strained>>

\* set_touch_controls_hidden()
SetHidden(h) ==
  /\ hidden' = h
  /\ invisible' = [v \in View |-> IF Registered(v) THEN h ELSE invisible[v]]
  /\ UNCHANGED <<registry, alive, strained>>

OverlayStep == \E v \in View : InitView(v) \/ DestroyView(v)
OverlayNext == OverlayStep \/ \E h \in BOOLEAN : SetHidden(h)

OverlaySpec == OverlayInit /\ [][OverlayNext]_overlayVars

-----------------------------------------------------------------------------
OverlayTypeOK ==
  /\ registry \in [0 .. MaxOverlays - 1 -> View \cup {NoView}]
  /\ hidden \in BOOLEAN
  /\ alive \subseteq View
  /\ invisible \in [View -> BOOLEAN]
  /\ strained \in BOOLEAN

\* set_touch_controls_hidden() never calls the game with a destroyed view, also
\* after one view came to be in two entries.
NoDangling == \A v \in View : Registered(v) => v \in alive

\* All views that are registered show or hide their controls alike.
AgreeOnHidden == \A v \in View : Registered(v) => invisible[v] = hidden

\* Every view that exists is registered, holes left by destroyed views
\* notwithstanding, unless one was initialised twice or there were too many.
LiveRegistered == ~strained => \A v \in alive : Registered(v)

\* The registry has the views that exist, and no others.
RegistrySound == NoDangling /\ LiveRegistered
=============================================================================
