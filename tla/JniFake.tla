------------------------------- MODULE JniFake -------------------------------
(***************************************************************************)
(* The fake Java environment of source/jni_fake.c, as the game's main      *)
(* thread uses it.  The game asks for the id of a method, keeps it or asks *)
(* again, and calls the method through it; ids point into a pool of fixed  *)
(* size.  Among the methods are startTextInput and stopTextInput; the main *)
(* loop shows the keyboard in jni_update() and calls the game back.        *)
(***************************************************************************)
EXTENDS Integers, Sequences, FiniteSets

CONSTANTS
  Method,     \* the methods of the game, each a name with a signature
  Long,       \* those whose signature does not fit the 64 bytes of a record
  Start,      \* startTextInput
  Stop,       \* stopTextInput
  Text,       \* what a text can be
  Beginning,  \* Beginning[t]: what of t fits TEXT_INPUT_MAX bytes
  NoMethod,   \* "none"
  MaxIds,     \* MAX_IDS
  MaxLookups  \* bound: how often the game asks for an id

ASSUME JniAssumption ==
  /\ Long \subseteq Method /\ {Start, Stop} \subseteq Method /\ Start # Stop
  /\ NoMethod \notin Method
  /\ MaxIds \in Nat \ {0} /\ MaxLookups \in Nat
  /\ Text # {} /\ Beginning \in [Text -> Text]
  /\ \A t \in Text : Beginning[Beginning[t]] = Beginning[t]

VARIABLES
  pool,      \* id_pool: the methods of its first id_count records
  id,        \* game: id[m], the record it was given for m, or 0
  asked,     \* game: the methods of which it has asked for an id, in order
  last,      \* the last call: the method that was meant and the one that ran
  pending,   \* text_input_pending
  initial,   \* text_input_initial
  pc,        \* where jni_update() is
  shown,     \* the text that the keyboard begins with
  wanted,    \* history: startTextInput was called and not yet served or undone
  wantedText \* history: the text of the last startTextInput

idVars     == <<pool, id, asked>>
textVars   == <<pending, initial>>
updateVars == <<pc, shown>>
wantedVars == <<wanted, wantedText>>
vars == <<idVars, last, textVars, updateVars, wantedVars>>

Init ==
  /\ pool = <<>> /\ id = [m \in Method |-> 0] /\ asked = <<>>
  /\ last = [meant |-> NoMethod, ran |-> NoMethod]
  /\ pending = FALSE /\ initial \in {Beginning[t] : t \in Text}
  /\ pc = "game" /\ shown = initial
  /\ wanted = FALSE /\ wantedText = initial

\* The game runs between two calls of jni_update(), and in its callbacks.
GameRuns == pc \in {"game", "changed", "finished"}

-----------------------------------------------------------------------------
(***************************************************************************)
(* get_id().  A truncated signature is never found again.                  *)
(***************************************************************************)
\* Mutant of Matches: records are told apart by their signature alone, which all
\* short methods but startTextInput share.
MatchesSignature(i, m) == m \notin Long /\ (pool[i] = m \/ Start \notin {m, pool[i]})
\* strcmp() of a record with what is asked for
Matches(i, m) == m \notin Long /\ pool[i] = m

FirstMatch(m) == {i \in 1 .. Len(pool) :
                    Matches(i, m) /\ \A j \in 1 .. i - 1 : ~Matches(j, m)}

\* id_count >= MAX_IDS
Full == Len(pool) >= MaxIds

\* j_GetMethodID(): when the pool is full an unknown method gets the first record.
GetMethodID(m) ==
  /\ GameRuns /\ Len(asked) < MaxLookups
  /\ asked' = Append(asked, m)
  /\ \/ \E i \in FirstMatch(m) : id' = [id EXCEPT ![m] = i] /\ UNCHANGED pool
     \/ /\ FirstMatch(m) = {} /\ Full
        /\ id' = [id EXCEPT ![m] = 1] /\ UNCHANGED pool
     \/ /\ FirstMatch(m) = {} /\ ~Full
        /\ pool' = Append(pool, m)
        /\ id' = [id EXCEPT ![m] = Len(pool) + 1]
  /\ UNCHANGED <<last, textVars, updateVars, wantedVars>>

-----------------------------------------------------------------------------
(***************************************************************************)
(* A call through an id runs the method that its record names.             *)
(***************************************************************************)
\* what startTextInput leaves in text_input_initial: snprintf() cuts off the rest
InitialText(text) == Beginning[text]

\* startTextInput of the text that is given, stopTextInput, or another method
Dispatch(m, text) ==
  CASE m = Start -> pending' = TRUE /\ initial' = InitialText(text)
    [] m = Stop  -> pending' = FALSE /\ UNCHANGED initial
    [] OTHER     -> UNCHANGED <<pending, initial>>

CallMethod(m, text) ==
  /\ GameRuns /\ id[m] # 0
  /\ LET ran == pool[id[m]] IN
       /\ Dispatch(ran, text)
       /\ last' = [meant |-> m, ran |-> ran]
       /\ wanted' = (ran = Start \/ (wanted /\ ran # Stop))
       /\ wantedText' = IF ran = Start THEN text ELSE wantedText
  /\ UNCHANGED <<idVars, updateVars>>

-----------------------------------------------------------------------------
(***************************************************************************)
(* jni_update(), with the game's callbacks between its steps.              *)
(***************************************************************************)
\* Mutant of ClearsPending: the request is cleared when it has been served.
ClearsAtEnd == pc = "finished"
\* where jni_update() clears text_input_pending
ClearsPending == pc = "game"

\* The keyboard is created, with the text of the request.
Update ==
  /\ pc = "game" /\ pending
  /\ pc' = "keyboard"
  /\ pending' = ~ClearsPending
  /\ shown' = initial /\ wanted' = FALSE
  /\ UNCHANGED <<idVars, last, initial, wantedText>>

\* the game's callback that follows the keyboard
AfterKeyboard(rc) == IF rc THEN "changed" ELSE "finished"

\* The keyboard has a result, or could not be created or shown, or is cancelled.
Keyboard(rc) ==
  /\ pc = "keyboard" /\ pc' = AfterKeyboard(rc)
  /\ UNCHANGED <<idVars, last, textVars, shown, wantedVars>>

\* text_input_changed() returns, and text_input_finished() is called.
Changed ==
  /\ pc = "changed" /\ pc' = "finished"
  /\ UNCHANGED <<idVars, last, textVars, shown, wantedVars>>

\* text_input_finished() returns.
Finished ==
  /\ pc = "finished" /\ pc' = "game"
  /\ pending' = (pending /\ ~ClearsPending)
  /\ UNCHANGED <<idVars, last, initial, shown, wantedVars>>

Next ==
  \/ \E m \in Method : GetMethodID(m) \/ \E text \in Text : CallMethod(m, text)
  \/ Update \/ (\E rc \in BOOLEAN : Keyboard(rc)) \/ Changed \/ Finished

Spec == Init /\ [][Next]_vars

-----------------------------------------------------------------------------
TypeOK ==
  /\ pool \in Seq(Method) /\ Len(pool) <= MaxIds
  /\ id \in [Method -> 0 .. Len(pool)]
  /\ asked \in Seq(Method)
  /\ last \in [meant : Method \cup {NoMethod}, ran : Method \cup {NoMethod}]
  /\ pending \in BOOLEAN /\ initial \in Text
  /\ pc \in {"game", "keyboard", "changed", "finished"}
  /\ shown \in Text
  /\ wanted \in BOOLEAN /\ wantedText \in Text

\* How many records the game has needed: one for each method, but one for each
\* time that it asked for a method whose signature is too long.
Needed ==
  Cardinality({asked[i] : i \in 1 .. Len(asked)} \ Long) +
  Cardinality({i \in 1 .. Len(asked) : asked[i] \in Long})

\* A call runs another method only after the pool has overflowed, and for no other
\* reason: asking again for a method, or keeping an id, is harmless.
DispatchWhileRoom == Needed <= MaxIds => last.meant = last.ran

\* A request for text input is never lost, whenever the game made it, also from
\* the callbacks for an earlier one; one that was undone is never served; and
\* the keyboard begins with the text of the last request, as much of it as fits.
RequestKept ==
  /\ wanted <=> pending
  /\ pc = "keyboard" => shown = Beginning[wantedText]
=============================================================================
