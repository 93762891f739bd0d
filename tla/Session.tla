------------------------------- MODULE Session -------------------------------
(***************************************************************************)
(* One session of the program as main() of source/main.c runs it, from the *)
(* audio and render contexts to the exit, and who owns them: the OpenAL    *)
(* device and context are created by init_openal() of source/imports.c and *)
(* shared with the game, whose calls to open, create, close and destroy    *)
(* them are hooked; EGL is that of source/egl_helper.c.                    *)
(*                                                                         *)
(* Handles are "own", the device or context that init_openal() made, or    *)
(* "null".  Destructors of the game run at any time once its initialisers  *)
(* have run, also while and after main() tears everything down.            *)
(***************************************************************************)
EXTENDS Integers, FiniteSets

VARIABLES
  pc,       \* where main() is
  device,   \* g_al_device
  context,  \* g_al_context
  active,   \* g_al_active
  live,     \* OpenAL: which of "device" and "context" exist
  current,  \* OpenAL: whether the context is current
  faults,   \* history: what was closed or destroyed that did not exist
  held,     \* game: the <<kind, handle>> that the hooks have returned to it
  gameSources,  \* game: its audio system, and with it its sources, exists
  musicSources, \* the source and buffers of the music player exist
  inited,   \* s_inited of the music player
  egl       \* what exists of EGL: "display", "surface", "context", "current"

alVars   == <<device, context, active, live, current, faults>>
gameVars == <<held, gameSources>>
vars == <<pc, alVars, gameVars, musicSources, inited, egl>>

Init ==
  /\ pc = "openal"
  /\ device = "null" /\ context = "null" /\ active = FALSE
  /\ live = {} /\ current = FALSE /\ faults = {}
  /\ held = {} /\ gameSources = FALSE
  /\ musicSources = FALSE /\ inited = FALSE
  /\ egl = {}

-----------------------------------------------------------------------------
(***************************************************************************)
(* init_openal() and egl_init().                                           *)
(***************************************************************************)
\* What exists after a call of init_openal() has failed.
Abandoned == {}

\* whether g_al_active is set
Activates(ok) == ok

InitOpenAL ==
  /\ pc = "openal" /\ pc' = "egl"
  /\ \E ok \in BOOLEAN :
       /\ IF ok THEN device' = "own" /\ context' = "own" /\ live' = {"device", "context"}
                ELSE device' = "null" /\ context' = "null" /\ live' = Abandoned
       /\ active' = Activates(ok) /\ current' = ok
  /\ UNCHANGED <<faults, gameVars, musicSources, inited, egl>>

\* Any call of egl_init() can fail, which ends the program.
EglInit ==
  /\ pc = "egl"
  /\ \/ pc' = "fatal" /\ egl' \in {{}, {"display"}, {"display", "surface"},
                                   {"display", "surface", "context"}}
     \/ pc' = "launch" /\ egl' = {"display", "surface", "context", "current"}
  /\ UNCHANGED <<alVars, gameVars, musicSources, inited>>

\* music_init(), after the game was launched; mpg123 may fail, and without a
\* current context there are no sources.
MusicInit ==
  /\ pc = "launch" /\ pc' = "running"
  /\ inited' \in BOOLEAN
  /\ musicSources' = (inited' /\ current)
  /\ UNCHANGED <<alVars, gameVars, egl>>

-----------------------------------------------------------------------------
(***************************************************************************)
(* The hooks of the game.                                                  *)
(***************************************************************************)
\* alcOpenDevice_hook()
OpenDevice == IF active THEN device ELSE "null"
\* alcCreateContext_hook()
CreateContext(dev) == IF active /\ dev = device THEN context ELSE "null"

\* The game opens and uses its audio in launchGame and later.
Launched == pc \in {"launch", "running"}

GameOpens ==
  /\ Launched
  /\ \/ held' = held \cup {<<"device", OpenDevice>>}
     \/ \E h \in held : h[1] = "device" /\ held' = held \cup {<<"context", CreateContext(h[2])>>}
  /\ UNCHANGED <<pc, alVars, gameSources, musicSources, inited, egl>>

\* alcMakeContextCurrent(), which is not hooked, of a context that the game was given
GameMakesCurrent ==
  /\ Launched
  /\ \/ <<"context", "null">> \in held /\ current' = FALSE
     \/ <<"context", "own">> \in held /\ "context" \in live /\ current' = TRUE
  /\ UNCHANGED <<pc, device, context, active, live, faults, gameVars, musicSources, inited, egl>>

\* The game's audio system makes its sources on the context it was given.
GameStartsAudio ==
  /\ Launched /\ <<"context", "own">> \in held
  /\ gameSources' = TRUE
  /\ UNCHANGED <<pc, alVars, held, musicSources, inited, egl>>

\* Mutant of Shared: the hooks know no handle of their own.
NotShared(kind, handle) == FALSE
\* whether the handle is the one that the wrapper shares, which is left alone
Shared(kind, handle) ==
  \/ kind = "device" /\ handle = device
  \/ kind = "context" /\ handle = context

\* alcCloseDevice() and alcDestroyContext(); OpenAL ignores NULL.
Free(kind, handle) ==
  IF handle = "null" THEN UNCHANGED <<live, faults>>
  ELSE live' = live \ {kind} /\ faults' = IF kind \in live THEN faults ELSE faults \cup {kind}

\* alcCloseDevice_hook() or alcDestroyContext_hook(), also from a destructor
GameFrees ==
  /\ pc \notin {"openal", "egl", "exited"}
  /\ \E h \in held :
       /\ IF Shared(h[1], h[2]) THEN UNCHANGED <<live, faults>> ELSE Free(h[1], h[2])
       /\ held' = held \ {h}
  /\ UNCHANGED <<pc, device, context, active, current, gameSources, musicSources, inited, egl>>

-----------------------------------------------------------------------------
(***************************************************************************)
(* The end of main(), one call a step.                                     *)
(***************************************************************************)
\* The applet loop ends.
EndLoop ==
  /\ pc = "running" /\ pc' = "music"
  /\ UNCHANGED <<alVars, gameVars, musicSources, inited, egl>>

\* music_deinit(), which without a current context deletes nothing
MusicDeinit ==
  /\ pc = "music" /\ pc' = "audio"
  /\ inited' = FALSE
  /\ musicSources' = (musicSources /\ ~(inited /\ current))
  /\ UNCHANGED <<alVars, gameVars, egl>>

\* Mutant of Shuts: the game's sources are left to its destructors.
ShutsNothing == FALSE
\* whether there is a sharedAudioSystem() to shut down
Shuts == gameSources

\* The game's shutdown may leave no context current.
ShutdownAudio ==
  /\ pc = "audio" /\ pc' = "egl_deinit"
  /\ gameSources' = (gameSources /\ ~Shuts)
  /\ current' \in (IF Shuts THEN {current, FALSE} ELSE {current})
  /\ UNCHANGED <<device, context, active, live, faults, held, musicSources, inited, egl>>

EglDeinit ==
  /\ pc = "egl_deinit" /\ pc' = "context"
  /\ egl' = IF "display" \in egl THEN {} ELSE egl
  /\ UNCHANGED <<alVars, gameVars, musicSources, inited>>

\* deinit_openal() makes no context current and destroys its own.
DestroyContext ==
  /\ pc = "context" /\ pc' = IF active THEN "device" ELSE "exit"
  /\ IF active /\ context # "null"
     THEN current' = FALSE /\ Free("context", context)
     ELSE UNCHANGED <<current, live, faults>>
  /\ UNCHANGED <<device, context, active, gameVars, musicSources, inited, egl>>

\* Mutant of Kept: the pointers are cleared.
Cleared(handle) == "null"
\* what deinit_openal() leaves in g_al_device and g_al_context
Kept(handle) == handle

CloseDevice ==
  /\ pc = "device" /\ pc' = "exit"
  /\ Free("device", device)
  /\ active' = FALSE
  /\ device' = Kept(device) /\ context' = Kept(context)
  /\ UNCHANGED <<current, gameVars, musicSources, inited, egl>>

\* __libnx_exit(), exit() called by the game, or fatal_error()
Exit ==
  /\ pc \in {"exit", "fatal"} \/ Launched
  /\ pc' = "exited"
  /\ UNCHANGED <<alVars, gameVars, musicSources, inited, egl>>

Main ==
  \/ InitOpenAL \/ EglInit \/ MusicInit
  \/ EndLoop \/ MusicDeinit \/ ShutdownAudio \/ EglDeinit
  \/ DestroyContext \/ CloseDevice \/ Exit

Game == GameOpens \/ GameMakesCurrent \/ GameStartsAudio \/ GameFrees

Next == Main \/ Game

Spec == Init /\ [][Next]_vars

-----------------------------------------------------------------------------
Handle == {"null", "own"}

TypeOK ==
  /\ pc \in {"openal", "egl", "launch", "running", "music", "audio", "egl_deinit",
             "context", "device", "exit", "exited", "fatal"}
  /\ device \in Handle /\ context \in Handle
  /\ active \in BOOLEAN /\ (active => device = "own" /\ context = "own")
  /\ live \subseteq {"device", "context"} /\ current \in BOOLEAN
  /\ faults \subseteq {"device", "context"}
  /\ held \subseteq {"device", "context"} \X Handle
  /\ gameSources \in BOOLEAN /\ musicSources \in BOOLEAN /\ inited \in BOOLEAN
  /\ egl \subseteq {"display", "surface", "context", "current"}

\* Neither the game, whose destructors may come late, nor main() closes or destroys
\* the device or the context when it does not exist any more.
NoDoubleFree == faults = {}

\* What the game was given stays valid and current until main() has ended the music
\* and the game's audio, whatever the game closes or destroys, and whatever context of
\* those it was given it makes current.
SharedKept ==
  pc \in {"launch", "running", "music", "audio"} /\ held \cap ({"device", "context"} \X {"own"}) # {}
    => live = {"device", "context"} /\ current

\* The sources and buffers of the game and of the music player are released before
\* deinit_openal() destroys the context that they live on.
SourcesReleased == gameSources \/ musicSources => "context" \in live
=============================================================================
