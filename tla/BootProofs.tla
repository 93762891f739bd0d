----------------------------- MODULE BootProofs -----------------------------
(***************************************************************************)
(* Proofs about Boot, for every binary, heap and number of threads.        *)
(*                                                                         *)
(* Each invariant is inductive, if need be with the ones before it.        *)
(*   Staged    what has been done in each stage of main()                  *)
(*   Records   where the ThreadStart of each thread is                     *)
(*   Armed     no thread exists before what the game's code needs          *)
(*   Owned     who has the OpenAL handles in each state of the session     *)
(*   Paged     which pages so_finalize() has set, and to what              *)
(*   Zoned     what so_load() has reserved and copied                      *)
(*   Whole     that the image has whole pages                              *)
(*   Hooking   which hooks are installed, and which functions looked up    *)
(*   Bound     which words are relocated, packed and resolved              *)
(*   ImageTyped, R!TypeOK, S!TypeOK and Counts: the types                  *)
(*                                                                         *)
(* The module is laid out in this order.                                   *)
(***************************************************************************)
EXTENDS Boot, FiniteSetTheorems, SequenceTheorems, WellFoundedInduction, TLAPS

\* what there is from so_finalize() on
Late == {"flush", "tls", "init", "free", "session", "exited"}

Staged ==
  /\ stage \in {"heap", "checks", "load", "relocate", "hooks", "finalize", "fatal"}
               \cup {"entries"} \cup Late
  /\ rpc \in {"rela", "relr", "resolve", "done", "failed"}
  /\ stage = "heap" => pc = "heap"
  /\ stage = "checks" => pc = "open"
  /\ stage = "load" => pc \in {"open", "check", "copy"}
  /\ stage \in {"relocate", "hooks", "entries"} => pc = "loaded"
  /\ stage = "finalize" => pc \in {"loaded", "pages"}
  /\ stage \in Late => pc = "ready"
  /\ pc \in {"loaded", "pages"} => listed
  /\ pc \in {"check", "copy"} => so_base
  /\ stage \in {"relocate", "hooks", "entries", "finalize", "flush", "tls", "init"} => so_base
  /\ stage \in {"hooks", "entries", "finalize"} \cup Late => rpc = "done"
  /\ stage \in Late => listed
  /\ stage \in Late \ {"flush"} => flushed

\* The ThreadStart of a thread is there from its allocation until the thread has
\* taken it, or the creator knows that there is no thread.
Records ==
  /\ ThreadTypeOK /\ ~misuse /\ OwnTls
  /\ \A t \in Thread :
       /\ caller[t] = "none" => state[t] = "none" /\ record[t] = "none"
       /\ caller[t] \in {"calling", "refused"} => state[t] = "none" /\ record[t] = "live"
       /\ caller[t] = "created" => state[t] # "none"
       /\ state[t] = "start" => record[t] = "live"
       /\ caller[t] = "done" /\ state[t] = "none" => record[t] = "freed"
       /\ state[t] \in {"tls", "run", "ended"} => record[t] = "freed"

Armed ==
  /\ stage \in {"init", "free", "session", "exited"} => tls[MainThread] = MainThread
  /\ \A t \in Thread : caller[t] # "none" => stage \in {"init", "free", "session", "exited"}

Owned ==
  /\ spc \in {"openal", "egl", "launch", "running", "music", "audio", "egl_deinit",
             "context", "device", "exit", "exited", "fatal"}
  /\ faults = {}
  /\ spc \in {"openal", "egl"} => held = {} /\ ~gameSources /\ ~musicSources
  /\ active => device = "own" /\ context = "own" /\ "device" \in live
  /\ spc \in {"egl", "launch", "running", "music", "audio", "egl_deinit", "context"} =>
       /\ active <=> device = "own"
       /\ active <=> context = "own"
       /\ active => live = {"device", "context"}
  /\ spc \in {"egl", "launch", "running", "music", "audio"} => (active <=> current)
  /\ spc \in {"launch", "running"} /\ active => \A h \in held : h[2] = "own"
  /\ spc = "device" => active
  /\ held \subseteq {"device", "context"} \X {"null", "own"}
  /\ <<"device", "own">> \in held => device = "own"
  /\ <<"context", "own">> \in held => context = "own"
  /\ device \in {"null", "own"} /\ context \in {"null", "own"}
  /\ gameSources => /\ "context" \in live
                    /\ spc \in {"launch", "running", "music", "audio", "exited"}
  /\ musicSources => /\ "context" \in live /\ inited
                     /\ spc \in {"running", "music", "exited"}
                     /\ spc \in {"running", "music"} => current

-----------------------------------------------------------------------------
(***************************************************************************)
(* The stages of main().                                                   *)
(***************************************************************************)
\* The call that follows a call of main().
LEMMA ProceedTo ==
  ASSUME Proceed
  PROVE  /\ stage = "heap" => stage' = "checks"
         /\ stage = "checks" => stage' = "load"
         /\ stage = "load" => stage' = "relocate"
         /\ stage = "relocate" => stage' = "hooks"
         /\ stage = "hooks" => stage' = "entries"
         /\ stage = "entries" => stage' = "finalize"
         /\ stage = "finalize" => stage' = "flush"
         /\ stage = "flush" => stage' = "tls"
         /\ stage = "tls" => stage' = "init"
         /\ stage = "init" => stage' = "free"
         /\ stage = "free" => stage' = "session"
<1>1. PICK k \in 1 .. Len(Order) - 1 : Order[k] = stage /\ stage' = Order[k + 1]
  BY DEF Proceed
<1>2. Len(Order) = 12
  BY DEF Order
<1>3. k \in 1 .. 11
  BY <1>2
<1>4. \/ k = 1 \/ k = 2 \/ k = 3 \/ k = 4 \/ k = 5 \/ k = 6
      \/ k = 7 \/ k = 8 \/ k = 9 \/ k = 10 \/ k = 11
  BY <1>3
<1> QED BY <1>1, <1>4 DEF Order

\* main() begins before everything that Staged asks for.
LEMMA StagedInit == BootInit => Staged
BY DEF BootInit, InitWith, R!InitWith, Staged, Late

\* so_load() leaves the image as so_relocate() needs it, or ends the program.
LEMMA LoadStaged == ASSUME Staged, LoadStage PROVE Staged'
<1>1. stage = "load" /\ pc \in {"open", "check", "copy"}
  BY DEF LoadStage, Staged
<1>2. rpc' = rpc /\ flushed' = flushed
  BY DEF LoadStage, mainVars, relocVars
<1>3. /\ pc' \in {"check", "copy", "loaded", "failed"}
      /\ pc' = "loaded" => so_base' /\ listed'
      /\ pc' \in {"check", "copy"} => so_base'
  BY <1>1 DEF LoadStage, Load, Open, OpenFails, CheckFails, ZoneFaults, Reserve, CopySegment,
              NoSymbols, Register, Fail, Undo, fileVars, Staged
<1>4. /\ pc' = "loaded" => stage' = "relocate"
      /\ pc' = "failed" => stage' = "fatal"
      /\ pc' \in {"check", "copy"} => stage' = "load"
  BY <1>1, <1>3, ProceedTo DEF LoadStage, End, Stay
<1> QED BY <1>1, <1>2, <1>3, <1>4 DEF Staged, Late

\* so_relocate() and so_resolve() leave the image where it is.
LEMMA RelocateStaged == ASSUME Staged, RelocateStage PROVE Staged'
<1>1. stage = "relocate" /\ UNCHANGED <<pc, so_base, listed, flushed>>
  BY DEF RelocateStage, mainVars, imageVars, fileVars
<1>2. rpc' \in {"rela", "relr", "resolve", "done", "failed"}
  BY DEF RelocateStage, Staged, R!Next, R!Relocate, R!UnknownType, R!EndRela, R!Address,
         R!Bitmap, R!EndRelr, R!Resolve, R!EndResolve, R!Continue, R!Go
<1>3. /\ rpc' = "done" => stage' = "hooks"
      /\ rpc' = "failed" => stage' = "fatal"
      /\ rpc' \in {"rela", "relr", "resolve"} => stage' = "relocate"
  BY <1>1, <1>2, ProceedTo DEF RelocateStage, End, Stay
<1> QED BY <1>1, <1>2, <1>3 DEF Staged, Late

\* so_finalize() either ends with the image mapped, or ends the program.
LEMMA FinalizeStaged == ASSUME Staged, FinalizeStage PROVE Staged'
<1>1. /\ stage = "finalize" /\ pc \in {"loaded", "pages"}
      /\ UNCHANGED <<rpc, flushed>>
  BY DEF FinalizeStage, Staged, mainVars, relocVars
<1>2. pc' \in {"pages", "ready", "failed"} /\ UNCHANGED <<so_base, listed>>
  BY <1>1 DEF FinalizeStage, Finalize, Map, SkipPage, SetPermission, EndPass, Fatal, fileVars
<1>3. /\ pc' = "ready" => stage' = "flush"
      /\ pc' = "failed" => stage' = "fatal"
      /\ pc' = "pages" => stage' = "finalize"
  BY <1>1, <1>2, ProceedTo DEF FinalizeStage, End, Stay
<1> QED BY <1>1, <1>2, <1>3 DEF Staged, Late

\* In each stage of main(), what the stages before it have done is still done.
THEOREM StagedInvariant == BootSpec => []Staged
<1>1. ASSUME Staged, [BootNext]_bootVars PROVE Staged'
  <2>1. CASE InitHeapStage
    BY <1>1, <2>1, ProceedTo
    DEF InitHeapStage, InitHeap, End, fileVars, relocVars, mainVars, Staged, Late
  <2>2. CASE Checks
    BY <1>1, <2>2, ProceedTo
    DEF Checks, End, imageVars, fileVars, relocVars, mainVars, Staged, Late
  <2>3. CASE InstallHook
    <3>1. stage = "hooks" /\ stage' \in {"hooks", "fatal"}
      BY <2>3 DEF InstallHook, End
    <3>2. UNCHANGED <<pc, so_base, listed, rpc>>
      BY <2>3 DEF InstallHook, imageVars, fileVars, relocVars
    <3> QED BY <1>1, <3>1, <3>2 DEF Staged, Late
  <2>4. CASE FindVisibility \/ FindEntryPoint
    <3>1. stage \in {"hooks", "entries"} /\ stage' \in {stage, "fatal"}
      BY <2>4 DEF FindVisibility, FindEntryPoint, Find, End
    <3>2. UNCHANGED <<pc, so_base, listed, rpc, flushed>>
      BY <2>4 DEF FindVisibility, FindEntryPoint, imageVars, fileVars, relocVars
    <3> QED BY <1>1, <3>1, <3>2 DEF Staged, Late
  <2>5. CASE EndLookups
    BY <1>1, <2>5, ProceedTo
    DEF EndLookups, imageVars, fileVars, relocVars, mainVars, Staged, Late
  <2>6. CASE Flush
    BY <1>1, <2>6, ProceedTo
    DEF Flush, imageVars, fileVars, relocVars, Staged, Late
  <2>7. CASE SetTls
    BY <1>1, <2>7, ProceedTo
    DEF SetTls, imageVars, fileVars, relocVars, mainVars, Staged, Late
  <2>8. CASE Initialise
    <3>1. stage = "init" /\ stage' \in {"init", "exited", "free"}
      BY <2>8, ProceedTo DEF Initialise, End
    <3>2. UNCHANGED <<pc, so_base, listed, rpc, flushed>>
      BY <2>8 DEF Initialise, imageVars, fileVars, relocVars, mainVars
    <3> QED BY <1>1, <3>1, <3>2 DEF Staged, Late
  <2>9. CASE FreeTemp
    BY <1>1, <2>9, ProceedTo DEF FreeTemp, relocVars, mainVars, Staged, Late
  <2>10. CASE UNCHANGED <<stage, mainVars, imageVars, relocVars>>
    BY <1>1, <2>10 DEF mainVars, imageVars, fileVars, relocVars, Staged, Late
  <2> QED BY <1>1, <2>1, <2>2, <2>3, <2>4, <2>5, <2>6, <2>7, <2>8, <2>9, <2>10,
             LoadStaged, RelocateStaged, FinalizeStaged
          DEF BootNext, SessionStage, GameCreates, GameThread, bootVars
<1> QED BY <1>1, StagedInit, PTL DEF BootSpec

\* main() reads the relocations, symbols and headers while they are there, and runs
\* initialisers where the image is mapped, for every file.
THEOREM ReadsCorrect == BootSpec => []ReadsMapped
<1>1. Staged => ReadsMapped
  BY DEF Staged, Late, ReadsMapped
<1> QED BY <1>1, StagedInvariant, PTL

-----------------------------------------------------------------------------
(***************************************************************************)
(* The threads of the game.                                                *)
(***************************************************************************)
LEMMA RecordsInit == BootInit => Records
BY GameThreadsAssumption DEF BootInit, ThreadInit, Records, ThreadTypeOK, OwnTls, Blocks

\* Neither the creator nor the new thread breaks the handover.
LEMMA ThreadRecords ==
  ASSUME Records, NEW t \in Thread, Allocate(t) \/ ThreadStep(t)
  PROVE  Records'
<1> USE DEF Records, ThreadTypeOK, OwnTls
<1>1. CASE Allocate(t)
  BY <1>1 DEF Allocate
<1>2. CASE Create(t)
  BY <1>2 DEF Create
<1>3. CASE Created(t)
  BY <1>3 DEF Created, Disposes, FreeRecord
<1>4. CASE TakeStart(t)
  BY <1>4 DEF TakeStart, FreeRecord
<1>5. CASE Install(t)
  BY <1>5 DEF Install, BlockOf
<1>6. CASE Leave(t)
  BY <1>6 DEF Leave
<1> QED BY <1>1, <1>2, <1>3, <1>4, <1>5, <1>6 DEF ThreadStep

\* However creators and threads interleave, a ThreadStart is where Records says.
THEOREM RecordsInvariant == BootSpec => []Records
<1>1. ASSUME Records, [BootNext]_bootVars PROVE Records'
  <2>1. CASE SetTls
    BY <1>1, <2>1, GameThreadsAssumption DEF SetTls, Records, ThreadTypeOK, OwnTls
  <2>2. CASE \E t \in Thread : GameCreates(t) \/ GameThread(t)
    BY <1>1, <2>2, ThreadRecords DEF GameCreates, GameThread
  <2>3. CASE UNCHANGED threadVars
    BY <1>1, <2>3 DEF threadVars, Records, ThreadTypeOK, OwnTls
  <2> QED BY <1>1, <2>1, <2>2, <2>3
          DEF BootNext, bootVars, InitHeapStage, Checks, LoadStage, RelocateStage,
              FindVisibility, InstallHook, FindEntryPoint, EndLookups, FinalizeStage,
              Flush, Initialise, FreeTemp, SessionStage
<1> QED BY <1>1, RecordsInit, PTL DEF BootSpec

\* For any number of threads and any order of creators and threads.
THEOREM ThreadsCorrect == BootSpec => []ThreadsSound
<1>1. Records => ThreadsSound
  BY DEF Records, ThreadTypeOK, ThreadsSound, StartRecordSafe
<1> QED BY <1>1, RecordsInvariant, PTL

-----------------------------------------------------------------------------
(***************************************************************************)
(* What the game's code needs is there before it runs.                     *)
(***************************************************************************)
Running == {"init", "free", "session", "exited"}

\* In the beginning there are no threads.
LEMMA ArmedInit == BootInit => Armed
BY DEF BootInit, ThreadInit, Armed

\* main() arms itself right before its first initialiser, and then stays armed.
LEMMA MainArmed ==
  ASSUME Armed, Records, UNCHANGED caller,
         stage \in Running => stage' \in Running /\ UNCHANGED tls,
         stage \notin Running /\ stage' \in Running => tls'[MainThread] = MainThread
  PROVE  Armed'
BY DEF Armed, Running

\* No thread is created, and no stage is entered that runs code of the game, before
\* main() has its TLS block.
THEOREM ArmedInvariant == BootSpec => []Armed
<1>1. ASSUME Armed, Records, [BootNext]_bootVars PROVE Armed'
  <2>1. CASE SetTls
    BY <1>1, <2>1, ProceedTo DEF SetTls, Armed, Records, ThreadTypeOK
  <2>2. CASE InitHeapStage \/ Checks
    BY <1>1, <2>2, ProceedTo, MainArmed
    DEF InitHeapStage, Checks, End, threadVars, Running
  <2>3. CASE LoadStage
    <3>1. stage = "load" /\ stage' \in {"load", "relocate", "fatal"}
      BY <2>3, ProceedTo DEF LoadStage, End, Stay
    <3> QED BY <1>1, <2>3, <3>1, MainArmed DEF LoadStage, threadVars, Running
  <2>4. CASE RelocateStage
    <3>1. stage = "relocate" /\ stage' \in {"relocate", "hooks", "fatal"}
      BY <2>4, ProceedTo DEF RelocateStage, End, Stay
    <3> QED BY <1>1, <2>4, <3>1, MainArmed DEF RelocateStage, threadVars, Running
  <2>5. CASE FinalizeStage
    <3>1. stage = "finalize" /\ stage' \in {"finalize", "flush", "fatal"}
      BY <2>5, ProceedTo DEF FinalizeStage, End, Stay
    <3> QED BY <1>1, <2>5, <3>1, MainArmed DEF FinalizeStage, threadVars, Running
  <2>6. CASE FindVisibility \/ InstallHook \/ FindEntryPoint
    <3>1. stage \in {"hooks", "entries"} /\ stage' \in {stage, "fatal"}
      BY <2>6 DEF FindVisibility, InstallHook, FindEntryPoint, Find, End
    <3> QED BY <1>1, <2>6, <3>1, MainArmed
            DEF FindVisibility, InstallHook, FindEntryPoint, threadVars, Running
  <2>7. CASE EndLookups \/ Flush
    <3>1. stage \in {"hooks", "entries", "flush"} /\ stage' \in {"entries", "finalize", "tls"}
      BY <2>7, ProceedTo DEF EndLookups, Flush
    <3> QED BY <1>1, <2>7, <3>1, MainArmed DEF EndLookups, Flush, threadVars, Running
  <2>8. CASE Initialise \/ FreeTemp
    <3>1. stage \in Running /\ stage' \in Running
      BY <2>8, ProceedTo DEF Initialise, FreeTemp, End, Running
    <3> QED BY <1>1, <2>8, <3>1, MainArmed DEF Initialise, FreeTemp, threadVars
  <2>9. CASE SessionStage \/ UNCHANGED bootVars
    BY <1>1, <2>9, MainArmed DEF SessionStage, bootVars, threadVars, Running, Armed
  <2>10. ASSUME NEW t \in Thread, GameCreates(t) \/ GameThread(t) PROVE Armed'
    <3>1. stage \in Running /\ UNCHANGED stage
      BY <1>1, <2>10
      DEF GameCreates, GameThread, GameRunning, MainInGame, ThreadStep, Create, Created,
          TakeStart, Install, Leave, Armed, Records, ThreadTypeOK, Running
    <3>2. tls'[MainThread] = tls[MainThread]
      BY <1>1, <2>10, GameThreadsAssumption
      DEF GameCreates, GameThread, ThreadStep, Allocate, Create, Created, TakeStart, Install,
          Leave, Records, ThreadTypeOK
    <3> QED BY <1>1, <3>1, <3>2 DEF Armed, Running
  <2> QED BY <1>1, <2>1, <2>2, <2>3, <2>4, <2>5, <2>6, <2>7, <2>8, <2>9, <2>10 DEF BootNext
<1> QED BY <1>1, ArmedInit, RecordsInvariant, PTL DEF BootSpec

\* The game's code is relocated, executable, flushed, known to the unwinder and has
\* its TLS whenever it runs, for any binary and any number of threads.
THEOREM CodeCorrect == BootSpec => []GameCodeReady
<1>1. Staged /\ Records /\ Armed => GameCodeReady
  <2> SUFFICES ASSUME Staged, Records, Armed, GameRunning
               PROVE  /\ rpc = "done" /\ pc = "ready" /\ flushed /\ listed
                      /\ tls[MainThread] = MainThread
    BY DEF GameCodeReady
  <2>1. stage \in Running
    BY DEF GameRunning, MainInGame, Armed, Records, Running
  <2> QED BY <2>1 DEF Staged, Late, Armed, Running
<1> QED BY <1>1, StagedInvariant, RecordsInvariant, ArmedInvariant, PTL

-----------------------------------------------------------------------------
(***************************************************************************)
(* The session.                                                            *)
(***************************************************************************)
LEMMA OwnedInit == BootInit => Owned
BY DEF BootInit, S!Init, Owned

\* main() creates, uses and takes down the contexts in this order.
LEMMA MainOwned == ASSUME Owned, S!Main PROVE Owned'
<1> USE DEF Owned, S!alVars, S!gameVars
<1>1. CASE S!InitOpenAL
  BY <1>1 DEF S!InitOpenAL, S!Abandoned, S!Activates
<1>2. CASE S!EglInit
  BY <1>2 DEF S!EglInit
<1>3. CASE S!MusicInit
  BY <1>3 DEF S!MusicInit
<1>4. CASE S!EndLoop
  BY <1>4 DEF S!EndLoop
<1>5. CASE S!MusicDeinit
  BY <1>5 DEF S!MusicDeinit
<1>6. CASE S!ShutdownAudio
  BY <1>6 DEF S!ShutdownAudio, S!Shuts
<1>7. CASE S!EglDeinit
  BY <1>7 DEF S!EglDeinit
<1>8. CASE S!DestroyContext
  BY <1>8 DEF S!DestroyContext, S!Free
<1>9. CASE S!CloseDevice
  BY <1>9 DEF S!CloseDevice, S!Free, S!Kept
<1>10. CASE S!Exit
  BY <1>10 DEF S!Exit, S!Launched
<1> QED BY <1>1, <1>2, <1>3, <1>4, <1>5, <1>6, <1>7, <1>8, <1>9, <1>10 DEF S!Main

\* The hooks give the game only what the wrapper has, and free nothing of it.
LEMMA GameOwned == ASSUME Owned, S!Game PROVE Owned'
<1> USE DEF Owned, S!alVars, S!gameVars, S!Launched
<1>1. CASE S!GameOpens
  BY <1>1 DEF S!GameOpens, S!OpenDevice, S!CreateContext
<1>2. CASE S!GameMakesCurrent
  BY <1>2 DEF S!GameMakesCurrent
<1>3. CASE S!GameStartsAudio
  BY <1>3 DEF S!GameStartsAudio
<1>4. CASE S!GameFrees
  BY <1>4 DEF S!GameFrees, S!Shared, S!Free
<1> QED BY <1>1, <1>2, <1>3, <1>4 DEF S!Game

\* The wrapper, EGL and the game hold of OpenAL what Owned says, in each state of the
\* session.
THEOREM OwnedInvariant == BootSpec => []Owned
<1>1. ASSUME Owned, [BootNext]_bootVars PROVE Owned'
  <2>1. CASE SessionStage
    BY <1>1, <2>1, MainOwned, GameOwned DEF SessionStage, S!Next
  <2>2. CASE UNCHANGED sessionVars
    BY <1>1, <2>2 DEF sessionVars, Owned
  <2> QED BY <1>1, <2>1, <2>2
          DEF BootNext, bootVars, InitHeapStage, Checks, LoadStage, RelocateStage,
              FindVisibility, InstallHook, FindEntryPoint, EndLookups, FinalizeStage,
              Flush, SetTls, Initialise, FreeTemp, GameCreates, GameThread
<1> QED BY <1>1, OwnedInit, PTL DEF BootSpec

\* Nothing of OpenAL is freed twice, whatever the game and its destructors do.
THEOREM NoDoubleFreeCorrect == BootSpec => []NoDoubleFree
<1>1. Owned => NoDoubleFree
  BY DEF Owned, NoDoubleFree, S!NoDoubleFree
<1> QED BY <1>1, OwnedInvariant, PTL

\* What the game shares with the wrapper is there for as long as it is needed.
THEOREM SharedKeptCorrect == BootSpec => []SharedKept
<1>1. Owned => SharedKept
  BY DEF Owned, SharedKept, S!SharedKept
<1> QED BY <1>1, OwnedInvariant, PTL

\* No source is left when the context goes.
THEOREM SourcesReleasedCorrect == BootSpec => []SourcesReleased
<1>1. Owned => SourcesReleased
  BY DEF Owned, SourcesReleased, S!SourcesReleased
<1> QED BY <1>1, OwnedInvariant, PTL

-----------------------------------------------------------------------------
(***************************************************************************)
(* The size of the image.                                                  *)
(***************************************************************************)
\* A set of naturals has a least element.
LEMMA Least ==
  ASSUME NEW T \in SUBSET Nat, T # {}
  PROVE  \E m \in T : \A n \in T : m <= n
<1> DEFINE Less == {ss \in Nat \X Nat : ss[1] < ss[2]}
<1>1. IsWellFoundedOn(Less, Nat)
  BY NatLessThanWellFounded DEF OpToRel
<1>2. PICK m \in T : \A n \in T : ~ (<<n, m>> \in Less)
  <2> HIDE DEF Less
  <2> QED BY <1>1, WFMin
<1>3. ASSUME NEW n \in T PROVE m <= n
  <2>1. <<n, m>> \in Nat \X Nat /\ ~ (<<n, m>> \in Less)
    BY <1>2
  <2>2. ~ (n < m)
    BY <2>1
  <2> QED BY <2>2
<1> QED BY <1>3

\* A segment begins and ends at addresses.
LEMMA HeaderNat ==
  ASSUME phdr \in Headers, NEW i \in Loads
  PROVE  EndOf(i) \in Nat /\ phdr[i].vaddr \in Nat /\ i \in Nat
<1>1. phdr \in Seq(Header) /\ i \in 1 .. Len(phdr)
  BY SoImageAssumption DEF Loads
<1>2. phdr[i] \in Header
  BY <1>1
<1> QED BY <1>1, <1>2 DEF EndOf, Header

\* Some address is above all segments.
LEMMA Bounded ==
  ASSUME phdr \in Headers
  PROVE  \E e \in Nat : \A i \in Loads : EndOf(i) <= e
<1> DEFINE Upto(n) == \E e \in Nat : \A i \in Loads : i <= n => EndOf(i) <= e
           T == {n \in Nat : ~Upto(n)}
<1>1. T = {}
  <2>1. SUFFICES ASSUME T # {} PROVE FALSE
    OBVIOUS
  <2>2. PICK m \in T : \A n \in T : m <= n
    <3> HIDE DEF T
    <3>1. T \in SUBSET Nat
      BY DEF T
    <3> QED BY <2>1, <3>1, Least
  <2>3. m # 0
    <3>1. \A i \in Loads : ~(i <= 0)
      BY HeaderNat DEF Loads
    <3> QED BY <3>1
  <2>4. m - 1 \in Nat /\ Upto(m - 1)
    BY <2>2, <2>3
  <2>5. PICK e \in Nat : \A i \in Loads : i <= m - 1 => EndOf(i) <= e
    BY <2>4
  <2>6. CASE m \in Loads
    <3>1. ASSUME NEW i \in Loads, i <= m PROVE EndOf(i) <= e + EndOf(m)
      <4>1. EndOf(i) \in Nat /\ EndOf(m) \in Nat /\ i \in Nat /\ m \in Nat
        BY <2>6, HeaderNat
      <4>2. i = m \/ i <= m - 1
        BY <3>1, <4>1
      <4> QED BY <2>5, <3>1, <4>1, <4>2
    <3>2. e + EndOf(m) \in Nat
      BY <2>6, HeaderNat
    <3> QED BY <3>1, <3>2
  <2>7. CASE m \notin Loads
    <3>1. \A i \in Loads : i <= m => EndOf(i) <= e
      BY <2>2, <2>5, <2>7, HeaderNat
    <3> QED BY <3>1
  <2> QED BY <2>6, <2>7
<1>2. Len(phdr) \in Nat
  BY SoImageAssumption
<1>3. PICK e \in Nat : \A i \in Loads : i <= Len(phdr) => EndOf(i) <= e
  BY <1>1, <1>2
<1> QED BY <1>2, <1>3 DEF Loads

\* so_load() finds the end of the highest segment.
LEMMA ExtentNat ==
  ASSUME phdr \in Headers
  PROVE  Extent \in Nat /\ \A i \in Loads : EndOf(i) <= Extent
<1>1. CASE Loads = {}
  BY <1>1 DEF Extent
<1>2. CASE Loads # {}
  <2> DEFINE B == {e \in Nat : \A i \in Loads : EndOf(i) <= e}
  <2>1. PICK m \in B : \A n \in B : m <= n
    <3>1. B \in SUBSET Nat /\ B # {}
      BY Bounded
    <3> HIDE DEF B
    <3> QED BY <3>1, Least
  <2>2. \E i \in Loads : EndOf(i) = m
    <3>1. SUFFICES ASSUME \A i \in Loads : EndOf(i) # m PROVE FALSE
      OBVIOUS
    <3>2. \A i \in Loads : EndOf(i) <= m - 1
      BY <2>1, <3>1, HeaderNat
    <3>3. m - 1 \in B
      BY <1>2, <2>1, <3>2, HeaderNat
    <3> QED BY <2>1, <3>3
  <2>3. \E e \in {EndOf(i) : i \in Loads} : \A i \in Loads : EndOf(i) <= e
    BY <2>1, <2>2
  <2> QED BY <1>2, <2>3, HeaderNat DEF Extent
<1> QED BY <1>1, <1>2

-----------------------------------------------------------------------------
(***************************************************************************)
(* Rounding.                                                               *)
(***************************************************************************)
\* Page p is at or above the page of a, or a is beyond p.
LEMMA PageOf ==
  ASSUME NEW a \in Nat, NEW p \in Nat
  PROVE  /\ a \div PageSize \in Nat
         /\ a \div PageSize <= p <=> a < (p + 1) * PageSize
<1> DEFINE q == a \div PageSize
<1>1. q \in Int /\ q * PageSize <= a /\ a < (q + 1) * PageSize
  BY SoImageAssumption
<1>2. q \in Nat
  <2>1. SUFFICES ASSUME q <= -1 PROVE FALSE
    BY <1>1
  <2> HIDE DEF q
  <2>2. (q + 1) * PageSize <= 0
    BY <1>1, <2>1, SoImageAssumption
  <2>3. (q + 1) * PageSize \in Int
    BY <1>1, SoImageAssumption
  <2> QED BY <1>1, <2>2, <2>3
<1> HIDE DEF q
<1>3. ASSUME q <= p PROVE a < (p + 1) * PageSize
  <2>1. (q + 1) * PageSize <= (p + 1) * PageSize
    BY <1>1, <1>3, SoImageAssumption
  <2>2. (q + 1) * PageSize \in Int /\ (p + 1) * PageSize \in Int
    BY <1>1, SoImageAssumption
  <2> QED BY <1>1, <2>1, <2>2
<1>4. ASSUME q >= p + 1 PROVE ~(a < (p + 1) * PageSize)
  <2>1. q * PageSize >= (p + 1) * PageSize
    BY <1>1, <1>4, SoImageAssumption
  <2>2. q * PageSize \in Int /\ (p + 1) * PageSize \in Int
    BY <1>1, SoImageAssumption
  <2> QED BY <1>1, <2>1, <2>2
<1>5. q <= p \/ q >= p + 1
  BY <1>2
<1> QED BY <1>2, <1>3, <1>4, <1>5 DEF q

\* Rounded up, a is a whole number of pages, the last of which begins below a.
LEMMA AlignPages ==
  ASSUME NEW a \in Nat, NEW p \in Nat
  PROVE  /\ Align(a) \in Nat /\ a <= Align(a)
         /\ p <= (Align(a) \div PageSize) - 1 <=> a > p * PageSize
         /\ Align(a) = (Align(a) \div PageSize) * PageSize
<1> DEFINE b == a + PageSize - 1
           q == b \div PageSize
<1>0. b \in Nat
  BY SoImageAssumption
<1>1. q \in Nat /\ (q <= p <=> b < (p + 1) * PageSize)
  <2> HIDE DEF b
  <2> QED BY <1>0, PageOf
<1>2. (q * PageSize) \div PageSize = q
  <2> HIDE DEF q
  <2>1. q * PageSize \in Nat
    BY <1>1, SoImageAssumption
  <2>2. q * PageSize < (q + 1) * PageSize /\ (q - 1) + 1 = q
    BY <1>1, SoImageAssumption
  <2> DEFINE r == (q * PageSize) \div PageSize
  <2>3. r \in Nat /\ r <= q
    BY <1>1, <2>1, <2>2, PageOf
  <2>4. ASSUME q # 0 PROVE ~(r <= q - 1)
    <3>1. q - 1 \in Nat /\ ~(q * PageSize < ((q - 1) + 1) * PageSize)
      BY <1>1, <2>1, <2>2, <2>4
    <3> QED BY <2>1, <3>1, PageOf
  <2> HIDE DEF r
  <2>5. r = q
    BY <1>1, <2>3, <2>4
  <2> QED BY <2>5 DEF r
<1>3. b < (p + 1) * PageSize <=> ~(a > p * PageSize)
  <2>1. (p + 1) * PageSize = p * PageSize + PageSize /\ p * PageSize \in Nat
    BY SoImageAssumption
  <2> QED BY <2>1, SoImageAssumption
<1>4. Align(a) = q * PageSize
  BY DEF Align
<1>5. q * PageSize \in Nat /\ a <= q * PageSize
  <2>1. b < (q + 1) * PageSize
    BY <1>0, SoImageAssumption
  <2>2. (q + 1) * PageSize = q * PageSize + PageSize /\ q * PageSize \in Nat
    <3> HIDE DEF q
    <3> QED BY <1>1, SoImageAssumption
  <2>3. b = a + PageSize - 1
    OBVIOUS
  <2> HIDE DEF q, b
  <2> QED BY <2>1, <2>2, <2>3, SoImageAssumption
<1> HIDE DEF q, b
<1> QED BY <1>1, <1>2, <1>3, <1>4, <1>5

-----------------------------------------------------------------------------
(***************************************************************************)
(* The permissions of the pages.                                           *)
(***************************************************************************)
\* Page p has code.
HasCode(p) ==
  \E i \in Loads : /\ phdr[i].x
                  /\ phdr[i].vaddr < (p + 1) * PageSize
                  /\ EndOf(i) > p * PageSize

\* Each pass has set the pages of its kind before pg.
Passed(p) ==
  IF is_x_page[p] THEN IF want_x /\ p >= pg THEN "mapped" ELSE "rx"
                  ELSE IF want_x \/ p >= pg THEN "mapped" ELSE "rw"

Paged ==
  /\ phdr \in Headers
  /\ pc \in {"heap", "open", "check", "copy", "loaded"} => perm = <<>>
  /\ pc \in {"copy", "loaded", "pages", "ready"} => load_size \in Nat
  /\ pc \in {"pages", "ready"} =>
       /\ DOMAIN perm = Page /\ is_x_page \in [Page -> BOOLEAN]
       /\ \A p \in Page : is_x_page[p] <=> HasCode(p)
  /\ pc = "pages" =>
       /\ pg \in Nat /\ want_x \in BOOLEAN
       /\ \A p \in Page : perm[p] = Passed(p)
  /\ pc = "ready" => \A p \in Page : perm[p] = IF is_x_page[p] THEN "rx" ELSE "rw"

\* The image has a whole number of pages.
LEMMA PagesAreNat ==
  ASSUME load_size \in Nat
  PROVE  NumPages \in Nat /\ Page \subseteq Nat
<1>1. NumPages \in Nat
  <2>1. 0 \in Nat
    OBVIOUS
  <2> QED BY <2>1, PageOf DEF NumPages
<1> QED BY <1>1 DEF Page

\* so_finalize() marks the pages that have code: those from the one that a segment
\* begins in to the one that it ends in.
LEMMA MapPaged ==
  ASSUME Paged, Map
  PROVE  Paged'
<1>1. /\ pc = "loaded" /\ pc' = "pages" /\ want_x' = TRUE /\ pg' = 0
      /\ UNCHANGED <<phdr, load_size>>
  BY DEF Map, fileVars, zoneVars
<1>2. load_size \in Nat /\ Page \subseteq Nat /\ Page' = Page /\ phdr \in Headers
  BY <1>1, PagesAreNat DEF Paged, Page, NumPages
<1>3. perm' = [p \in Page |-> "mapped"] /\ is_x_page' \in [Page -> BOOLEAN]
  BY DEF Map
<1>4. ASSUME NEW p \in Page PROVE is_x_page'[p] <=> HasCode(p)
  <2>1. ASSUME NEW i \in Loads
        PROVE  p \in (phdr[i].vaddr \div PageSize) .. LastPage(i) <=>
                 phdr[i].vaddr < (p + 1) * PageSize /\ EndOf(i) > p * PageSize
    <3>1. p \in Nat /\ phdr[i].vaddr \in Nat /\ EndOf(i) \in Nat
      BY <1>2, <2>1, HeaderNat
    <3>2. /\ phdr[i].vaddr \div PageSize \in Nat
          /\ phdr[i].vaddr \div PageSize <= p <=> phdr[i].vaddr < (p + 1) * PageSize
      BY <3>1, PageOf
    <3>3. /\ p <= LastPage(i) <=> EndOf(i) > p * PageSize
          /\ LastPage(i) \in Int
      <4>1. Align(EndOf(i)) \in Nat
        BY <3>1, AlignPages
      <4>2. Align(EndOf(i)) \div PageSize \in Nat
        BY <3>1, <4>1, PageOf
      <4> QED BY <3>1, <4>2, AlignPages DEF LastPage
    <3> QED BY <3>1, <3>2, <3>3
  <2> QED BY <2>1 DEF Map, HasCode
<1>5. \A p \in Page : HasCode(p)' <=> HasCode(p)
  BY <1>1 DEF HasCode, Loads, EndOf
<1>6. \A p \in Page : perm'[p] = Passed(p)'
  BY <1>1, <1>2, <1>3 DEF Passed
<1> QED BY <1>1, <1>2, <1>3, <1>4, <1>5, <1>6 DEF Paged

\* A run is the pages from p to the one before the next that a pass comes to.
LEMMA RunUpTo ==
  ASSUME load_size \in Nat, pg \in Page
  PROVE  \E n \in Nat : /\ n = pg + Cardinality(RunOf(pg))
                        /\ \A q \in Page : q \in RunOf(pg) <=> q >= pg /\ q < n
<1>1. NumPages \in Nat /\ Page \subseteq Nat /\ pg \in Nat
  BY PagesAreNat
<1>2. IsFiniteSet(RunOf(pg)) /\ RunOf(pg) \subseteq Page
  <2>1. IsFiniteSet(0 .. NumPages - 1)
    BY <1>1, FS_Interval
  <2> QED BY <2>1, FS_Subset DEF RunOf, Page
<1> DEFINE c == Cardinality(RunOf(pg))
<1>3. c \in Nat
  BY <1>2, FS_CardinalityType
<1>4. ASSUME NEW q \in RunOf(pg) PROVE q >= pg /\ q < pg + c
  <2>1. q \in Nat /\ q >= pg /\ pg .. q \subseteq RunOf(pg)
    BY <1>1 DEF RunOf, Page
  <2>2. Cardinality(pg .. q) = q - pg + 1
    BY <1>1, <2>1, FS_Interval
  <2>3. Cardinality(pg .. q) <= c
    BY <1>2, <2>1, FS_Subset
  <2> HIDE DEF c
  <2> QED BY <1>1, <1>3, <2>1, <2>2, <2>3
<1>5. ASSUME NEW q \in Page, q >= pg, q \notin RunOf(pg) PROVE q >= pg + c
  <2>1. PICK r \in pg .. q : ~(is_x_page[r] = want_x)
    BY <1>5 DEF RunOf
  <2>2. RunOf(pg) \subseteq pg .. r - 1
    <3> SUFFICES ASSUME NEW s \in RunOf(pg) PROVE s \in pg .. r - 1
      OBVIOUS
    <3>1. s \in Nat /\ s >= pg /\ \A t \in pg .. s : is_x_page[t] = want_x
      BY <1>1 DEF RunOf
    <3>2. r \notin pg .. s
      BY <2>1, <3>1
    <3> QED BY <1>1, <2>1, <3>1, <3>2
  <2>3. IsFiniteSet(pg .. r - 1) /\ Cardinality(pg .. r - 1) = r - pg
    <3>1. r \in Int /\ r >= pg /\ q \in Int
      BY <1>1, <2>1
    <3>2. r - 1 \in Int /\ pg \in Int
      BY <1>1, <3>1
    <3>3. IsFiniteSet(pg .. r - 1)
          /\ Cardinality(pg .. r - 1) = IF pg > r - 1 THEN 0 ELSE (r - 1) - pg + 1
      BY <3>2, FS_Interval
    <3> QED BY <1>1, <3>1, <3>3
  <2>4. c <= r - pg
    BY <2>2, <2>3, FS_Subset
  <2> HIDE DEF c
  <2> QED BY <1>1, <1>3, <2>1, <2>4
<1> HIDE DEF c
<1>6. pg + c \in Nat
  BY <1>1, <1>3
<1>7. \A q \in Page : q \in RunOf(pg) <=> q >= pg /\ q < pg + c
  BY <1>1, <1>3, <1>4, <1>5
<1> QED BY <1>6, <1>7 DEF c

\* A run of pages gets its permission, which none of them had.
LEMMA PermissionPaged ==
  ASSUME Paged, SetPermission
  PROVE  Paged' /\ \A p \in DOMAIN perm : perm'[p] # perm[p] => perm[p] = "mapped"
<1>1. /\ pc = "pages" /\ pc' = pc /\ pg \in Page /\ is_x_page[pg] = want_x
      /\ UNCHANGED <<phdr, load_size, is_x_page, want_x>>
      /\ pg' = pg + Cardinality(RunOf(pg))
  BY DEF SetPermission, fileVars, zoneVars
<1>2. load_size \in Nat /\ Page \subseteq Nat /\ Page' = Page /\ DOMAIN perm' = Page
  BY <1>1, PagesAreNat DEF Paged, Page, NumPages, SetPermission
<1>3. pg' \in Nat /\ \A q \in Page : q \in RunOf(pg) <=> q >= pg /\ q < pg'
  BY <1>1, <1>2, RunUpTo
<1>4. \A q \in RunOf(pg) : q \in Page /\ is_x_page[q] = want_x
  BY <1>1, <1>2 DEF RunOf
<1>9. pg < pg'
  <2>1. pg \in RunOf(pg)
    BY <1>1, <1>2 DEF RunOf
  <2> QED BY <1>1, <1>3, <2>1
<1>5. ASSUME NEW p \in Page
      PROVE  /\ perm'[p] = Passed(p)'
             /\ perm'[p] # perm[p] => perm[p] = "mapped"
  <2>1. perm'[p] = IF p \in RunOf(pg) THEN IF want_x THEN "rx" ELSE "rw" ELSE perm[p]
    BY <1>5 DEF SetPermission
  <2>2. perm[p] = Passed(p) /\ pg \in Nat /\ want_x \in BOOLEAN /\ is_x_page[p] \in BOOLEAN
    BY <1>1, <1>5 DEF Paged
  <2>3. CASE p \in RunOf(pg)
    BY <1>1, <1>2, <1>3, <1>4, <2>1, <2>2, <2>3 DEF Passed
  <2>4. CASE p \notin RunOf(pg) /\ p < pg
    <3>1. p < pg' /\ ~(p >= pg) /\ ~(p >= pg')
      BY <1>2, <1>3, <1>9, <2>2, <2>4
    <3> QED BY <1>1, <2>1, <2>2, <2>4, <3>1 DEF Passed
  <2>5. CASE p \notin RunOf(pg) /\ p >= pg
    <3>1. p >= pg'
      BY <1>2, <1>3, <2>5
    <3>2. Passed(p)' = Passed(p)
      BY <1>1, <2>5, <3>1 DEF Passed
    <3> QED BY <2>1, <2>2, <2>5, <3>2
  <2> QED BY <1>2, <2>2, <2>3, <2>4, <2>5
<1>6. \A p \in Page : HasCode(p)' <=> HasCode(p)
  BY <1>1 DEF HasCode, Loads, EndOf
<1>7. Paged'
  BY <1>1, <1>2, <1>3, <1>5, <1>6 DEF Paged
<1>8. \A p \in DOMAIN perm : perm'[p] # perm[p] => perm[p] = "mapped"
  BY <1>1, <1>5 DEF Paged
<1> QED BY <1>7, <1>8

\* The rest of so_finalize().
LEMMA PassPaged ==
  ASSUME Paged, SkipPage \/ EndPass
  PROVE  Paged' /\ UNCHANGED perm
<1>1. /\ pc = "pages" /\ UNCHANGED <<phdr, load_size, is_x_page, perm>>
      /\ pc' \in {"pages", "ready"}
  BY DEF SkipPage, EndPass, fileVars, zoneVars
<1>2. load_size \in Nat /\ Page \subseteq Nat /\ Page' = Page /\ pg \in Nat
  BY <1>1, PagesAreNat DEF Paged, Page, NumPages
<1>3. \A p \in Page : HasCode(p)' <=> HasCode(p)
  BY <1>1 DEF HasCode, Loads, EndOf
<1>4. \A p \in Page : perm[p] = Passed(p) /\ p \in Nat /\ is_x_page[p] \in BOOLEAN
  BY <1>1, <1>2 DEF Paged
<1>5. want_x \in BOOLEAN
  BY <1>1 DEF Paged
<1>6. CASE SkipPage
  <2>1. /\ pg \in Page /\ is_x_page[pg] # want_x /\ pg' = pg + 1
        /\ UNCHANGED <<pc, want_x>>
    BY <1>6 DEF SkipPage
  <2>2. ASSUME NEW p \in Page PROVE Passed(p)' = Passed(p)
    BY <1>1, <1>2, <1>4, <1>5, <2>1 DEF Passed
  <2> QED BY <1>1, <1>2, <1>3, <1>4, <1>5, <2>1, <2>2 DEF Paged
<1>7. CASE EndPass
  <2>1. pg \notin Page
    BY <1>7 DEF EndPass
  <2>2. \A p \in Page : ~(p >= pg)
    <3>1. NumPages \in Nat
      BY <1>2, PagesAreNat
    <3>2. pg >= NumPages
      BY <1>2, <2>1, <3>1 DEF Page
    <3> QED BY <1>2, <3>1, <3>2 DEF Page
  <2>3. CASE want_x
    <3>1. want_x' = FALSE /\ pg' = 0 /\ pc' = pc
      BY <1>7, <2>3 DEF EndPass
    <3>2. \A p \in Page : Passed(p)' = Passed(p)
      BY <1>1, <1>4, <2>2, <2>3, <3>1 DEF Passed
    <3> QED BY <1>1, <1>2, <1>3, <1>4, <3>1, <3>2 DEF Paged
  <2>4. CASE ~want_x
    <3>1. pc' = "ready"
      BY <1>7, <2>4 DEF EndPass
    <3>2. \A p \in Page : perm[p] = IF is_x_page[p] THEN "rx" ELSE "rw"
      BY <1>4, <2>2, <2>4 DEF Passed
    <3> QED BY <1>1, <1>2, <1>3, <3>1, <3>2 DEF Paged
  <2> QED BY <1>5, <2>3, <2>4
<1> QED BY <1>1, <1>6, <1>7

\* Until the image is mapped there are no permissions.
LEMMA LoadPaged ==
  ASSUME Paged, InitHeap \/ Load \/ Fatal
  PROVE  Paged' /\ UNCHANGED perm
<1>1. /\ UNCHANGED <<phdr, pageVars>>
      /\ pc \notin {"ready", "failed"} /\ pc' \notin {"pages", "ready"}
  BY DEF InitHeap, Load, Open, OpenFails, CheckFails, ZoneFaults, Reserve, CopySegment,
         NoSymbols, Register, Fail, Fatal, fileVars
<1>2. pc' \in {"copy", "loaded"} => load_size' \in Nat
  <2>1. Extent \in Nat /\ Align(Extent) \in Nat
    BY ExtentNat, AlignPages DEF Paged
  <2> QED BY <2>1 DEF Paged, InitHeap, Load, Open, OpenFails, CheckFails, ZoneFaults, Reserve,
                      CopySegment, NoSymbols, Register, Fail, Fatal, zoneVars
<1>3. pc' \in {"heap", "open", "check", "copy", "loaded"} =>
        pc \in {"heap", "open", "check", "copy", "loaded"}
  BY DEF InitHeap, Load, Open, OpenFails, CheckFails, ZoneFaults, Reserve, CopySegment,
         NoSymbols, Register, Fail, Fatal
<1> QED BY <1>1, <1>2, <1>3 DEF Paged, pageVars

\* Whatever stage main() is in, it sets the permission of a page once.
LEMMA StepPaged ==
  ASSUME Paged, [BootNext]_bootVars
  PROVE  Paged' /\ \A p \in DOMAIN perm : perm'[p] # perm[p] => perm[p] = "mapped"
<1>1. CASE InitHeap \/ Load \/ Fatal
  BY <1>1, LoadPaged
<1>2. CASE Map
  <2>1. perm = <<>>
    BY <1>2 DEF Map, Paged
  <2> QED BY <1>2, <2>1, MapPaged
<1>3. CASE SkipPage \/ EndPass
  BY <1>3, PassPaged
<1>4. CASE SetPermission
  BY <1>4, PermissionPaged
<1>5. CASE UNCHANGED <<pc, phdr, load_size, pageVars>>
  <2>1. Paged'
    BY <1>5 DEF Paged, pageVars, Page, NumPages, HasCode, Loads, EndOf, Passed
  <2> QED BY <1>5, <2>1 DEF pageVars
<1> QED BY <1>1, <1>2, <1>3, <1>4, <1>5
        DEF BootNext, bootVars, imageVars, fileVars, zoneVars, InitHeapStage, Checks,
            LoadStage, RelocateStage, FindVisibility, InstallHook, FindEntryPoint, EndLookups,
            FinalizeStage, Finalize, Flush, SetTls, Initialise, FreeTemp, SessionStage,
            GameCreates, GameThread

\* The program begins with nothing mapped.
LEMMA PagedInit == BootInit => Paged
BY BootAssumption DEF BootInit, InitWith, Paged

\* After each step of so_finalize() the pages that a pass has come to are set, and no
\* others.
THEOREM PagedInvariant == BootSpec => []Paged
<1>1. Paged /\ [BootNext]_bootVars => Paged'
  BY StepPaged
<1> QED BY <1>1, PagedInit, PTL DEF BootSpec

\* The kernel is never asked to make a page executable that was writable, or to change
\* a permission back, for any file.
THEOREM PermissionsCorrect == BootSpec => SetOnce
<1>1. Paged /\ [BootNext]_bootVars =>
        [\A p \in DOMAIN perm : perm'[p] # perm[p] => perm[p] = "mapped"]_vars
  BY StepPaged
<1> QED BY <1>1, PagedInvariant, PTL DEF BootSpec, SetOnce

-----------------------------------------------------------------------------
(***************************************************************************)
(* The zone that the image is copied to.                                   *)
(***************************************************************************)
\* The copy of what the file has of the segments so far.
Copied(a) ==
  /\ \A i \in Loads : i < next /\ InFile(i, a) => zone[a] = <<i, a - phdr[i].vaddr>>
  /\ zone[a] # Zero => \E i \in Loads : InFile(i, a)
  /\ (\A i \in Loads : ~InFile(i, a)) => zone[a] = Zero

\* What __libnx_initheap() leaves.
Split ==
  /\ newlibEnd = heap.addr + Newlib
  /\ base = Align(newlibEnd)
  /\ limit = (HeapEnd - base) % Word

Zoned ==
  /\ phdr \in Headers /\ heap \in Heaps
  /\ pc \in {"heap", "open", "check"} => ~load_memrv
  /\ pc \in {"open", "check", "copy", "loaded", "pages", "ready"} \/ load_memrv => Split
  /\ load_memrv => pc # "heap" /\ load_size \in Nat /\ load_size <= limit
  /\ pc \in {"copy", "loaded", "pages", "ready"} =>
       /\ DOMAIN zone = 0 .. load_size - 1 /\ load_size \in Nat
       /\ \A i \in Loads : EndOf(i) <= load_size
       /\ next \in Nat \ {0} /\ \A a \in DOMAIN zone : Copied(a)
  /\ pc \in {"loaded", "pages", "ready"} => \A i \in Loads : i < next

\* A multiple of PageSize is a number of pages.
LEMMA PagesOf ==
  ASSUME NEW a \in Nat, a % PageSize = 0
  PROVE  \E m \in Nat : a = m * PageSize
<1> DEFINE m == a \div PageSize
<1>1. m \in Nat
  BY PageOf
<1>2. a = PageSize * m
  BY SoImageAssumption, SMTT(30)
<1> HIDE DEF m
<1>3. a = m * PageSize
  BY <1>1, <1>2, SoImageAssumption
<1> QED BY <1>1, <1>3

\* Rounding up does not go beyond the end of a page.
LEMMA AlignLeast ==
  ASSUME NEW a \in Nat, NEW m \in Nat, a <= m * PageSize
  PROVE  Align(a) <= m * PageSize
<1> DEFINE b == a + PageSize - 1
           q == b \div PageSize
<1>1. b \in Nat /\ PageSize \in Nat \ {0} /\ m * PageSize \in Nat
  BY SoImageAssumption
<1>2. (m + 1) * PageSize = m * PageSize + PageSize
  BY <1>1
<1>3. b < (m + 1) * PageSize
  BY <1>1, <1>2
<1> HIDE DEF b
<1>4. q \in Nat /\ q <= m
  BY <1>1, <1>3, PageOf
<1> HIDE DEF q
<1>5. q * PageSize <= m * PageSize
  BY <1>1, <1>4
<1> QED BY <1>5 DEF Align, b, q

\* What the kernel is asked for is a number of whole pages.
LEMMA AskedPages ==
  ASSUME NEW f \in Int
  PROVE  \E m \in Nat : AskedSize(f) = m * PageSize
<1>1. CASE WholeGrains(f) = 0
  BY <1>1, PagesOf, SoImageAssumption DEF AskedSize
<1>2. CASE WholeGrains(f) # 0
  <2> DEFINE n == (f - Grain) \div Grain
  <2>1. f > Grain /\ AskedSize(f) = n * Grain
    BY <1>2 DEF WholeGrains, AskedSize
  <2>2. PICK g \in Nat : Grain = g * PageSize
    BY PagesOf, SoImageAssumption
  <2>3. n \in Nat
    <3> DEFINE d == f - Grain
    <3>1. d \in Nat /\ Grain \in Nat \ {0}
      BY <2>1, SoImageAssumption
    <3> HIDE DEF d
    <3>2. d \div Grain \in Nat
      BY <3>1, SMTT(30)
    <3> QED BY <3>2 DEF d
  <2> HIDE DEF n
  <2>4. n * (g * PageSize) = (n * g) * PageSize /\ n * g \in Nat
    BY <2>3, SoImageAssumption
  <2> QED BY <2>1, <2>2, <2>4
<1> QED BY <1>1, <1>2

\* A heap from the kernel ends where a page does.
LEMMA KernelHeap ==
  ASSUME heap \in Heaps, ~heap.override
  PROVE  \E m \in Nat : HeapEnd = m * PageSize
<1>1. heap.addr \in Nat /\ heap.addr % PageSize = 0 /\ heap.free \in Int
  BY SoImageAssumption DEF Heap
<1>2. PICK j \in Nat : heap.addr = j * PageSize
  BY <1>1, PagesOf
<1>3. PICK k \in Nat : AskedSize(heap.free) = k * PageSize
  BY <1>1, AskedPages
<1>4. HeapEnd = j * PageSize + k * PageSize
  BY <1>2, <1>3 DEF HeapEnd, SizeOf
<1>5. j * PageSize + k * PageSize = (j + k) * PageSize /\ j + k \in Nat
  BY SoImageAssumption
<1> QED BY <1>4, <1>5

\* What is left above b, as a size_t.
LEMMA Rest ==
  ASSUME NEW w \in Nat \ {0}, NEW h \in Nat, h < w, NEW b \in Nat
  PROVE  /\ (h - b) % w \in 0 .. w - 1
         /\ b <= h => b + ((h - b) % w) = h
<1> DEFINE d == h - b
<1>1. d \in Int /\ d % w \in 0 .. w - 1
  OBVIOUS
<1>2. ASSUME b <= h PROVE b + (d % w) = h
  <2>1. d \in Nat /\ d < w /\ b + d = h
    BY <1>2
  <2> HIDE DEF d
  <2>2. d % w = d
    BY <2>1
  <2> QED BY <2>1, <2>2
<1> QED BY <1>1, <1>2

\* The place for the image is above newlib's part; and it ends with the heap, if that
\* is from the kernel or ends above the beginning of the place.
LEMMA SplitFits ==
  ASSUME heap \in Heaps,
         NEW e, e = heap.addr + Newlib, NEW b, b = Align(e)
  PROVE  /\ e \in Nat /\ b \in Nat /\ HeapEnd \in Nat
         /\ e <= b /\ (HeapEnd - b) % Word \in 0 .. Word - 1
         /\ ~heap.override => b <= HeapEnd
         /\ b <= HeapEnd => b + ((HeapEnd - b) % Word) = HeapEnd
<1>1. /\ heap.addr \in Nat /\ Word \in Nat \ {0} /\ PageSize \in Nat \ {0}
      /\ heap.addr + SizeOf(heap) + PageSize < Word
  BY SoImageAssumption DEF Heap
<1>2. SizeOf(heap) \in Nat
  <2>1. heap.size \in Nat /\ heap.free \in Int
    BY SoImageAssumption DEF Heap
  <2>2. AskedSize(heap.free) \in Nat
    <3>1. PICK m \in Nat : AskedSize(heap.free) = m * PageSize
      BY <2>1, AskedPages
    <3> QED BY <1>1, <3>1
  <2> QED BY <2>1, <2>2 DEF SizeOf
<1>3. Newlib \in Nat /\ Newlib <= SizeOf(heap)
  BY <1>2, SoImageAssumption DEF Newlib
<1>4. e \in Nat /\ HeapEnd \in Nat /\ e <= HeapEnd /\ HeapEnd < Word
  BY <1>1, <1>2, <1>3 DEF HeapEnd
<1>5. b \in Nat /\ e <= b
  BY <1>4, AlignPages
<1>6. ~heap.override => b <= HeapEnd
  <2>1. SUFFICES ASSUME ~heap.override PROVE b <= HeapEnd
    OBVIOUS
  <2>2. PICK m \in Nat : HeapEnd = m * PageSize
    BY <2>1, KernelHeap
  <2> QED BY <1>4, <2>2, AlignLeast
<1>7. /\ (HeapEnd - b) % Word \in 0 .. Word - 1
      /\ b <= HeapEnd => b + ((HeapEnd - b) % Word) = HeapEnd
  BY <1>1, <1>4, <1>5, Rest
<1> QED BY <1>4, <1>5, <1>6, <1>7

\* An address is in one segment at most, and in it if the file has it.
LEMMA SegmentsApart ==
  ASSUME phdr \in Headers, NEW i \in Loads, NEW a \in Nat
  PROVE  /\ phdr[i].vaddr \in Nat /\ phdr[i].filesz \in Nat /\ phdr[i].memsz \in Nat
         /\ InFile(i, a) => a >= phdr[i].vaddr /\ a < EndOf(i)
         /\ \A j \in Loads : a >= phdr[i].vaddr /\ a < EndOf(i) /\ InFile(j, a) => j = i
<1>1. \A k \in Loads : k \in 1 .. Len(phdr) /\ phdr[k] \in Header /\ phdr[k].load
  BY SoImageAssumption DEF Loads
<1>2. \A k \in Loads : /\ phdr[k].vaddr \in Nat /\ phdr[k].filesz \in Nat
                       /\ phdr[k].memsz \in Nat /\ phdr[k].filesz <= phdr[k].memsz
  BY <1>1, SoImageAssumption DEF Header
<1>3. \A k \in Loads : InFile(k, a) => a >= phdr[k].vaddr /\ a < EndOf(k)
  BY <1>2 DEF InFile, EndOf
<1>4. ASSUME NEW j \in Loads, a >= phdr[i].vaddr, a < EndOf(i), InFile(j, a) PROVE j = i
  <2>1. Len(phdr) \in Nat
    BY SoImageAssumption
  <2>2. j # i => j \in 1 .. i - 1 \/ i \in 1 .. j - 1
    BY <1>1, <2>1
  <2>3. j # i => Disjoint(phdr[i], phdr[j]) \/ Disjoint(phdr[j], phdr[i])
    BY <1>1, <2>2, SoImageAssumption
  <2> QED BY <1>2, <1>3, <1>4, <2>3 DEF Disjoint, EndOf
<1> QED BY <1>2, <1>3, <1>4

\* so_load() reserves no more than there is, and enough for all segments.
LEMMA ReserveZoned == ASSUME Zoned, Reserve PROVE Zoned'
<1>1. /\ pc = "check" /\ pc' = "copy" /\ ~TooLarge /\ next' = 1
      /\ load_size' = Align(Extent)
      /\ zone' = [a \in 0 .. Align(Extent) - 1 |-> Zero]
      /\ UNCHANGED <<heap, newlibEnd, base, limit, phdr>>
  BY DEF Reserve, heapVars
<1>2. phdr \in Headers /\ heap \in Heaps /\ Split
  BY <1>1 DEF Zoned
<1>3. Extent \in Nat /\ Align(Extent) \in Nat /\ Extent <= Align(Extent)
      /\ \A i \in Loads : EndOf(i) <= Extent /\ EndOf(i) \in Nat
  BY <1>2, ExtentNat, HeaderNat, AlignPages
<1>4. load_size' <= limit' /\ Split'
  <2>1. limit \in 0 .. Word - 1 /\ Word \in Nat
    BY <1>2, SplitFits, SoImageAssumption DEF Split
  <2> QED BY <1>1, <1>2, <1>3, <2>1 DEF TooLarge, Split, Newlib, HeapEnd
<1>5. \A i \in Loads : EndOf(i)' <= load_size'
  BY <1>1, <1>3 DEF EndOf
<1>6. \A a \in DOMAIN zone' : Copied(a)'
  BY <1>1, <1>2, HeaderNat DEF Copied, Loads
<1> QED BY <1>1, <1>2, <1>3, <1>4, <1>5, <1>6 DEF Zoned, Loads

\* A segment is copied and overwrites no other.
LEMMA CopyZoned == ASSUME Zoned, CopySegment PROVE Zoned'
<1>1. /\ pc = "copy" /\ pc' = pc /\ next <= Len(phdr) /\ next' = next + 1
      /\ next \in Nat \ {0} /\ Len(phdr) \in Nat
      /\ DOMAIN zone' = DOMAIN zone /\ DOMAIN zone = 0 .. load_size - 1
      /\ phdr \in Headers
      /\ UNCHANGED <<heapVars, phdr, load_memrv, load_size>>
  BY SoImageAssumption DEF CopySegment, Zoned, heapVars, fileVars
<1>2. ASSUME NEW a \in DOMAIN zone PROVE Copied(a)'
  <2>1. Copied(a) /\ a \in Nat
    BY <1>1, <1>2 DEF Zoned
  <2>2. Loads' = Loads /\ \A i \in Loads : i \in Nat /\ (InFile(i, a)' <=> InFile(i, a))
    BY <1>1, HeaderNat DEF Loads, InFile
  <2>3. CASE next \in Loads /\ InFile(next, a)
    <3>1. zone'[a] = <<next, a - phdr[next].vaddr>>
      BY <1>2, <2>3 DEF CopySegment, Loads
    <3>2. \A i \in Loads : InFile(i, a) => i = next
      BY <1>1, <2>1, <2>3, SegmentsApart
    <3> QED BY <1>1, <2>2, <2>3, <3>1, <3>2 DEF Copied
  <2>4. CASE ~(next \in Loads /\ InFile(next, a))
    <3>1. zone'[a] = zone[a]
      BY <1>1, <1>2, <2>4 DEF CopySegment, Loads
    <3>2. \A i \in Loads : i < next + 1 /\ InFile(i, a) => i < next
      BY <1>1, <2>2, <2>4
    <3> QED BY <1>1, <2>1, <2>2, <3>1, <3>2 DEF Copied
  <2> QED BY <2>3, <2>4
<1> QED BY <1>1, <1>2 DEF Zoned, Split, Newlib, HeapEnd, heapVars, Loads, EndOf

\* What newlib does not get is for the image.
LEMMA InitHeapZoned == ASSUME Zoned, InitHeap PROVE Zoned'
<1>1. /\ pc = "heap" /\ heap' = heap /\ phdr' = phdr /\ load_memrv' = load_memrv
      /\ \/ pc' = "open" /\ Split'
         \/ pc' = "failed"
  BY DEF InitHeap, fileVars, Split, Newlib, HeapEnd
<1>2. heap \in Heaps /\ phdr \in Headers /\ ~load_memrv
  BY <1>1 DEF Zoned
<1> QED BY <1>1, <1>2 DEF Zoned

\* What neither reserves nor fills the zone.
LEMMA OtherZoned ==
  ASSUME Zoned, \/ Open \/ OpenFails \/ CheckFails \/ ZoneFaults
                \/ NoSymbols \/ Register \/ Finalize
  PROVE  Zoned'
<1> USE DEF Split, Newlib, HeapEnd
<1>1. CASE Open
  BY <1>1 DEF Open, Zoned, heapVars, zoneVars
<1>2. CASE OpenFails \/ CheckFails \/ NoSymbols
  BY <1>2 DEF OpenFails, CheckFails, NoSymbols, Fail, Undo, Zoned, heapVars
<1>3. CASE Register
  <2>1. /\ pc = "copy" /\ pc' = "loaded" /\ next > Len(phdr)
        /\ UNCHANGED <<heapVars, phdr, load_memrv, zoneVars>>
    BY <1>3 DEF Register
  <2>2. \A i \in Loads : i < next
    <3>1. phdr \in Headers /\ next \in Nat
      BY <2>1 DEF Zoned
    <3> QED BY <2>1, <3>1, SoImageAssumption DEF Loads
  <2> QED BY <2>1, <2>2 DEF Zoned, heapVars, zoneVars, Loads, EndOf, Copied, InFile
<1>4. CASE Finalize
  <2>1. /\ pc \in {"loaded", "pages"} /\ pc' \in {"pages", "ready", "failed"}
        /\ UNCHANGED <<heapVars, fileVars, zoneVars>>
    BY <1>4 DEF Finalize, Map, SkipPage, SetPermission, EndPass, Fatal
  <2> QED BY <2>1 DEF Zoned, heapVars, fileVars, zoneVars, Loads, EndOf, Copied, InFile
<1>5. CASE ZoneFaults
  <2>1. /\ pc = "check" /\ pc' = "failed"
        /\ UNCHANGED <<heapVars, phdr, load_memrv>>
    BY <1>5 DEF ZoneFaults, fileVars
  <2> QED BY <2>1 DEF Zoned, heapVars
<1> QED BY <1>1, <1>2, <1>3, <1>4, <1>5

\* At any time the zone has the segments that were copied, and is where the heap was split.
THEOREM ZonedInvariant == BootSpec => []Zoned
<1>1. BootInit => Zoned
  BY BootAssumption DEF BootInit, InitWith, Zoned
<1>2. ASSUME Zoned, [BootNext]_bootVars PROVE Zoned'
  <2>1. CASE UNCHANGED <<heapVars, pc, phdr, load_memrv, zoneVars>>
    BY <1>2, <2>1 DEF Zoned, Split, Newlib, HeapEnd, heapVars, zoneVars, Loads, EndOf, Copied,
                      InFile
  <2> QED BY <1>2, <2>1, InitHeapZoned, ReserveZoned, CopyZoned, OtherZoned
          DEF BootNext, bootVars, imageVars, fileVars, InitHeapStage, Checks, LoadStage, Load,
              RelocateStage, FindVisibility, InstallHook, FindEntryPoint, EndLookups,
              FinalizeStage, Flush, SetTls, Initialise, FreeTemp, SessionStage, GameCreates,
              GameThread
<1> QED BY <1>1, <1>2, PTL DEF BootSpec

\* When all segments are copied, the zone is what the headers describe.
LEMMA ZonedSound == Zoned => ZoneSound
<1> SUFFICES ASSUME Zoned PROVE ZoneSound
  OBVIOUS
<1>1. ZoneFits
  <2>1. SUFFICES ASSUME load_memrv
                 PROVE  /\ newlibEnd <= base
                        /\ ~heap.override => base + load_size <= HeapEnd
                        /\ base <= HeapEnd => base + load_size <= HeapEnd
    BY DEF ZoneFits, ZoneInHeap
  <2>2. heap \in Heaps /\ Split /\ load_size \in Nat /\ load_size <= limit
    BY <2>1 DEF Zoned
  <2>3. /\ newlibEnd <= base /\ base \in Nat /\ HeapEnd \in Nat
        /\ limit \in 0 .. Word - 1 /\ Word \in Nat
    BY <2>2, SplitFits, SoImageAssumption DEF Split
  <2>4. ~heap.override => base <= HeapEnd
    BY <2>2, SplitFits DEF Split
  <2>5. base <= HeapEnd => base + limit = HeapEnd
    <3>1. limit = (HeapEnd - base) % Word
      BY <2>2 DEF Split
    <3>2. base <= HeapEnd => base + ((HeapEnd - base) % Word) = HeapEnd
      BY <2>2, SplitFits DEF Split
    <3> QED BY <2>3, <3>1, <3>2
  <2>6. base <= HeapEnd => base + load_size <= HeapEnd
    BY <2>2, <2>3, <2>5
  <2> QED BY <2>3, <2>4, <2>6
<1>2. ASSUME pc \in {"loaded", "pages", "ready"}, NEW i \in Loads,
             NEW o \in 0 .. phdr[i].memsz - 1
      PROVE  /\ phdr[i].vaddr + o \in DOMAIN zone
             /\ zone[phdr[i].vaddr + o] = IF o < phdr[i].filesz THEN <<i, o>> ELSE Zero
  <2>1. /\ phdr \in Headers /\ load_size \in Nat /\ DOMAIN zone = 0 .. load_size - 1
        /\ EndOf(i) <= load_size /\ i < next /\ \A a \in DOMAIN zone : Copied(a)
    BY <1>2 DEF Zoned
  <2> DEFINE a == phdr[i].vaddr + o
  <2>2. /\ phdr[i].vaddr \in Nat /\ phdr[i].filesz \in Nat /\ phdr[i].memsz \in Nat
        /\ EndOf(i) = phdr[i].vaddr + phdr[i].memsz
    <3>1. 0 \in Nat
      OBVIOUS
    <3> QED BY <2>1, <3>1, SegmentsApart DEF EndOf
  <2>3. a \in Nat /\ a >= phdr[i].vaddr /\ a < EndOf(i) /\ a - phdr[i].vaddr = o
    BY <2>2
  <2>4. a \in DOMAIN zone
    <3> HIDE DEF a
    <3> QED BY <2>1, <2>2, <2>3
  <2>5. InFile(i, a) <=> o < phdr[i].filesz
    BY <2>2 DEF InFile
  <2>6. \A j \in Loads : InFile(j, a) => j = i
    <3> HIDE DEF a
    <3> QED BY <2>1, <2>3, SegmentsApart
  <2> HIDE DEF a
  <2>7. zone[a] = IF o < phdr[i].filesz THEN <<i, o>> ELSE Zero
    BY <2>1, <2>3, <2>4, <2>5, <2>6 DEF Copied
  <2> QED BY <2>4, <2>7 DEF a
<1>3. ASSUME pc \in {"loaded", "pages", "ready"}, NEW a \in DOMAIN zone, zone[a] # Zero
      PROVE  \E i \in Loads : a \in phdr[i].vaddr .. EndOf(i) - 1
  <2>1. phdr \in Headers /\ load_size \in Nat /\ DOMAIN zone = 0 .. load_size - 1 /\ Copied(a)
    BY <1>3 DEF Zoned
  <2>2. PICK i \in Loads : InFile(i, a)
    BY <1>3, <2>1 DEF Copied
  <2>3. a \in Nat /\ phdr[i].vaddr \in Nat /\ EndOf(i) \in Nat
        /\ a >= phdr[i].vaddr /\ a < EndOf(i)
    BY <2>1, <2>2, SegmentsApart, HeaderNat
  <2> QED BY <2>3
<1> QED BY <1>1, <1>2, <1>3 DEF ZoneSound, ZoneComplete

\* Every binary whose segments do not overlap is in memory as its headers say, with
\* the permissions that they say: inside the heap and apart from newlib's part, for every
\* heap that the kernel gives, and for one from the environment, of any size and at any
\* address, in which the place that is left for the image does not begin beyond its end.
THEOREM ImageCorrect == BootSpec => []ImageSound
<1>1. Paged /\ Zoned => ImageSound
  BY ZonedSound DEF Paged, PagesReady, HasCode, ImageSound
<1> QED BY <1>1, PagedInvariant, ZonedInvariant, PTL

-----------------------------------------------------------------------------
(***************************************************************************)
(* The hooks and the entry points.                                         *)
(***************************************************************************)
\* what there is from the end of the hooks on
AfterHooks == {"entries", "finalize"} \cup Late

\* Whether the hook of Hooked[j] is installed, whether the function that shows and
\* hides touch controls was looked up, and whether EntryPoints[k] was.
HookDone(j)    == stage \in AfterHooks \/ (stage = "hooks" /\ j + 1 < step)
VisibilityDone == stage \in AfterHooks \/ (stage = "hooks" /\ step > 1)
EntryDone(k)   == stage \in AfterHooks \ {"entries"} \/ (stage = "entries" /\ k < step)

\* The code of h before it is hooked and after.
Plain(h) == [target |-> Function(h), trampoline |-> <<>>]
Patched(h) ==
  [target     |-> Branch(Replacement(h)) \o SubSeq(Function(h), 5, 6),
   trampoline |-> SubSeq(Function(h), 1, 4) \o Branch(Continues(h))]

\* The pointer for f is what it is named for.
Right(f) ==
  \/ entry[f] = Null /\ f \in Optional
  \/ entry[f] = At("rx", IF f \in ElementsOf(Hooked) THEN Trampoline[f] ELSE exports[f])

Hooking ==
  /\ DOMAIN code = ElementsOf(Hooked) /\ DOMAIN entry = Looked
  /\ stage \in {"hooks", "entries"} => step \in Nat \ {0}
  /\ stage # "fatal" =>
       /\ \A j \in 1 .. Len(Hooked) :
            code[Hooked[j]] = IF HookDone(j) THEN Patched(Hooked[j]) ELSE Plain(Hooked[j])
       /\ \A j \in 1 .. Len(Hooked) : HookDone(j) => Right(Hooked[j])
       /\ VisibilityDone => Right(Visibility)
       /\ \A k \in 1 .. Len(EntryPoints) : EntryDone(k) => Right(EntryPoints[k])

\* What is known of the names of functions.
LEMMA NamesApart ==
  /\ Len(Hooked) \in Nat /\ Len(EntryPoints) \in Nat
  /\ \A j \in 1 .. Len(Hooked) : Hooked[j] \in ElementsOf(Hooked)
  /\ \A h \in ElementsOf(Hooked) : \E j \in 1 .. Len(Hooked) : h = Hooked[j]
  /\ \A j, k \in 1 .. Len(Hooked) : Hooked[j] = Hooked[k] => j = k
  /\ \A k \in 1 .. Len(EntryPoints) :
       EntryPoints[k] \in Looked /\ EntryPoints[k] \notin ElementsOf(Hooked)
  /\ Visibility \in Looked /\ Visibility \notin ElementsOf(Hooked)
  /\ ElementsOf(Hooked) \subseteq Looked
  /\ Optional \cap ElementsOf(Hooked) = {}
<1>1. Hooked \in Seq(ElementsOf(Hooked)) /\ EntryPoints \in Seq(ElementsOf(EntryPoints))
  BY BootAssumption
<1>2. Len(Hooked) \in Nat /\ Len(EntryPoints) \in Nat
  BY <1>1
<1>3. /\ \A j \in 1 .. Len(Hooked) : Hooked[j] \in ElementsOf(Hooked)
      /\ \A h \in ElementsOf(Hooked) : \E j \in 1 .. Len(Hooked) : h = Hooked[j]
      /\ \A k \in 1 .. Len(EntryPoints) : EntryPoints[k] \in ElementsOf(EntryPoints)
  BY DEF ElementsOf
<1> QED BY <1>2, <1>3, BootAssumption DEF Looked

\* What neither patches nor looks up, and goes on as main() does, leaves it as it is.
LEMMA HookingKept ==
  ASSUME Hooking, UNCHANGED <<exports, entry, code>>,
         \/ stage' = stage /\ step' = step
         \/ stage' = "fatal"
         \/ /\ stage \notin {"hooks", "fatal"} \cup AfterHooks
            /\ stage' \notin AfterHooks /\ (stage' = "hooks" => step' = 1)
         \/ stage \in AfterHooks \ {"entries"} /\ stage' \in AfterHooks \ {"entries"}
  PROVE  Hooking'
<1>1. /\ DOMAIN code' = ElementsOf(Hooked) /\ DOMAIN entry' = Looked
      /\ stage' \in {"hooks", "entries"} => step' \in Nat \ {0}
  BY DEF Hooking, AfterHooks, Late
<1>2. CASE stage' = "fatal"
  BY <1>1, <1>2 DEF Hooking
<1>3. CASE stage' # "fatal"
  <2>1. /\ \A j \in 1 .. Len(Hooked) : HookDone(j)' <=> HookDone(j)
        /\ VisibilityDone' <=> VisibilityDone
        /\ \A k \in 1 .. Len(EntryPoints) : EntryDone(k)' <=> EntryDone(k)
        /\ stage # "fatal"
    <3>1. CASE stage' = stage /\ step' = step
      BY <1>3, <3>1 DEF HookDone, VisibilityDone, EntryDone
    <3>2. CASE /\ stage \notin {"hooks", "fatal"} \cup AfterHooks
               /\ stage' \notin AfterHooks /\ (stage' = "hooks" => step' = 1)
      BY <3>2 DEF HookDone, VisibilityDone, EntryDone, AfterHooks, Late
    <3>3. CASE stage \in AfterHooks \ {"entries"} /\ stage' \in AfterHooks \ {"entries"}
      BY <3>3 DEF HookDone, VisibilityDone, EntryDone, AfterHooks, Late
    <3> QED BY <1>3, <3>1, <3>2, <3>3
  <2>2. \A f : Right(f)' <=> Right(f)
    BY DEF Right
  <2> QED BY <1>1, <1>3, <2>1, <2>2 DEF Hooking
<1> QED BY <1>2, <1>3

\* A function that was looked up, and no other, gets its pointer.
LEMMA FindRight ==
  ASSUME Hooking, NEW f \in Looked, f \notin ElementsOf(Hooked), Find(f),
         UNCHANGED <<exports, code>>, stage \in {"hooks", "entries"}
  PROVE  \/ stage' = "fatal" /\ DOMAIN entry' = Looked /\ code' = code
         \/ /\ stage' = stage /\ step' = step + 1 /\ DOMAIN entry' = Looked
            /\ Right(f)' /\ \A g \in Looked : Right(g) => Right(g)'
<1>1. CASE ~Found(f) /\ f \notin Optional /\ End("fatal") /\ UNCHANGED entry
  BY <1>1 DEF Hooking, End
<1>2. CASE /\ Found(f) \/ f \in Optional
           /\ entry' = [entry EXCEPT ![f] = IF Found(f) THEN At("rx", exports[f]) ELSE Null]
           /\ stage' = stage /\ step' = step + 1
  <2>1. /\ DOMAIN entry' = Looked
        /\ entry'[f] = IF Found(f) THEN At("rx", exports[f]) ELSE Null
        /\ \A g \in Looked : g # f => entry'[g] = entry[g]
    BY <1>2 DEF Hooking
  <2>2. Right(f)'
    BY <1>2, <2>1 DEF Right
  <2>3. \A g \in Looked : Right(g) => Right(g)'
    BY <2>1, <2>2 DEF Right
  <2> QED BY <1>2, <2>1, <2>2, <2>3
<1> QED BY <1>1, <1>2 DEF Find

\* The function that shows and hides touch controls is looked up first.
LEMMA VisibilityHooking ==
  ASSUME Hooking, FindVisibility
  PROVE  Hooking'
<1>1. stage = "hooks" /\ step = 1 /\ Find(Visibility) /\ UNCHANGED <<exports, code>>
  BY DEF FindVisibility, gameVars
<1>2. \/ stage' = "fatal" /\ DOMAIN entry' = Looked
      \/ /\ stage' = "hooks" /\ step' = 2 /\ DOMAIN entry' = Looked /\ Right(Visibility)'
  BY <1>1, NamesApart, FindRight
<1>3. \A j \in 1 .. Len(Hooked) : ~HookDone(j) /\ (stage' = "hooks" => ~HookDone(j)')
  BY <1>1, <1>2 DEF HookDone, AfterHooks, Late
<1>4. stage' = "hooks" => \A k \in 1 .. Len(EntryPoints) : ~EntryDone(k)'
  BY <1>1, <1>2 DEF EntryDone, AfterHooks, Late
<1> QED BY <1>1, <1>2, <1>3, <1>4 DEF Hooking

\* A hook is installed: the prologue goes to the trampoline before it is patched.
LEMMA InstallHooking ==
  ASSUME Hooking, InstallHook
  PROVE  Hooking'
<1>1. stage = "hooks" /\ step \in 2 .. Len(Hooked) + 1 /\ UNCHANGED exports
  BY DEF InstallHook, gameVars
<1>0. PICK i \in 1 .. Len(Hooked) : i = step - 1
  BY <1>1, NamesApart
<1> DEFINE h == Hooked[i]
<1>2. /\ i \in 1 .. Len(Hooked) /\ h \in ElementsOf(Hooked) /\ step = i + 1 /\ step \in Nat
      /\ \A j \in 1 .. Len(Hooked) : j # i => Hooked[j] # h /\ Hooked[j] \in ElementsOf(Hooked)
  BY <1>0, <1>1, NamesApart
<1>3. CASE End("fatal") /\ UNCHANGED mainVars
  BY <1>3 DEF Hooking, End, mainVars
<1>4. CASE /\ code' = [code EXCEPT ![h] =
                [target     |-> Branch(Replacement(h)) \o SubSeq(@.target, 5, 6),
                 trampoline |-> Prologue(h) \o Branch(Continues(h))]]
           /\ entry' = [entry EXCEPT ![h] = At("rx", Trampoline[h])]
           /\ stage' = stage /\ step' = step + 1
  <2>1. code[h] = Plain(h)
    BY <1>1, <1>2 DEF Hooking, HookDone, AfterHooks, Late
  <2>2. code[h].target = Function(h)
    BY <2>1 DEF Plain
  <2>3. /\ code'[h] = Patched(h) /\ DOMAIN code' = ElementsOf(Hooked)
        /\ \A g \in ElementsOf(Hooked) : g # h => code'[g] = code[g]
    <3> HIDE DEF h
    <3> QED BY <1>2, <1>4, <2>2 DEF Hooking, Patched, Prologue
  <2>4. /\ entry'[h] = At("rx", Trampoline[h]) /\ DOMAIN entry' = Looked
        /\ \A g \in Looked : g # h => entry'[g] = entry[g]
    <3> HIDE DEF h
    <3> QED BY <1>2, <1>4, NamesApart DEF Hooking
  <2>5. Right(h)'
    BY <1>2, <2>4 DEF Right
  <2>6. \A g \in Looked : g # h => (Right(g) => Right(g)')
    BY <1>1, <2>4 DEF Right
  <2>7. /\ \A j \in 1 .. Len(Hooked) : HookDone(j)' <=> j = i \/ HookDone(j)
        /\ VisibilityDone /\ \A k \in 1 .. Len(EntryPoints) : ~EntryDone(k)'
        /\ stage' = "hooks" /\ step' \in Nat \ {0}
    <3> HIDE DEF h
    <3> QED BY <1>1, <1>2, <1>4, NamesApart
         DEF HookDone, VisibilityDone, EntryDone, AfterHooks, Late
  <2>8. Right(Visibility)'
    BY <1>1, <1>2, <2>6, <2>7, NamesApart DEF Hooking
  <2>9. ASSUME NEW j \in 1 .. Len(Hooked)
        PROVE  /\ code'[Hooked[j]] = IF HookDone(j)' THEN Patched(Hooked[j]) ELSE Plain(Hooked[j])
               /\ HookDone(j)' => Right(Hooked[j])'
    <3>1. CASE j = i
      BY <2>3, <2>5, <2>7, <3>1
    <3>2. CASE j # i
      <4>1. Hooked[j] # h /\ Hooked[j] \in ElementsOf(Hooked) /\ Hooked[j] \in Looked
        BY <1>2, <3>2, NamesApart
      <4>2. HookDone(j)' <=> HookDone(j)
        BY <2>7, <3>2
      <4>3. code'[Hooked[j]] = code[Hooked[j]] /\ (Right(Hooked[j]) => Right(Hooked[j])')
        BY <2>3, <2>6, <4>1
      <4> QED BY <1>1, <4>2, <4>3 DEF Hooking
    <3> QED BY <3>1, <3>2
  <2> HIDE DEF h
  <2> QED BY <2>3, <2>4, <2>7, <2>8, <2>9 DEF Hooking
<1> QED BY <1>0, <1>3, <1>4 DEF InstallHook

\* An entry point is looked up, and none that was before is lost.
LEMMA EntryHooking ==
  ASSUME Hooking, FindEntryPoint
  PROVE  Hooking'
<1>0. /\ stage = "entries" /\ step <= Len(EntryPoints) /\ UNCHANGED <<exports, code>>
      /\ step \in Nat \ {0}
  BY DEF FindEntryPoint, gameVars, Hooking
<1>1. PICK i \in 1 .. Len(EntryPoints) : i = step
  BY <1>0, NamesApart
<1> DEFINE f == EntryPoints[i]
<1>2. Find(f) /\ f \in Looked /\ f \notin ElementsOf(Hooked)
  BY <1>1, NamesApart DEF FindEntryPoint
<1>3. \/ stage' = "fatal" /\ DOMAIN entry' = Looked
      \/ /\ stage' = stage /\ step' = step + 1 /\ DOMAIN entry' = Looked
         /\ Right(f)' /\ \A g \in Looked : Right(g) => Right(g)'
  <2> HIDE DEF f
  <2> QED BY <1>0, <1>2, FindRight
<1>4. CASE stage' = "fatal"
  BY <1>0, <1>1, <1>3, <1>4 DEF Hooking
<1>5. CASE stage' # "fatal"
  <2>1. /\ \A j \in 1 .. Len(Hooked) : HookDone(j)' /\ HookDone(j)
        /\ VisibilityDone
    BY <1>0, <1>1, <1>3, <1>5 DEF HookDone, VisibilityDone, AfterHooks
  <2>2. \A k \in 1 .. Len(EntryPoints) : EntryDone(k)' => k = i \/ EntryDone(k)
    BY <1>0, <1>1, <1>3, <1>5 DEF EntryDone, AfterHooks, Late
  <2>3. ASSUME NEW j \in 1 .. Len(Hooked)
        PROVE  code'[Hooked[j]] = Patched(Hooked[j]) /\ Right(Hooked[j])'
    <3>1. Hooked[j] \in Looked
      BY NamesApart
    <3> QED BY <1>0, <1>1, <1>3, <1>5, <2>1, <3>1 DEF Hooking
  <2>4. Right(Visibility)'
    BY <1>0, <1>1, <1>3, <1>5, <2>1, NamesApart DEF Hooking
  <2>5. ASSUME NEW k \in 1 .. Len(EntryPoints), EntryDone(k)' PROVE Right(EntryPoints[k])'
    <3>1. EntryPoints[k] \in Looked
      BY NamesApart
    <3> QED BY <1>0, <1>1, <1>3, <1>5, <2>2, <2>5, <3>1 DEF Hooking
  <2> QED BY <1>0, <1>1, <1>3, <1>5, <2>1, <2>3, <2>4, <2>5 DEF Hooking
<1> QED BY <1>4, <1>5

\* When all were looked up, main() goes on.
LEMMA EndHooking ==
  ASSUME Hooking, EndLookups
  PROVE  Hooking'
<1>1. UNCHANGED <<exports, code, entry>> /\ step' = 1
  BY DEF EndLookups, gameVars, mainVars, Proceed
<1>2. \A f : Right(f)' <=> Right(f)
  BY <1>1 DEF Right
<1>3. CASE stage = "hooks"
  <2>1. step = Len(Hooked) + 2 /\ stage' = "entries"
    BY <1>3, ProceedTo DEF EndLookups
  <2>2. /\ \A j \in 1 .. Len(Hooked) : HookDone(j) /\ HookDone(j)'
        /\ VisibilityDone /\ \A k \in 1 .. Len(EntryPoints) : ~EntryDone(k)'
    BY <1>1, <1>3, <2>1, NamesApart DEF HookDone, VisibilityDone, EntryDone, AfterHooks, Late
  <2> QED BY <1>1, <1>2, <1>3, <2>1, <2>2 DEF Hooking
<1>4. CASE stage = "entries"
  <2>1. step = Len(EntryPoints) + 1 /\ stage' = "finalize"
    BY <1>4, ProceedTo DEF EndLookups
  <2>2. /\ \A j \in 1 .. Len(Hooked) : HookDone(j) /\ HookDone(j)'
        /\ VisibilityDone /\ \A k \in 1 .. Len(EntryPoints) : EntryDone(k)
    BY <1>1, <1>4, <2>1, NamesApart DEF HookDone, VisibilityDone, EntryDone, AfterHooks, Late
  <2> QED BY <1>1, <1>2, <1>4, <2>1, <2>2 DEF Hooking
<1> QED BY <1>3, <1>4 DEF EndLookups

\* The hooks are installed and the functions looked up in turn, and what was done stays.
THEOREM HookingInvariant == BootSpec => []Hooking
<1>1. BootInit => Hooking
  <2> SUFFICES ASSUME BootInit PROVE Hooking
    OBVIOUS
  <2>1. \A j \in 1 .. Len(Hooked) : code[Hooked[j]] = Plain(Hooked[j])
    BY NamesApart DEF BootInit, Plain
  <2> QED BY <2>1 DEF BootInit, Hooking, HookDone, VisibilityDone, EntryDone, AfterHooks, Late
<1>2. ASSUME Hooking, Staged, [BootNext]_bootVars PROVE Hooking'
  <2>1. CASE FindVisibility \/ InstallHook \/ FindEntryPoint \/ EndLookups
    BY <1>2, <2>1, VisibilityHooking, InstallHooking, EntryHooking, EndHooking
  <2>2. CASE InitHeapStage \/ Checks
    <3>1. /\ stage \in {"heap", "checks"} /\ stage' \in {"checks", "load", "fatal"}
          /\ UNCHANGED <<exports, entry, code>>
      BY <2>2, ProceedTo DEF InitHeapStage, Checks, End, gameVars, mainVars
    <3> QED BY <1>2, <3>1, HookingKept DEF AfterHooks, Late
  <2>3. CASE LoadStage \/ RelocateStage
    <3>1. /\ stage \in {"load", "relocate"} /\ stage' \in {"load", "relocate", "hooks", "fatal"}
          /\ stage' = "hooks" => step' = 1
          /\ UNCHANGED <<exports, entry, code>>
      <4>1. UNCHANGED <<exports, entry, code>> /\ stage \in {"load", "relocate"}
        BY <2>3 DEF LoadStage, RelocateStage, gameVars, mainVars
      <4>2. Proceed \/ End("fatal") \/ Stay
        BY <2>3 DEF LoadStage, RelocateStage
      <4> QED BY <4>1, <4>2, ProceedTo DEF Proceed, End, Stay
    <3> QED BY <1>2, <3>1, HookingKept DEF AfterHooks, Late
  <2>4. CASE FinalizeStage \/ Flush \/ SetTls \/ Initialise \/ FreeTemp
    <3>1. /\ stage \in AfterHooks \ {"entries"} /\ stage' \in (AfterHooks \ {"entries"}) \cup {"fatal"}
          /\ UNCHANGED <<exports, entry, code>>
      <4>1. /\ stage \in {"finalize", "flush", "tls", "init", "free"}
            /\ UNCHANGED <<exports, entry, code>>
        BY <2>4 DEF FinalizeStage, Flush, SetTls, Initialise, FreeTemp, gameVars, mainVars
      <4>2. Proceed \/ stage' \in {"fatal", "exited"} \/ stage' = stage
        BY <2>4 DEF FinalizeStage, Flush, SetTls, Initialise, FreeTemp, End, Stay
      <4> QED BY <4>1, <4>2, ProceedTo DEF AfterHooks, Late
    <3> QED BY <1>2, <3>1, HookingKept
  <2>5. CASE UNCHANGED <<stage, step, gameVars, mainVars>>
    BY <1>2, <2>5, HookingKept DEF gameVars, mainVars
  <2> QED BY <1>2, <2>1, <2>2, <2>3, <2>4, <2>5
          DEF BootNext, SessionStage, GameCreates, GameThread, bootVars
<1> QED BY <1>1, <1>2, StagedInvariant, PTL DEF BootSpec

\* A part of a text.
LEMMA PartIs ==
  ASSUME NEW Text, NEW s \in Seq(Text), NEW m \in 1 .. Len(s), NEW n \in m .. Len(s)
  PROVE  /\ SubSeq(s, m, n) \in Seq(Text) /\ Len(SubSeq(s, m, n)) = n - m + 1
         /\ \A k \in 1 .. n - m + 1 : SubSeq(s, m, n)[k] = s[m + k - 1]
<1>1. m \in Int /\ n \in Int /\ m <= n /\ \A k \in m .. n : s[k] \in Text
  BY ElementOfSeq, LenProperties
<1> QED BY <1>1, SubSeqProperties

\* Patched code does what HooksSound says.
LEMMA PatchedSound ==
  ASSUME NEW h
  PROVE  LET t  == Patched(h).target
             tr == Patched(h).trampoline
         IN  /\ Runs(t, 1) = <<>> /\ Leads(t, 1) = Replacement(h)
             /\ Leads(tr, 1) = Continues(h)
             /\ Runs(tr, 1) \o Runs(t, 5) = Function(h)
<1> DEFINE t == Patched(h).target
           tr == Patched(h).trampoline
           f == Function(h)
           Text == {<<"ldr">>, <<"br">>, Replacement(h), Continues(h)} \cup {<<"own", h, k>> : k \in 1 .. 6}
<1>1. f \in Seq(Text) /\ Len(f) = 6 /\ \A k \in 1 .. 6 : f[k] = <<"own", h, k>>
  BY DEF Function
<1> HIDE DEF f
<1>2. /\ SubSeq(f, 1, 4) \in Seq(Text) /\ Len(SubSeq(f, 1, 4)) = 4
      /\ \A k \in 1 .. 4 : SubSeq(f, 1, 4)[k] = f[k]
      /\ SubSeq(f, 5, 6) \in Seq(Text) /\ Len(SubSeq(f, 5, 6)) = 2
      /\ \A k \in 1 .. 2 : SubSeq(f, 5, 6)[k] = f[k + 4]
  <2> HIDE DEF Text
  <2>1. 1 \in 1 .. Len(f) /\ 4 \in 1 .. Len(f) /\ 5 \in 1 .. Len(f) /\ 6 \in 5 .. Len(f)
    BY <1>1
  <2>2. /\ SubSeq(f, 1, 4) \in Seq(Text) /\ Len(SubSeq(f, 1, 4)) = 4 - 1 + 1
        /\ \A k \in 1 .. 4 - 1 + 1 : SubSeq(f, 1, 4)[k] = f[1 + k - 1]
    BY <1>1, <2>1, PartIs
  <2>3. /\ SubSeq(f, 5, 6) \in Seq(Text) /\ Len(SubSeq(f, 5, 6)) = 6 - 5 + 1
        /\ \A k \in 1 .. 6 - 5 + 1 : SubSeq(f, 5, 6)[k] = f[5 + k - 1]
    BY <1>1, <2>1, PartIs
  <2>4. /\ \A k \in 1 .. 4 : 1 + k - 1 = k /\ k \in 1 .. 4 - 1 + 1
        /\ \A k \in 1 .. 2 : 5 + k - 1 = k + 4 /\ k \in 1 .. 6 - 5 + 1
    OBVIOUS
  <2> QED BY <2>2, <2>3, <2>4
<1>3. ASSUME NEW to \in Text
      PROVE  /\ Branch(to) \in Seq(Text) /\ Len(Branch(to)) = 4
             /\ Branch(to)[1] = <<"ldr">> /\ Branch(to)[2] = <<"br">>
             /\ Branch(to)[3] = to /\ Branch(to)[4] = to
  BY DEF Branch
<1>4. Replacement(h) \in Text /\ Continues(h) \in Text
  OBVIOUS
<1>5. \A k \in 1 .. 6 : f[k] # <<"ldr">>
  BY <1>1
<1>6. t = Branch(Replacement(h)) \o SubSeq(f, 5, 6) /\ tr = SubSeq(f, 1, 4) \o Branch(Continues(h))
  BY DEF Patched, f
<1> HIDE DEF Text, t, tr
<1>7. /\ t \in Seq(Text) /\ Len(t) = 6 /\ t[1] = <<"ldr">> /\ t[3] = Replacement(h)
      /\ t[5] = f[5] /\ t[6] = f[6]
  <2> DEFINE b == Branch(Replacement(h))
             u == SubSeq(f, 5, 6)
  <2>1. b \in Seq(Text) /\ Len(b) = 4 /\ b[1] = <<"ldr">> /\ b[3] = Replacement(h)
    BY <1>3, <1>4
  <2>2. u \in Seq(Text) /\ Len(u) = 2 /\ u[1] = f[5] /\ u[2] = f[6] /\ t = b \o u
    BY <1>2, <1>6
  <2> HIDE DEF b, u
  <2>3. /\ t \in Seq(Text) /\ Len(t) = 6
        /\ \A k \in 1 .. 6 : t[k] = IF k <= 4 THEN b[k] ELSE u[k - 4]
    <3>1. /\ b \o u \in Seq(Text) /\ Len(b \o u) = Len(b) + Len(u)
          /\ \A k \in 1 .. Len(b) + Len(u) :
               (b \o u)[k] = IF k <= Len(b) THEN b[k] ELSE u[k - Len(b)]
      BY <2>1, <2>2, ConcatProperties
    <3> QED BY <2>1, <2>2, <3>1
  <2> QED BY <2>1, <2>2, <2>3
<1>8. /\ tr \in Seq(Text) /\ Len(tr) = 8 /\ tr[5] = <<"ldr">> /\ tr[7] = Continues(h)
      /\ \A k \in 1 .. 4 : tr[k] = f[k]
  <2> DEFINE b == Branch(Continues(h))
             u == SubSeq(f, 1, 4)
  <2>1. b \in Seq(Text) /\ Len(b) = 4 /\ b[1] = <<"ldr">> /\ b[3] = Continues(h)
    BY <1>3, <1>4
  <2>2. u \in Seq(Text) /\ Len(u) = 4 /\ (\A k \in 1 .. 4 : u[k] = f[k]) /\ tr = u \o b
    BY <1>2, <1>6
  <2> HIDE DEF b, u
  <2>3. /\ tr \in Seq(Text) /\ Len(tr) = 8
        /\ \A k \in 1 .. 8 : tr[k] = IF k <= 4 THEN u[k] ELSE b[k - 4]
    <3>1. /\ u \o b \in Seq(Text) /\ Len(u \o b) = Len(u) + Len(b)
          /\ \A k \in 1 .. Len(u) + Len(b) :
               (u \o b)[k] = IF k <= Len(u) THEN u[k] ELSE b[k - Len(u)]
      BY <2>1, <2>2, ConcatProperties
    <3> QED BY <2>1, <2>2, <3>1
  <2> QED BY <2>1, <2>2, <2>3
<1>9. ASSUME NEW s \in Seq(Text), NEW k \in Nat, NEW b \in k .. Len(s) + 1,
             b <= Len(s) => s[b] = <<"ldr">>, \A j \in k .. b - 1 : s[j] # <<"ldr">>
      PROVE  Until(s, k) = b
  <2> DEFINE P(c) == /\ c <= Len(s) => s[c] = <<"ldr">>
                     /\ \A j \in k .. c - 1 : s[j] # <<"ldr">>
  <2>1. \E c \in k .. Len(s) + 1 : P(c)
    BY <1>9
  <2>2. Until(s, k) \in k .. Len(s) + 1 /\ P(Until(s, k))
    BY <2>1 DEF Until
  <2>3. Len(s) \in Nat
    OBVIOUS
  <2>4. ASSUME NEW c \in k .. Len(s) + 1, P(c) PROVE c = b
    <3>1. ~(c < b)
      BY <1>9, <2>3, <2>4
    <3>2. ~(b < c)
      BY <1>9, <2>3, <2>4
    <3> QED BY <2>3, <3>1, <3>2
  <2> QED BY <2>2, <2>4
<1>10. Until(t, 1) = 1
  BY <1>7, <1>9
<1>11. Until(tr, 1) = 5
  <2>1. /\ 1 \in Nat /\ 5 \in 1 .. Len(tr) + 1 /\ tr[5] = <<"ldr">>
        /\ \A j \in 1 .. 5 - 1 : tr[j] # <<"ldr">>
    BY <1>5, <1>8
  <2> QED BY <1>8, <1>9, <2>1
<1>12. Until(t, 5) = 7
  <2>1. /\ 5 \in Nat /\ 7 \in 5 .. Len(t) + 1 /\ ~(7 <= Len(t))
        /\ \A j \in 5 .. 7 - 1 : t[j] # <<"ldr">>
    BY <1>5, <1>7
  <2> QED BY <1>7, <1>9, <2>1
<1>13. Runs(t, 1) = <<>> /\ Leads(t, 1) = Replacement(h) /\ Leads(tr, 1) = Continues(h)
  BY <1>7, <1>8, <1>10, <1>11 DEF Runs, Leads
<1>14. Runs(tr, 1) = SubSeq(tr, 1, 4) /\ Runs(t, 5) = SubSeq(t, 5, 6)
  BY <1>11, <1>12 DEF Runs
<1>15. SubSeq(tr, 1, 4) \o SubSeq(t, 5, 6) = f
  <2> DEFINE g == SubSeq(tr, 1, 4) \o SubSeq(t, 5, 6)
  <2>0. 1 \in 1 .. Len(tr) /\ 4 \in 1 .. Len(tr) /\ 5 \in 1 .. Len(t) /\ 6 \in 5 .. Len(t)
    BY <1>7, <1>8
  <2>1. /\ SubSeq(tr, 1, 4) \in Seq(Text) /\ Len(SubSeq(tr, 1, 4)) = 4
        /\ \A k \in 1 .. 4 : SubSeq(tr, 1, 4)[k] = tr[k]
        /\ SubSeq(t, 5, 6) \in Seq(Text) /\ Len(SubSeq(t, 5, 6)) = 2
        /\ \A k \in 1 .. 2 : SubSeq(t, 5, 6)[k] = t[k + 4]
    <3>1. /\ SubSeq(tr, 1, 4) \in Seq(Text) /\ Len(SubSeq(tr, 1, 4)) = 4 - 1 + 1
          /\ \A k \in 1 .. 4 - 1 + 1 : SubSeq(tr, 1, 4)[k] = tr[1 + k - 1]
      BY <1>8, <2>0, PartIs
    <3>2. /\ SubSeq(t, 5, 6) \in Seq(Text) /\ Len(SubSeq(t, 5, 6)) = 6 - 5 + 1
          /\ \A k \in 1 .. 6 - 5 + 1 : SubSeq(t, 5, 6)[k] = t[5 + k - 1]
      BY <1>7, <2>0, PartIs
    <3>3. /\ \A k \in 1 .. 4 : 1 + k - 1 = k /\ k \in 1 .. 4 - 1 + 1
          /\ \A k \in 1 .. 2 : 5 + k - 1 = k + 4 /\ k \in 1 .. 6 - 5 + 1
      OBVIOUS
    <3> QED BY <3>1, <3>2, <3>3
  <2>2. g \in Seq(Text) /\ Len(g) = 6
    BY <2>1, ConcatProperties
  <2>3. ASSUME NEW k \in 1 .. 6 PROVE g[k] = f[k]
    <3>1. g[k] = IF k <= 4 THEN SubSeq(tr, 1, 4)[k] ELSE SubSeq(t, 5, 6)[k - 4]
      BY <2>1, ConcatProperties
    <3>2. CASE k <= 4
      BY <1>8, <2>1, <3>1, <3>2
    <3>3. CASE k = 5 \/ k = 6
      BY <1>7, <2>1, <3>1, <3>3
    <3> QED BY <3>2, <3>3
  <2> HIDE DEF g
  <2>4. g = f
    BY <1>1, <2>2, <2>3, SeqEqual
  <2> QED BY <2>4 DEF g
<1> QED BY <1>13, <1>14, <1>15 DEF t, tr, f

\* The image has a whole number of pages.
Whole == pc \in {"copy", "loaded", "pages", "ready"} => load_size = NumPages * PageSize

\* so_load() rounds the size of the image, which then stays.
THEOREM WholeInvariant == BootSpec => []Whole
<1>1. BootInit => Whole
  BY DEF BootInit, InitWith, Whole
<1>2. ASSUME Whole, Paged, [BootNext]_bootVars PROVE Whole'
  <2>1. CASE Reserve
    <3>1. load_size' = Align(Extent) /\ phdr \in Headers
      BY <1>2, <2>1 DEF Reserve, Paged
    <3>2. Extent \in Nat
      BY <3>1, ExtentNat
    <3> QED BY <3>1, <3>2, AlignPages DEF Whole, NumPages
  <2>2. CASE /\ load_size' = load_size
             /\ pc' \in {"copy", "loaded", "pages", "ready"} =>
                  pc \in {"copy", "loaded", "pages", "ready"}
    BY <1>2, <2>2 DEF Whole, NumPages
  <2>3. CASE InitHeap \/ Open \/ OpenFails \/ CheckFails \/ ZoneFaults \/ NoSymbols
    BY <2>3 DEF InitHeap, Open, OpenFails, CheckFails, ZoneFaults, NoSymbols, Fail, Whole
  <2>4. CASE CopySegment \/ Register \/ Finalize
    BY <2>2, <2>4 DEF CopySegment, Register, Finalize, Map, SkipPage, SetPermission, EndPass,
                      Fatal, zoneVars
  <2> QED BY <1>2, <2>1, <2>2, <2>3, <2>4
          DEF BootNext, bootVars, imageVars, zoneVars, InitHeapStage, Checks, LoadStage, Load,
              RelocateStage, FindVisibility, InstallHook, FindEntryPoint, EndLookups,
              FinalizeStage, Flush, SetTls, Initialise, FreeTemp, SessionStage, GameCreates,
              GameThread
<1> QED BY <1>1, <1>2, PagedInvariant, PTL DEF BootSpec

\* What lies in a segment with code is on a page that can be executed.
LEMMA CodeExecutable ==
  ASSUME Paged, Zoned, Whole, pc = "ready", NEW i \in Loads, phdr[i].x,
         NEW a \in phdr[i].vaddr .. EndOf(i) - 1
  PROVE  perm[a \div PageSize] = "rx"
<1> DEFINE p == a \div PageSize
<1>1. phdr[i].vaddr \in Nat /\ EndOf(i) \in Nat /\ a \in Nat
  BY HeaderNat DEF Paged
<1>2. /\ load_size \in Nat /\ EndOf(i) <= load_size /\ load_size = NumPages * PageSize
      /\ NumPages \in Nat
  BY PagesAreNat DEF Zoned, Whole
<1>3. p \in Nat /\ \A n \in Nat : p <= n <=> a < (n + 1) * PageSize
  BY <1>1, PageOf
<1> HIDE DEF p
<1>4. PageSize \in Nat \ {0}
  BY SoImageAssumption
<1>5. p \in Page
  <2>1. NumPages # 0
    BY <1>1, <1>2, <1>4
  <2>2. NumPages - 1 \in Nat /\ a < ((NumPages - 1) + 1) * PageSize
    BY <1>1, <1>2, <2>1
  <2>3. p <= NumPages - 1
    BY <1>3, <2>2
  <2> QED BY <1>2, <1>3, <2>3 DEF Page
<1>6. phdr[i].vaddr < (p + 1) * PageSize
  <2>1. a < (p + 1) * PageSize /\ (p + 1) * PageSize \in Nat
    BY <1>3, <1>4
  <2> QED BY <1>1, <2>1
<1>7. EndOf(i) > p * PageSize
  <2>1. CASE p = 0
    BY <1>1, <1>4, <2>1
  <2>2. CASE p # 0
    <3>1. p - 1 \in Nat /\ ~(a < ((p - 1) + 1) * PageSize) /\ (p - 1) + 1 = p
      BY <1>3, <2>2
    <3>2. p * PageSize \in Nat /\ ~(a < p * PageSize)
      BY <1>3, <1>4, <3>1
    <3> QED BY <1>1, <3>2
  <2> QED BY <2>1, <2>2
<1>8. perm[p] = "rx"
  BY <1>5, <1>6, <1>7 DEF Paged, HasCode
<1> QED BY <1>8 DEF p

\* In the session each pointer of main() leads where its name says and to where code
\* can run, and the hooks do what the functions did, for every binary and any hooks.
THEOREM EntriesCorrect == BootSpec => []EntriesSound
<1>1. ASSUME Staged, Paged, Zoned, Whole, Hooking PROVE EntriesSound
  <2>1. ASSUME stage = "session", NEW f \in Looked
        PROVE  /\ entry[f] = Null => f \in Optional
               /\ entry[f] # Null =>
                    /\ entry[f] = At("rx", IF f \in ElementsOf(Hooked) THEN Trampoline[f]
                                                                       ELSE exports[f])
                    /\ (\E i \in Loads : phdr[i].x /\ entry[f][2] \in phdr[i].vaddr .. EndOf(i) - 1) =>
                         perm[entry[f][2] \div PageSize] = "rx"
    <3>1. Right(f)
      <4>1. /\ \A j \in 1 .. Len(Hooked) : HookDone(j)
            /\ VisibilityDone /\ \A k \in 1 .. Len(EntryPoints) : EntryDone(k)
        BY <2>1 DEF HookDone, VisibilityDone, EntryDone, AfterHooks, Late
      <4>2. \/ \E j \in 1 .. Len(Hooked) : f = Hooked[j]
            \/ f = Visibility
            \/ \E k \in 1 .. Len(EntryPoints) : f = EntryPoints[k]
        BY DEF Looked, ElementsOf
      <4> QED BY <1>1, <2>1, <4>1, <4>2 DEF Hooking
    <3>2. entry[f] = Null => f \in Optional
      <4>1. ASSUME NEW a PROVE At("rx", a) # Null
        BY DEF At, Null
      <4> QED BY <3>1, <4>1 DEF Right
    <3>3. pc = "ready"
      BY <1>1, <2>1 DEF Staged, Late
    <3> QED BY <1>1, <3>1, <3>2, <3>3, CodeExecutable DEF Right
  <2>2. ASSUME stage \in {"finalize", "init", "session"}, NEW h \in ElementsOf(Hooked)
        PROVE  LET to == Leads(code[h].trampoline, 1) IN
                 /\ Runs(code[h].target, 1) = <<>> /\ Leads(code[h].target, 1) = Replacement(h)
                 /\ to[1] = "target" /\ to[2] \in ElementsOf(Hooked)
                 /\ Runs(code[h].trampoline, 1) \o Runs(code[to[2]].target, to[3]) = Function(h)
    <3>1. code[h] = Patched(h)
      <4>1. \A j \in 1 .. Len(Hooked) : HookDone(j)
        BY <2>2 DEF HookDone, AfterHooks, Late
      <4>2. PICK j \in 1 .. Len(Hooked) : h = Hooked[j]
        BY <2>2, NamesApart
      <4> QED BY <1>1, <2>2, <4>1, <4>2 DEF Hooking
    <3>2. Continues(h)[1] = "target" /\ Continues(h)[2] = h /\ Continues(h)[3] = 5
      BY DEF Continues
    <3> QED BY <2>2, <3>1, <3>2, PatchedSound
  <2> QED BY <2>1, <2>2 DEF EntriesSound, EntriesExecutable, HooksSound
<1> QED BY <1>1, StagedInvariant, PagedInvariant, ZonedInvariant, WholeInvariant,
           HookingInvariant, PTL

-----------------------------------------------------------------------------
(***************************************************************************)
(* The words of the image.                                                 *)
(***************************************************************************)
\* What a file may hold, as the loops use it.
LEMMA Formed ==
  ASSUME R!WellFormed(file)
  PROVE  /\ Len(file.rels) \in Nat /\ Len(file.relr) \in Nat
         /\ \A k \in 1 .. Len(file.rels) :
              /\ file.rels[k] \in R!Rela /\ file.rels[k].at \in Place
              /\ file.rels[k].addend \in Int /\ file.rels[k].at \notin R!Packed(file)
              /\ \A l \in 1 .. Len(file.rels) :
                   l # k => file.rels[l].at # file.rels[k].at
         /\ \A k \in 1 .. Len(file.relr) :
              /\ file.relr[k] \in R!Entry
              /\ \A l \in 1 .. Len(file.relr) :
                   l # k => R!Described(file, k) \cap R!Described(file, l) = {}
         /\ file.words \in [Place -> 0 .. Word - 1]
<1>1. file.rels \in Seq(R!Rela) /\ file.relr \in Seq(R!Entry)
      /\ file.words \in [Place -> 0 .. Word - 1]
  BY DEF R!WellFormed
<1>2. Len(file.rels) \in Nat /\ Len(file.relr) \in Nat
  BY <1>1
<1>3. ASSUME NEW k \in 1 .. Len(file.rels)
      PROVE  /\ file.rels[k] \in R!Rela /\ file.rels[k].at \notin R!Packed(file)
             /\ \A l \in 1 .. Len(file.rels) :
                  l # k => file.rels[l].at # file.rels[k].at
  <2>1. file.rels[k] \in R!Rela
    BY <1>1
  <2>2. \A m \in 1 .. Len(file.rels) :
          /\ file.rels[m].at \notin R!Packed(file)
          /\ \A l \in 1 .. m - 1 : file.rels[m].at # file.rels[l].at
    BY DEF R!WellFormed
  <2>3. ASSUME NEW l \in 1 .. Len(file.rels), l # k PROVE l \in 1 .. k - 1 \/ k \in 1 .. l - 1
    BY <1>2, <2>3
  <2> QED BY <2>1, <2>2, <2>3
<1>4. ASSUME NEW k \in 1 .. Len(file.relr)
      PROVE  /\ file.relr[k] \in R!Entry
             /\ \A l \in 1 .. Len(file.relr) :
                  l # k => R!Described(file, k) \cap R!Described(file, l) = {}
  <2>1. file.relr[k] \in R!Entry
    BY <1>1
  <2>2. \A m \in 1 .. Len(file.relr) : \A l \in 1 .. m - 1 :
          R!Described(file, m) \cap R!Described(file, l) = {}
    BY DEF R!WellFormed
  <2>3. ASSUME NEW l \in 1 .. Len(file.relr), l # k PROVE l \in 1 .. k - 1 \/ k \in 1 .. l - 1
    BY <1>2, <2>3
  <2> QED BY <2>1, <2>2, <2>3
<1>5. \A r \in R!Rela : r.at \in Place /\ r.addend \in Int
  BY DEF R!Rela
<1> QED BY <1>1, <1>2, <1>3, <1>4, <1>5

\* Entry e is the last address up to entry k.
Anchors(e, k) ==
  /\ e \in 1 .. k /\ file.relr[e].even
  /\ \A d \in e + 1 .. k : ~file.relr[d].even

\* Every entry has an anchor: itself, or that of the entry before.
LEMMA AnchorOf ==
  ASSUME R!WellFormed(file), NEW k \in 1 .. Len(file.relr)
  PROVE  /\ R!Anchor(file, k) \in 1 .. k /\ file.relr[R!Anchor(file, k)].even
         /\ file.relr[k].even => R!Anchor(file, k) = k
         /\ ~file.relr[k].even => k > 1 /\ R!Anchor(file, k) = R!Anchor(file, k - 1)
<1>1. Len(file.relr) \in Nat /\ (file.relr # <<>> => file.relr[1].even)
  BY Formed DEF R!WellFormed
<1>2. file.relr[1].even
  <2>1. file.relr # <<>>
    BY DEF R!WellFormed
  <2> QED BY <1>1, <2>1
<1> DEFINE T == {n \in 1 .. Len(file.relr) : ~ \E e \in 1 .. n : Anchors(e, n)}
<1>3. T = {}
  <2>1. SUFFICES ASSUME T # {} PROVE FALSE
    OBVIOUS
  <2>2. PICK m \in T : \A n \in T : m <= n
    <3>1. T \in SUBSET Nat
      BY <1>1
    <3> HIDE DEF T
    <3> QED BY <2>1, <3>1, Least
  <2>3. m \in 1 .. Len(file.relr) /\ m \in Nat
    BY <1>1, <2>2
  <2>4. ~file.relr[m].even
    <3>1. file.relr[m].even => Anchors(m, m)
      BY <2>3 DEF Anchors
    <3> QED BY <2>2, <2>3, <3>1
  <2>5. m # 1 /\ m - 1 \in 1 .. Len(file.relr) /\ m - 1 \notin T
    BY <1>1, <1>2, <2>2, <2>3, <2>4
  <2>6. PICK e \in 1 .. m - 1 : Anchors(e, m - 1)
    BY <2>5
  <2>7. Anchors(e, m)
    BY <2>3, <2>4, <2>6 DEF Anchors
  <2> QED BY <2>2, <2>3, <2>6, <2>7
<1>4. \A n \in 1 .. Len(file.relr) : Anchors(R!Anchor(file, n), n)
  BY <1>3 DEF Anchors, R!Anchor
<1>5. \A n \in 1 .. Len(file.relr), e, f \in Nat : Anchors(e, n) /\ Anchors(f, n) => e = f
  <2> SUFFICES ASSUME NEW n \in 1 .. Len(file.relr), NEW e \in Nat, NEW f \in Nat,
                      Anchors(e, n), Anchors(f, n)
               PROVE  e = f
    OBVIOUS
  <2>1. n \in Nat /\ e <= n /\ f <= n
    BY <1>1 DEF Anchors
  <2>2. ~(e < f)
    BY <2>1 DEF Anchors
  <2>3. ~(f < e)
    BY <2>1 DEF Anchors
  <2> QED BY <2>2, <2>3
<1>6. k \in Nat /\ R!Anchor(file, k) \in 1 .. k
  BY <1>1, <1>4 DEF Anchors
<1>7. ASSUME file.relr[k].even PROVE R!Anchor(file, k) = k
  <2>1. Anchors(k, k)
    BY <1>6, <1>7 DEF Anchors
  <2> QED BY <1>4, <1>5, <1>6, <2>1
<1>8. ASSUME ~file.relr[k].even PROVE k > 1 /\ R!Anchor(file, k) = R!Anchor(file, k - 1)
  <2>1. k > 1 /\ k - 1 \in 1 .. Len(file.relr)
    BY <1>1, <1>2, <1>6, <1>8
  <2>2. Anchors(R!Anchor(file, k - 1), k - 1)
    BY <1>4, <2>1
  <2>3. Anchors(R!Anchor(file, k - 1), k) /\ R!Anchor(file, k - 1) \in Nat
    BY <1>6, <1>8, <2>1, <2>2 DEF Anchors
  <2> QED BY <1>4, <1>5, <1>6, <2>1, <2>3
<1> QED BY <1>4, <1>6, <1>7, <1>8 DEF Anchors

\* What the loop over the relocations leaves in the word of r, and what so_resolve()
\* makes of it.
RelaWord(r) ==
  IF r.type = "RELATIVE" THEN (Virtbase + r.addend) % Word
  ELSE IF ~R!Imported(r) THEN (Virtbase + Own[r.sym] + r.addend) % Word
  ELSE IF r.type = "ABS64" THEN r.addend % Word ELSE file.words[r.at]

FinalWord(r) ==
  IF R!Resolvable(r) /\ R!AddressOf(r.sym) # 0 THEN (R!AddressOf(r.sym) + r.addend) % Word
  ELSE IF R!Resolvable(r) /\ taint THEN r.at % Word ELSE RelaWord(r)

\* where, after entry k
After(k) ==
  file.relr[R!Anchor(file, k)].at + 1 + (k - R!Anchor(file, k)) * Bits

\* A word that is not in .rela, when the first n packed entries have been applied.
PlainWord(a, n) ==
  IF \E l \in 1 .. Len(file.relr) : l <= n /\ a \in R!Described(file, l)
  THEN (file.words[a] + Virtbase) % Word ELSE file.words[a]

\* The words, when the first n relocations were applied and the first m resolved, and
\* the first p packed entries.
Worded(n, m, p) ==
  /\ \A k \in 1 .. Len(file.rels) :
       /\ k <= n => file.rels[k].type # "other"
       /\ mem[file.rels[k].at] = IF k <= m THEN FinalWord(file.rels[k])
                                 ELSE IF k <= n THEN RelaWord(file.rels[k])
                                 ELSE file.words[file.rels[k].at]
  /\ \A a \in Place : (\A k \in 1 .. Len(file.rels) : file.rels[k].at # a) =>
                        mem[a] = PlainWord(a, p)

Bound ==
  /\ R!WellFormed(file) /\ mem = [a \in Place |-> mem[a]] /\ ri \in Nat \ {0}
  /\ rpc = "rela" => Worded(ri - 1, 0, 0)
  /\ rpc = "relr" =>
       /\ Worded(Len(file.rels), 0, ri - 1)
       /\ ri > 1 /\ ri - 1 <= Len(file.relr) => where = After(ri - 1)
  /\ rpc = "resolve" => Worded(Len(file.rels), ri - 1, Len(file.relr))
  /\ rpc = "done" => Worded(Len(file.rels), Len(file.rels), Len(file.relr))

\* A store to the word of relocation k leaves all other words.
LEMMA StoreWord ==
  ASSUME R!WellFormed(file), mem = [a \in Place |-> mem[a]], file' = file, taint' = taint,
         NEW k \in 1 .. Len(file.rels), NEW n \in Nat, NEW m \in Nat, NEW n1 \in Nat,
         NEW m1 \in Nat, NEW p \in Nat, Worded(n, m, p),
         NEW v, mem' = [mem EXCEPT ![file.rels[k].at] = v],
         \/ /\ n = k - 1 /\ n1 = k /\ m = 0 /\ m1 = 0
            /\ file.rels[k].type # "other" /\ v = RelaWord(file.rels[k])
         \/ m = k - 1 /\ m1 = k /\ n1 = n /\ v = FinalWord(file.rels[k])
  PROVE  Worded(n1, m1, p)' /\ mem' = [a \in Place |-> mem'[a]]
<1>1. /\ file.rels[k].at \in Place
      /\ \A l \in 1 .. Len(file.rels) : l # k => file.rels[l].at # file.rels[k].at
      /\ Len(file.rels) \in Nat
  BY Formed
<1>2. /\ mem'[file.rels[k].at] = v
      /\ \A a \in Place : a # file.rels[k].at => mem'[a] = mem[a]
      /\ mem' = [a \in Place |-> mem'[a]]
  BY <1>1
<1>3. ASSUME NEW l \in 1 .. Len(file.rels)
      PROVE  /\ l <= n1 => file.rels[l].type # "other"
             /\ mem'[file.rels[l].at] = IF l <= m1 THEN FinalWord(file.rels[l])
                                        ELSE IF l <= n1 THEN RelaWord(file.rels[l])
                                        ELSE file.words[file.rels[l].at]
  <2>1. l # k => file.rels[l].at \in Place /\ file.rels[l].at # file.rels[k].at
    BY <1>1, Formed
  <2>2. l # k => mem'[file.rels[l].at] = mem[file.rels[l].at]
    BY <1>2, <2>1
  <2>3. l # k => (l <= n1 <=> l <= n) /\ (l <= m1 <=> l <= m)
    BY <1>1
  <2>4. CASE l # k
    BY <2>2, <2>3, <2>4 DEF Worded
  <2>5. CASE l = k
    BY <1>1, <1>2, <2>5 DEF Worded
  <2> QED BY <2>4, <2>5
<1>4. \A a \in Place : (\A l \in 1 .. Len(file.rels) : file.rels[l].at # a) =>
                        mem'[a] = PlainWord(a, p)
  BY <1>2 DEF Worded
<1>5. /\ \A l \in 1 .. Len(file.rels) :
          /\ FinalWord(file.rels[l])' = FinalWord(file.rels[l])
          /\ RelaWord(file.rels[l])' = RelaWord(file.rels[l])
      /\ \A a \in Place : PlainWord(a, p)' = PlainWord(a, p)
  BY DEF FinalWord, RelaWord, PlainWord, R!Described, R!Anchor
<1> QED BY <1>2, <1>3, <1>4, <1>5 DEF Worded

\* No word changes.
LEMMA SameWords ==
  ASSUME R!WellFormed(file), file' = file, taint' = taint, mem' = mem,
         NEW n \in Nat, NEW m \in Nat, NEW p \in Nat, Worded(n, m, p)
  PROVE  Worded(n, m, p)'
<1>1. /\ \A l \in 1 .. Len(file.rels) :
          /\ FinalWord(file.rels[l])' = FinalWord(file.rels[l])
          /\ RelaWord(file.rels[l])' = RelaWord(file.rels[l])
      /\ \A a \in Place : PlainWord(a, p)' = PlainWord(a, p)
  BY DEF FinalWord, RelaWord, PlainWord, R!Described, R!Anchor
<1> QED BY <1>1 DEF Worded

\* so_relocate() gives one word its first value.
LEMMA RelocateBound == ASSUME Bound, R!Relocate PROVE Bound'
<1> PICK k \in Nat : k = ri
  BY DEF Bound
<1> DEFINE r == file.rels[k]
<1>1. /\ rpc = "rela" /\ rpc' = rpc /\ ri <= Len(file.rels) /\ ri' = ri + 1
      /\ file' = file /\ taint' = taint
  BY DEF R!Relocate, R!rels, R!Continue
<1>2. /\ R!WellFormed(file) /\ mem = [a \in Place |-> mem[a]] /\ ri \in Nat \ {0}
      /\ Worded(ri - 1, 0, 0) /\ ri \in 1 .. Len(file.rels) /\ ri - 1 \in Nat
  BY <1>1, Formed DEF Bound
<1>3. r \in R!Rela /\ r.at \in Place /\ r.type # "other"
  BY <1>2, Formed DEF R!Relocate, R!rels
<1>4. mem[r.at] = file.words[r.at]
  BY <1>2, Formed DEF Worded
<1>5. mem' = [mem EXCEPT ![r.at] = RelaWord(r)]
  <2>1. \/ /\ r.type = "RELATIVE"
           /\ mem' = [mem EXCEPT ![r.at] = (Virtbase + r.addend) % Word]
        \/ /\ r.type \in {"ABS64", "GLOB_DAT", "JUMP_SLOT"} /\ ~R!Imported(r)
           /\ mem' = [mem EXCEPT ![r.at] = (Virtbase + Own[r.sym] + r.addend) % Word]
        \/ /\ r.type = "ABS64" /\ R!Imported(r)
           /\ mem' = [mem EXCEPT ![r.at] = r.addend % Word]
        \/ /\ r.type \in {"GLOB_DAT", "JUMP_SLOT"} /\ R!Imported(r)
           /\ mem' = mem
    BY DEF R!Relocate, R!rels, R!Store
  <2> HIDE DEF r
  <2>2. r.type \in {"GLOB_DAT", "JUMP_SLOT"} /\ R!Imported(r) /\ mem' = mem =>
          mem' = [mem EXCEPT ![r.at] = RelaWord(r)]
    BY <1>2, <1>3, <1>4 DEF RelaWord
  <2> QED BY <2>1, <2>2 DEF RelaWord
<1>6. Worded(k, 0, 0)' /\ mem' = [a \in Place |-> mem'[a]]
  <2>1. k - 1 \in Nat /\ k \in 1 .. Len(file.rels) /\ Worded(k - 1, 0, 0) /\ 0 \in Nat
    BY <1>2
  <2> HIDE DEF r
  <2> QED BY <1>1, <1>2, <1>3, <1>5, <2>1, StoreWord DEF r
<1>7. ri' - 1 = k
  BY <1>1
<1> QED BY <1>1, <1>2, <1>6, <1>7 DEF Bound

\* so_resolve() changes the word of an import only, and only to its address.
LEMMA ResolveBound == ASSUME Bound, R!Resolve PROVE Bound'
<1> PICK k, n, p \in Nat : k = ri /\ n = Len(file.rels) /\ p = Len(file.relr)
  BY Formed DEF Bound
<1> DEFINE r == file.rels[k]
<1>1. /\ rpc = "resolve" /\ rpc' = rpc /\ ri <= n /\ ri' = ri + 1
      /\ file' = file /\ taint' = taint
  BY DEF R!Resolve, R!rels, R!Continue
<1>2. /\ R!WellFormed(file) /\ mem = [a \in Place |-> mem[a]] /\ ri \in Nat \ {0}
      /\ n \in Nat /\ Len(file.relr) \in Nat
      /\ Worded(n, ri - 1, Len(file.relr)) /\ ri \in 1 .. n /\ ri - 1 \in Nat
  BY <1>1, Formed DEF Bound
<1>3. r.at \in Place
  BY <1>2, Formed
<1>4. mem[r.at] = RelaWord(r)
  BY <1>2, Formed DEF Worded
<1>5. mem' = [mem EXCEPT ![r.at] = FinalWord(r)]
  <2>1. \/ /\ R!Resolvable(r) /\ R!AddressOf(r.sym) # 0
           /\ mem' = [mem EXCEPT ![r.at] = (R!AddressOf(r.sym) + r.addend) % Word]
        \/ /\ R!Resolvable(r) /\ R!AddressOf(r.sym) = 0 /\ taint
           /\ mem' = [mem EXCEPT ![r.at] = r.at % Word]
        \/ /\ ~R!Resolvable(r) \/ (R!AddressOf(r.sym) = 0 /\ ~taint)
           /\ mem' = mem
    BY DEF R!Resolve, R!rels, R!Store
  <2> HIDE DEF r
  <2>2. (~R!Resolvable(r) \/ (R!AddressOf(r.sym) = 0 /\ ~taint)) /\ mem' = mem =>
          mem' = [mem EXCEPT ![r.at] = FinalWord(r)]
    BY <1>2, <1>3, <1>4 DEF FinalWord
  <2> QED BY <2>1, <2>2 DEF FinalWord
<1>6. Worded(n, k, p)' /\ mem' = [a \in Place |-> mem'[a]]
  <2>1. k - 1 \in Nat /\ k \in 1 .. Len(file.rels) /\ Worded(n, k - 1, p)
    BY <1>2
  <2> HIDE DEF r
  <2> QED BY <1>1, <1>2, <1>5, <2>1, StoreWord DEF r
<1>7. ri' - 1 = k /\ n = Len(file.rels)' /\ p = Len(file.relr)'
  BY <1>1
<1> QED BY <1>1, <1>2, <1>6, <1>7 DEF Bound

\* Entry k is applied.
LEMMA PackWord ==
  ASSUME R!WellFormed(file), file' = file, taint' = taint,
         NEW k \in 1 .. Len(file.relr), NEW n \in Nat, n = Len(file.rels),
         Worded(n, 0, k - 1),
         mem' = [a \in Place |-> IF a \in R!Described(file, k)
                                THEN (mem[a] + Virtbase) % Word ELSE mem[a]]
  PROVE  Worded(n, 0, k)'
<1>1. Len(file.rels) \in Nat /\ Len(file.relr) \in Nat /\ k \in Nat
  BY Formed
<1>2. ASSUME NEW l \in 1 .. Len(file.rels)
      PROVE  mem'[file.rels[l].at] = mem[file.rels[l].at]
  <2>1. file.rels[l].at \in Place /\ file.rels[l].at \notin R!Described(file, k)
    BY Formed DEF R!Packed
  <2> QED BY <2>1
<1>3. ASSUME NEW a \in Place, \A l \in 1 .. Len(file.rels) : file.rels[l].at # a
      PROVE  mem'[a] = PlainWord(a, k)
  <2>1. mem[a] = PlainWord(a, k - 1)
    BY <1>3 DEF Worded
  <2>2. CASE a \in R!Described(file, k)
    <3>1. \A l \in 1 .. Len(file.relr) : l # k => a \notin R!Described(file, l)
      BY <2>2, Formed
    <3>2. mem[a] = file.words[a]
      BY <1>1, <2>1, <3>1 DEF PlainWord
    <3>3. PlainWord(a, k) = (file.words[a] + Virtbase) % Word
      BY <1>1, <2>2 DEF PlainWord
    <3> QED BY <2>2, <3>2, <3>3
  <2>3. CASE a \notin R!Described(file, k)
    <3>1. \A l \in 1 .. Len(file.relr) :
            l <= k /\ a \in R!Described(file, l) <=> l <= k - 1 /\ a \in R!Described(file, l)
      BY <1>1, <2>3
    <3>2. PlainWord(a, k) = PlainWord(a, k - 1)
      BY <3>1 DEF PlainWord
    <3> QED BY <2>1, <2>3, <3>2
  <2> QED BY <2>2, <2>3
<1>4. /\ \A l \in 1 .. Len(file.rels) :
          /\ FinalWord(file.rels[l])' = FinalWord(file.rels[l])
          /\ RelaWord(file.rels[l])' = RelaWord(file.rels[l])
      /\ \A a \in Place : PlainWord(a, k)' = PlainWord(a, k)
  BY DEF FinalWord, RelaWord, PlainWord, R!Described, R!Anchor
<1> QED BY <1>2, <1>3, <1>4 DEF Worded

\* so_process_relr() moves the words of one entry.
LEMMA PackedBound == ASSUME Bound, R!Address \/ R!Bitmap PROVE Bound'
<1> PICK k, n \in Nat : k = ri /\ n = Len(file.rels)
  BY Formed DEF Bound
<1>1. /\ rpc = "relr" /\ rpc' = rpc /\ k <= Len(file.relr) /\ ri' = k + 1
      /\ file' = file /\ taint' = taint
  BY DEF R!Address, R!Bitmap, R!relr, R!Continue
<1>2. /\ R!WellFormed(file) /\ mem = [a \in Place |-> mem[a]] /\ Len(file.relr) \in Nat
      /\ Worded(n, 0, k - 1) /\ k \in 1 .. Len(file.relr)
      /\ k > 1 => where = After(k - 1)
  BY <1>1, Formed DEF Bound
<1>3. /\ where' = After(k)
      /\ mem' = [a \in Place |-> IF a \in R!Described(file, k)
                                THEN (mem[a] + Virtbase) % Word ELSE mem[a]]
  <2>1. CASE R!Address
    <3>1. file.relr[k].even /\ R!Anchor(file, k) = k
      BY <1>2, <2>1, AnchorOf DEF R!Address, R!relr
    <3>2. file.relr[k].at + 1 + (k - k) * Bits = file.relr[k].at + 1
      <4>1. file.relr[k].at \in Nat /\ Bits \in Nat
        BY <1>2, <3>1, Formed, BootAssumption DEF R!Entry, R!SoRelocateAssumption
      <4> QED BY <4>1
    <3>3. R!Described(file, k) = {file.relr[k].at}
      BY <3>1 DEF R!Described
    <3> QED BY <2>1, <3>1, <3>2, <3>3 DEF R!Address, R!relr, R!Add, After
  <2>2. CASE R!Bitmap
    <3> DEFINE e == R!Anchor(file, k)
    <3>1. /\ ~file.relr[k].even /\ k > 1 /\ e = R!Anchor(file, k - 1)
          /\ e \in 1 .. k - 1 /\ k - 1 \in 1 .. Len(file.relr)
      <4>1. ~file.relr[k].even
        BY <2>2 DEF R!Bitmap, R!relr
      <4>2. k > 1 /\ e = R!Anchor(file, k - 1)
        BY <1>2, <4>1, AnchorOf
      <4>3. k - 1 \in 1 .. Len(file.relr)
        BY <1>2, <4>2
      <4> QED BY <1>2, <4>1, <4>2, <4>3, AnchorOf
    <3>2. where = file.relr[e].at + 1 + (k - e - 1) * Bits
      BY <1>2, <3>1 DEF After
    <3>3. R!Described(file, k) = {where + b - 1 : b \in file.relr[k].bits}
      BY <3>1, <3>2 DEF R!Described
    <3>4. file.relr[e].at + 1 + (k - e - 1) * Bits + Bits = After(k)
      <4>1. file.relr[e].even
        BY <1>2, AnchorOf
      <4>2. file.relr[e].at \in Nat /\ Bits \in Nat /\ e \in Nat
        <5>1. e \in Nat /\ file.relr[e] \in R!Entry
          BY <1>2, <3>1, Formed
        <5>2. file.relr[e].at \in Place
          BY <4>1, <5>1 DEF R!Entry
        <5> QED BY <5>1, <5>2, BootAssumption DEF R!SoRelocateAssumption
      <4> HIDE DEF e
      <4>3. (k - e) * Bits = (k - e - 1) * Bits + Bits /\ (k - e - 1) * Bits \in Int
        BY <4>2
      <4> QED BY <4>2, <4>3 DEF After, e
    <3> QED BY <2>2, <3>2, <3>3, <3>4 DEF R!Bitmap, R!relr, R!Add, R!Skip
  <2> QED BY <2>1, <2>2
<1>4. Worded(n, 0, k)'
  BY <1>1, <1>2, <1>3, PackWord
<1>5. After(k)' = After(k) /\ ri' - 1 = k /\ n = Len(file.rels)'
  BY <1>1 DEF After, R!Anchor
<1> QED BY <1>1, <1>2, <1>3, <1>4, <1>5 DEF Bound

\* The ends of the three loops.
LEMMA EndsBound ==
  ASSUME Bound, R!UnknownType \/ R!EndRela \/ R!EndRelr \/ R!EndResolve
  PROVE  Bound'
<1> PICK k, n, p \in Nat : k = ri /\ n = Len(file.rels) /\ p = Len(file.relr)
  BY Formed DEF Bound
<1>1. /\ R!WellFormed(file) /\ mem = [a \in Place |-> mem[a]]
      /\ UNCHANGED <<file, taint, mem>> /\ ri' \in Nat \ {0}
      /\ n = Len(file.rels)' /\ p = Len(file.relr)'
  BY DEF Bound, R!UnknownType, R!EndRela, R!EndRelr, R!EndResolve, R!Go
<1>2. CASE R!UnknownType
  BY <1>1, <1>2 DEF Bound, R!UnknownType
<1>3. CASE R!EndRela
  <2>1. Worded(k - 1, 0, 0) /\ k > n /\ rpc' = "relr" /\ ri' = 1
    BY <1>3 DEF Bound, R!EndRela, R!rels, R!Go
  <2>2. Worded(n, 0, 0)
    <3>1. \A l \in 1 .. n : l <= k - 1 /\ l <= n
      BY <2>1
    <3> QED BY <2>1, <3>1 DEF Worded
  <2>3. Worded(n, 0, 0)' /\ ri' - 1 = 0
    BY <1>1, <2>1, <2>2, SameWords
  <2> QED BY <1>1, <2>1, <2>3 DEF Bound
<1>4. CASE R!EndRelr
  <2>1. Worded(n, 0, k - 1) /\ k > p /\ rpc' = "resolve" /\ ri' = 1
    BY <1>4 DEF Bound, R!EndRelr, R!relr, R!Go
  <2>2. Worded(n, 0, p)
    <3>1. \A a \in Place : PlainWord(a, k - 1) = PlainWord(a, p)
      <4>1. \A l \in 1 .. p : l <= k - 1 /\ l <= p
        BY <2>1
      <4> QED BY <4>1 DEF PlainWord
    <3> QED BY <2>1, <3>1 DEF Worded
  <2>3. Worded(n, 0, p)' /\ ri' - 1 = 0
    BY <1>1, <2>1, <2>2, SameWords
  <2> QED BY <1>1, <2>1, <2>3 DEF Bound
<1>5. CASE R!EndResolve
  <2>1. Worded(n, k - 1, p) /\ k > n /\ rpc' = "done"
    BY <1>5 DEF Bound, R!EndResolve, R!rels, R!Go
  <2>2. Worded(n, n, p)
    <3>1. \A l \in 1 .. n : l <= k - 1 /\ l <= n
      BY <2>1
    <3> QED BY <2>1, <3>1 DEF Worded
  <2>3. Worded(n, n, p)'
    BY <1>1, <2>2, SameWords
  <2> QED BY <1>1, <2>1, <2>3 DEF Bound
<1> QED BY <1>2, <1>3, <1>4, <1>5

\* The words are those of the file.
LEMMA BoundInit == BootInit => Bound
<1> SUFFICES ASSUME BootInit PROVE Bound
  OBVIOUS
<1>1. PICK b \in Binaries : R!InitWith(b.file, TRUE)
  BY DEF BootInit
<1>2. R!WellFormed(file) /\ mem = file.words /\ rpc = "rela" /\ ri = 1
  BY <1>1, BootAssumption DEF R!InitWith, R!SoRelocateAssumption
<1>3. mem = [a \in Place |-> mem[a]]
  BY <1>2, Formed
<1>4. Worded(0, 0, 0)
  <2>1. \A l \in 1 .. Len(file.rels) : ~(l <= 0) /\ l \in Nat
    BY <1>2, Formed
  <2>2. \A l \in 1 .. Len(file.relr) : ~(l <= 0)
    BY <1>2, Formed
  <2> QED BY <1>2, <2>1, <2>2 DEF Worded, PlainWord
<1>5. ri - 1 = 0
  BY <1>2
<1> QED BY <1>2, <1>3, <1>4, <1>5 DEF Bound

\* The three loops have handled the entries before their counters, and no others.
THEOREM BoundInvariant == BootSpec => []Bound
<1>1. ASSUME Bound, [BootNext]_bootVars PROVE Bound'
  <2>1. CASE R!Next
    BY <1>1, <2>1, RelocateBound, ResolveBound, PackedBound, EndsBound DEF R!Next
  <2>2. CASE UNCHANGED relocVars
    <3> PICK k, n, p \in Nat : k = ri /\ n = Len(file.rels) /\ p = Len(file.relr)
      BY <1>1, Formed DEF Bound
    <3>1. /\ UNCHANGED <<file, taint, mem, rpc, ri, where>> /\ R!WellFormed(file)
          /\ k \in Nat \ {0} /\ k - 1 \in Nat /\ 0 \in Nat
      BY <1>1, <2>2 DEF relocVars, Bound
    <3>2. /\ Worded(k - 1, 0, 0) => Worded(k - 1, 0, 0)'
          /\ Worded(n, 0, k - 1) => Worded(n, 0, k - 1)'
          /\ Worded(n, k - 1, p) => Worded(n, k - 1, p)'
          /\ Worded(n, n, p) => Worded(n, n, p)'
      BY <3>1, SameWords
    <3>3. After(k - 1)' = After(k - 1)
      BY <3>1 DEF After, R!Anchor
    <3> QED BY <1>1, <3>1, <3>2, <3>3 DEF Bound
  <2> QED BY <1>1, <2>1, <2>2
          DEF BootNext, bootVars, InitHeapStage, Checks, LoadStage, RelocateStage,
              FindVisibility, InstallHook, FindEntryPoint, EndLookups, FinalizeStage, Flush,
              SetTls, Initialise, FreeTemp, SessionStage, GameCreates, GameThread
<1> QED BY <1>1, BoundInit, PTL DEF BootSpec

\* so_resolve() takes the first entry, and the first module.
LEMMA FirstOne ==
  ASSUME NEW T \in SUBSET Nat, T # {}
  PROVE  R!First(T) \in T /\ \A l \in T : R!First(T) <= l
BY Least DEF R!First

\* After the last loop each word has its meaning.
LEMMA BoundRelocated == Bound => R!Relocated
<1> SUFFICES ASSUME Bound, rpc = "done" PROVE R!Relocated
  BY DEF R!Relocated
<1>1. /\ R!WellFormed(file) /\ Len(file.rels) \in Nat /\ Len(file.relr) \in Nat
      /\ Worded(Len(file.rels), Len(file.rels), Len(file.relr))
      /\ Word \in Nat \ {0} /\ Virtbase \in Nat
  BY Formed, BootAssumption DEF Bound, R!SoRelocateAssumption
<1>2. ASSUME NEW k \in 1 .. Len(file.rels)
      PROVE  LET r == file.rels[k] IN
               mem[r.at] = (IF R!Missing(r) THEN R!MissingValue(r) ELSE R!Meaning(r)) % Word
  <2> DEFINE r == file.rels[k]
  <2>1. mem[r.at] = FinalWord(r) /\ r.type # "other" /\ r \in R!Rela /\ r.at \in Place
    BY <1>1, Formed DEF Worded
  <2>2. r.type \in {"ABS64", "RELATIVE", "GLOB_DAT", "JUMP_SLOT"}
    BY <2>1 DEF R!Rela
  <2>3. file.words[r.at] % Word = file.words[r.at]
    <3>1. file.words[r.at] \in 0 .. Word - 1
      BY <1>1, <2>1, Formed
    <3> DEFINE w == file.words[r.at]
    <3> HIDE DEF w
    <3>2. w \in 0 .. Word - 1 => w % Word = w
      BY <1>1, SMTT(30)
    <3> QED BY <3>1, <3>2 DEF w
  <2> HIDE DEF r
  <2>4. mem[r.at] = (IF R!Missing(r) THEN R!MissingValue(r) ELSE R!Meaning(r)) % Word
    <3>1. CASE r.type = "RELATIVE" \/ ~R!Imported(r)
      BY <2>1, <2>2, <3>1 DEF FinalWord, RelaWord, R!Missing, R!Meaning, R!Resolvable
    <3>2. CASE r.type # "RELATIVE" /\ R!Imported(r) /\ R!AddressOf(r.sym) # 0
      BY <2>1, <2>2, <3>2 DEF FinalWord, R!Missing, R!Meaning, R!Resolvable
    <3>3. CASE r.type # "RELATIVE" /\ R!Imported(r) /\ R!AddressOf(r.sym) = 0
      <4>1. R!Resolvable(r) /\ R!Missing(r)
        BY <2>2, <3>3 DEF R!Resolvable, R!Missing
      <4>2. mem[r.at] = IF taint THEN r.at % Word ELSE RelaWord(r)
        BY <2>1, <3>3, <4>1 DEF FinalWord
      <4>3. RelaWord(r) = IF r.type = "ABS64" THEN r.addend % Word ELSE file.words[r.at]
        BY <3>3 DEF RelaWord
      <4>4. CASE taint
        BY <4>1, <4>2, <4>4 DEF R!MissingValue
      <4>5. CASE ~taint /\ r.type = "ABS64"
        BY <4>1, <4>2, <4>3, <4>5 DEF R!MissingValue
      <4>6. CASE ~taint /\ r.type # "ABS64"
        BY <2>3, <4>1, <4>2, <4>3, <4>6 DEF R!MissingValue
      <4> QED BY <4>4, <4>5, <4>6
    <3> QED BY <3>1, <3>2, <3>3
  <2> QED BY <2>4 DEF r
<1>3. ASSUME NEW a \in R!Packed(file)
      PROVE  mem[a] = (file.words[a] + Virtbase) % Word
  <2>1. PICK l \in 1 .. Len(file.relr) : a \in R!Described(file, l)
    BY DEF R!Packed
  <2>2. a \in Place
    BY <1>1, <2>1 DEF R!WellFormed
  <2>3. \A k \in 1 .. Len(file.rels) : file.rels[k].at # a
    BY <1>1, Formed
  <2>4. l <= Len(file.relr)
    BY <1>1
  <2> QED BY <1>1, <2>1, <2>2, <2>3, <2>4 DEF Worded, PlainWord
<1>4. ASSUME NEW a \in Place \ R!Packed(file),
             \A k \in 1 .. Len(file.rels) : file.rels[k].at # a
      PROVE  mem[a] = file.words[a]
  BY <1>1, <1>4 DEF Worded, PlainWord, R!Packed
<1> QED BY <1>2, <1>3, <1>4 DEF R!Relocated, R!rels

\* After the last loop imports are bound by the order of the tables.
LEMMA BoundImports == Bound => R!ImportsBound
<1> SUFFICES ASSUME Bound, rpc = "done", NEW k \in 1 .. Len(file.rels),
                    file.rels[k].type # "RELATIVE", R!Imported(file.rels[k])
             PROVE  LET r == file.rels[k]
                        entries == {n \in 1 .. Len(Imports) : Imports[n].symbol = r.sym}
                        exporters == {e \in UNION {{n} \X (1 .. Len(Modules[n])) : n \in 1 .. Len(Modules)} :
                                      LET s == Modules[e[1]][e[2]] IN
                                        s.symbol = r.sym /\ s.defined /\ ~s.local}
                    IN  /\ \A n \in entries :
                             (\A l \in entries : n <= l) /\ Imports[n].func # 0 =>
                               mem[r.at] = (Imports[n].func + r.addend) % Word
                        /\ entries = {} /\ exporters # {} =>
                             \E e \in exporters :
                               /\ \A d \in exporters : e[1] <= d[1]
                               /\ mem[r.at] = (Modules[e[1]][e[2]].address + r.addend) % Word
  BY DEF R!ImportsBound, R!rels
<1> DEFINE r == file.rels[k]
           s == r.sym
           entries == {n \in 1 .. Len(Imports) : Imports[n].symbol = s}
           other == {n \in 1 .. Len(Modules) : R!Export(Modules[n], s) # 0}
           found(n) == {l \in 1 .. Len(Modules[n]) : /\ Modules[n][l].symbol = s
                                                    /\ Modules[n][l].defined
                                                    /\ ~Modules[n][l].local}
           exporters == {e \in UNION {{n} \X (1 .. Len(Modules[n])) : n \in 1 .. Len(Modules)} :
                         LET t == Modules[e[1]][e[2]] IN
                           t.symbol = s /\ t.defined /\ ~t.local}
<1>1. R!AddressOf(s) # 0 => mem[r.at] = (R!AddressOf(s) + r.addend) % Word
  <2>1. mem[r.at] = FinalWord(r) /\ r.type # "other" /\ r \in R!Rela
    BY Formed DEF Bound, Worded
  <2>2. R!Resolvable(r)
    BY <2>1 DEF R!Resolvable, R!Rela
  <2> QED BY <2>1, <2>2 DEF FinalWord
<1>2. ASSUME NEW n \in entries, \A l \in entries : n <= l, Imports[n].func # 0
      PROVE  mem[r.at] = (Imports[n].func + r.addend) % Word
  <2>1. entries \in SUBSET Nat /\ entries # {}
    BY <1>2
  <2>2. R!First(entries) = n
    <3> HIDE DEF entries
    <3>1. R!First(entries) \in entries /\ \A l \in entries : R!First(entries) <= l
      BY <2>1, FirstOne
    <3> DEFINE f == R!First(entries)
    <3>2. f \in Nat /\ n \in Nat
      BY <1>2, <2>1, <3>1
    <3>3. f <= n /\ n <= f
      BY <1>2, <3>1
    <3> HIDE DEF f
    <3>4. f = n
      BY <3>2, <3>3
    <3> QED BY <3>4 DEF f
  <2>3. R!AddressOf(s) = Imports[n].func
    BY <2>1, <2>2 DEF R!AddressOf
  <2> QED BY <1>1, <1>2, <2>3
<1>3. ASSUME NEW n \in 1 .. Len(Modules), found(n) # {}
      PROVE  \E l \in found(n) : /\ R!Export(Modules[n], s) = Modules[n][l].address
                                 /\ Modules[n][l].address # 0
  <2>1. found(n) \in SUBSET Nat
    OBVIOUS
  <2>2. R!First(found(n)) \in found(n)
    <3> HIDE DEF found
    <3> QED BY <1>3, <2>1, FirstOne
  <2>3. R!Export(Modules[n], s) = Modules[n][R!First(found(n))].address
    BY <1>3 DEF R!Export
  <2>4. Modules[n][R!First(found(n))].address # 0
    <3>1. R!First(found(n)) \in 1 .. Len(Modules[n])
      BY <2>2
    <3> DEFINE l == R!First(found(n))
    <3> HIDE DEF l
    <3>2. Modules[n][l].address \in 1 .. Word - 1 /\ Word \in Nat
      BY <3>1, BootAssumption DEF R!SoRelocateAssumption, l
    <3>3. Modules[n][l].address # 0
      BY <3>2
    <3> QED BY <3>3 DEF l
  <2> QED BY <2>2, <2>3, <2>4
<1>4. ASSUME NEW n \in 1 .. Len(Modules), found(n) = {} PROVE R!Export(Modules[n], s) = 0
  BY <1>4 DEF R!Export
<1>5. ASSUME entries = {}, exporters # {}
      PROVE  \E e \in exporters :
               /\ \A d \in exporters : e[1] <= d[1]
               /\ mem[r.at] = (Modules[e[1]][e[2]].address + r.addend) % Word
  <2>1. \A e \in exporters : e[1] \in 1 .. Len(Modules) /\ e[2] \in found(e[1])
    OBVIOUS
  <2>2. \A n \in 1 .. Len(Modules) : \A l \in found(n) : <<n, l>> \in exporters
    OBVIOUS
  <2> HIDE DEF exporters
  <2>3. \A e \in exporters : e[1] \in other
    <3>1. SUFFICES ASSUME NEW e \in exporters PROVE e[1] \in other
      OBVIOUS
    <3>2. e[1] \in 1 .. Len(Modules) /\ found(e[1]) # {}
      BY <2>1
    <3> HIDE DEF found
    <3> QED BY <1>3, <3>2
  <2>4. other \in SUBSET Nat /\ other # {}
    <3>1. other \in SUBSET Nat
      OBVIOUS
    <3> HIDE DEF other
    <3> QED BY <1>5, <2>3, <3>1
  <2> DEFINE n == R!First(other)
  <2>5. n \in other /\ \A l \in other : n <= l
    <3> HIDE DEF other
    <3> QED BY <2>4, FirstOne
  <2>6. R!AddressOf(s) = R!Export(Modules[n], s) /\ R!AddressOf(s) # 0
    BY <1>5, <2>4, <2>5 DEF R!AddressOf
  <2>7. n \in 1 .. Len(Modules)
    BY <2>5
  <2> HIDE DEF n
  <2>8. PICK l \in found(n) : R!Export(Modules[n], s) = Modules[n][l].address
    <3> HIDE DEF found
    <3> QED BY <1>3, <1>4, <2>6, <2>7
  <2>9. <<n, l>> \in exporters
    BY <2>2, <2>7, <2>8
  <2>10. \A d \in exporters : <<n, l>>[1] <= d[1]
    BY <2>3, <2>5
  <2>11. mem[r.at] = (Modules[<<n, l>>[1]][<<n, l>>[2]].address + r.addend) % Word
    BY <1>1, <2>6, <2>8
  <2> QED BY <2>9, <2>10, <2>11
<1> QED BY <1>2, <1>5

\* Relocation and resolution give every word its meaning, for every binary, import
\* table and list of modules.
THEOREM WordsCorrect == BootSpec => []WordsBound
<1>1. Bound => WordsBound
  BY BoundRelocated, BoundImports DEF WordsBound, R!WordsBound
<1> QED BY <1>1, BoundInvariant, PTL
-----------------------------------------------------------------------------
(***************************************************************************)
(* The types.                                                              *)
(***************************************************************************)
\* Until so_finalize() starts its passes, pg is where they begin.
ImageTyped ==
  TypeOK /\ (pc \in {"heap", "open", "check", "copy", "loaded"} => pg = 0)

\* so_load() keeps to the headers, and reserves a number of whole pages.
LEMMA LoadTyped == ASSUME ImageTyped, Zoned, InitHeap \/ Load PROVE ImageTyped'
<1>1. /\ pc \in {"heap", "open", "check", "copy"} /\ pg = 0
      /\ UNCHANGED <<heap, phdr, want_x, pg>>
      /\ pc' \in {"open", "check", "copy", "loaded", "failed"}
  BY DEF ImageTyped, InitHeap, Load, Open, OpenFails, CheckFails, ZoneFaults, Reserve,
         CopySegment, NoSymbols, Register, Fail, fileVars, pageVars, heapVars
<1>2. phdr \in Headers /\ heap \in Heaps /\ Len(phdr) \in Nat
  <2>1. phdr \in Headers /\ heap \in Heaps
    BY DEF Zoned
  <2> QED BY <2>1, SoImageAssumption
<1>3. Extent \in Nat /\ Align(Extent) \in Nat
  BY <1>2, ExtentNat, AlignPages
<1>4. newlibEnd' \in Nat /\ base' \in Nat /\ limit' \in 0 .. Word - 1
  <2>1. CASE InitHeap /\ pc' = "open"
    <3>1. /\ newlibEnd' = heap.addr + Newlib /\ base' = Align(newlibEnd')
          /\ limit' = (HeapEnd - base') % Word
      BY <2>1 DEF InitHeap
    <3> QED BY <1>2, <3>1, SplitFits
  <2>2. CASE UNCHANGED heapVars
    BY <2>2 DEF heapVars, ImageTyped, TypeOK
  <2> QED BY <2>1, <2>2 DEF InitHeap, Load, Open, OpenFails, CheckFails, ZoneFaults, Reserve,
                            CopySegment, NoSymbols, Register, Fail, heapVars
<1>5. result' \in -4 .. 0 /\ load_size' \in Nat
  BY <1>3 DEF ImageTyped, TypeOK, InitHeap, Load, Open, OpenFails, CheckFails, ZoneFaults,
              Reserve, CopySegment, NoSymbols, Register, Fail, zoneVars
<1>6. so_base' \in BOOLEAN /\ load_memrv' \in BOOLEAN /\ listed' \in BOOLEAN
  BY DEF ImageTyped, TypeOK, InitHeap, Load, Open, OpenFails, CheckFails, ZoneFaults,
         Reserve, CopySegment, NoSymbols, Register, Fail, Undo, fileVars
<1>7. next' \in 1 .. Len(phdr) + 1 /\ DOMAIN zone' \in SUBSET Nat
  <2>1. CASE Reserve
    <3>1. next' = 1 /\ zone' = [a \in 0 .. Align(Extent) - 1 |-> Zero]
      BY <2>1 DEF Reserve
    <3> QED BY <1>2, <1>3, <3>1
  <2>2. CASE CopySegment
    <3>1. next <= Len(phdr) /\ next' = next + 1 /\ DOMAIN zone' = DOMAIN zone
      BY <2>2 DEF CopySegment
    <3> QED BY <1>2, <3>1 DEF ImageTyped, TypeOK
  <2>3. CASE UNCHANGED <<next, zone>>
    BY <2>3 DEF ImageTyped, TypeOK
  <2> QED BY <2>1, <2>2, <2>3 DEF InitHeap, Load, Open, OpenFails, CheckFails, ZoneFaults,
                                  NoSymbols, Register, Fail, zoneVars
<1>8. pg' \in 0 .. NumPages'
  <2>1. NumPages' \in Nat
    BY <1>5, PageOf DEF NumPages
  <2> QED BY <1>1, <2>1
<1> QED BY <1>1, <1>2, <1>4, <1>5, <1>6, <1>7, <1>8 DEF ImageTyped, TypeOK

\* No pass of so_finalize() leaves the image.
LEMMA PassTyped == ASSUME ImageTyped, Finalize PROVE ImageTyped'
<1>1. /\ UNCHANGED <<heapVars, result, fileVars, zoneVars>> /\ NumPages' = NumPages
      /\ pc' \in {"pages", "ready", "failed"}
  BY DEF Finalize, Map, SkipPage, SetPermission, EndPass, Fatal, zoneVars, NumPages
<1>2. NumPages \in Nat /\ pg \in 0 .. NumPages /\ want_x \in BOOLEAN
  BY PagesAreNat DEF ImageTyped, TypeOK
<1>3. pg' \in 0 .. NumPages /\ want_x' \in BOOLEAN
  <2>1. CASE Map \/ EndPass \/ Fatal
    <3>1. pg' = 0 \/ pg' = pg
      BY <2>1 DEF Map, EndPass, Fatal, pageVars
    <3>2. want_x' \in BOOLEAN
      BY <1>2, <2>1 DEF Map, EndPass, Fatal, pageVars
    <3> QED BY <1>2, <3>1, <3>2
  <2>2. CASE SkipPage
    BY <1>2, <2>2 DEF SkipPage, Page
  <2>3. CASE SetPermission
    <3>1. /\ pg \in Page /\ want_x' = want_x /\ pg \in Nat /\ pg <= NumPages - 1
          /\ pg' = pg + Cardinality(RunOf(pg))
      BY <1>2, <2>3 DEF SetPermission, Page
    <3>2. RunOf(pg) \subseteq pg .. NumPages - 1
      BY <1>2, <3>1 DEF RunOf, Page
    <3>3. /\ IsFiniteSet(pg .. NumPages - 1)
          /\ Cardinality(pg .. NumPages - 1) = NumPages - pg
      <4>1. /\ IsFiniteSet(pg .. NumPages - 1)
            /\ Cardinality(pg .. NumPages - 1)
                 = IF pg > NumPages - 1 THEN 0 ELSE (NumPages - 1) - pg + 1
        BY <1>2, FS_Interval
      <4> QED BY <1>2, <3>1, <4>1
    <3> DEFINE c == Cardinality(RunOf(pg))
    <3>4. c \in Nat /\ c <= NumPages - pg
      BY <3>2, <3>3, FS_Subset, FS_CardinalityType
    <3> HIDE DEF c
    <3>5. pg + c \in 0 .. NumPages
      BY <1>2, <3>1, <3>4
    <3> QED BY <1>2, <3>1, <3>5 DEF c
  <2> QED BY <2>1, <2>2, <2>3 DEF Finalize
<1> QED BY <1>1, <1>3 DEF ImageTyped, TypeOK, heapVars, fileVars, zoneVars

\* The numbers of the heap, the file and the pages are in their ranges.
THEOREM ImageTypes == BootSpec => []ImageTyped
<1>1. BootInit => ImageTyped
  <2> SUFFICES ASSUME BootInit PROVE ImageTyped
    OBVIOUS
  <2>1. /\ heap \in Heaps /\ phdr \in Headers
        /\ newlibEnd = 0 /\ base = 0 /\ limit = 0 /\ pc = "heap" /\ result = 0
        /\ so_base = FALSE /\ load_memrv = FALSE /\ listed = FALSE
        /\ load_size = 0 /\ next = 1 /\ zone = <<>> /\ want_x = TRUE /\ pg = 0
    BY BootAssumption DEF BootInit, InitWith
  <2>2. Word - 1 \in Nat /\ Len(phdr) \in Nat
    BY <2>1, SoImageAssumption
  <2>3. NumPages \in Nat
    BY <2>1, PagesAreNat
  <2>4. DOMAIN zone \in SUBSET Nat
    BY <2>1
  <2>5. limit \in 0 .. Word - 1 /\ next \in 1 .. Len(phdr) + 1 /\ pg \in 0 .. NumPages
    BY <2>1, <2>2, <2>3
  <2>6. /\ newlibEnd \in Nat /\ base \in Nat /\ load_size \in Nat /\ result \in -4 .. 0
        /\ heap \in Heaps /\ pc = "heap" /\ pg = 0
    BY <2>1
  <2>7. so_base \in BOOLEAN /\ load_memrv \in BOOLEAN /\ listed \in BOOLEAN /\ want_x \in BOOLEAN
    BY <2>1
  <2> QED BY <2>4, <2>5, <2>6, <2>7 DEF ImageTyped, TypeOK
<1>2. ASSUME ImageTyped, Zoned, Staged, [BootNext]_bootVars PROVE ImageTyped'
  <2>1. CASE /\ UNCHANGED <<heapVars, pc, result, phdr, load_memrv, listed, zoneVars, pageVars>>
             /\ so_base' \in BOOLEAN
    BY <1>2, <2>1 DEF ImageTyped, TypeOK, heapVars, zoneVars, pageVars, NumPages
  <2>2. CASE UNCHANGED imageVars
    BY <1>2, <2>1, <2>2 DEF imageVars, fileVars, ImageTyped, TypeOK
  <2>3. CASE FreeTemp
    BY <2>1, <2>3 DEF FreeTemp
  <2> QED BY <1>2, <2>2, <2>3, LoadTyped, PassTyped
          DEF BootNext, bootVars, InitHeapStage, Checks, LoadStage, RelocateStage,
              FindVisibility, InstallHook, FindEntryPoint, EndLookups, FinalizeStage, Flush,
              SetTls, Initialise, SessionStage, GameCreates, GameThread
<1> QED BY <1>1, <1>2, ZonedInvariant, StagedInvariant, PTL DEF BootSpec

\* An import is found at an address, or not at all.
LEMMA AddressNat == ASSUME NEW s PROVE R!AddressOf(s) \in Int
<1> DEFINE table == {k \in 1 .. Len(Imports) : Imports[k].symbol = s}
           other == {k \in 1 .. Len(Modules) : R!Export(Modules[k], s) # 0}
<1>1. CASE table # {}
  <2>1. R!First(table) \in table
    <3>1. table \in SUBSET Nat
      OBVIOUS
    <3> HIDE DEF table
    <3> QED BY <1>1, <3>1, FirstOne
  <2>2. R!AddressOf(s) = Imports[R!First(table)].func
    BY <1>1 DEF R!AddressOf
  <2>3. R!First(table) \in 1 .. Len(Imports)
    BY <2>1
  <2> QED BY <2>2, <2>3, BootAssumption DEF R!SoRelocateAssumption
<1>2. CASE table = {} /\ other # {}
  <2> DEFINE n == R!First(other)
             found == {l \in 1 .. Len(Modules[n]) : /\ Modules[n][l].symbol = s
                                                   /\ Modules[n][l].defined
                                                   /\ ~Modules[n][l].local}
  <2>1. n \in 1 .. Len(Modules)
    <3>1. other \in SUBSET Nat
      OBVIOUS
    <3>2. R!First(other) \in other
      <4> HIDE DEF other
      <4> QED BY <1>2, <3>1, FirstOne
    <3> QED BY <3>2
  <2>2. R!AddressOf(s) = R!Export(Modules[n], s)
    BY <1>2 DEF R!AddressOf
  <2> HIDE DEF n
  <2>3. CASE found = {}
    BY <2>2, <2>3 DEF R!Export
  <2>4. CASE found # {}
    <3>1. R!First(found) \in found
      <4>1. found \in SUBSET Nat
        OBVIOUS
      <4> HIDE DEF found
      <4> QED BY <2>4, <4>1, FirstOne
    <3>2. R!Export(Modules[n], s) = Modules[n][R!First(found)].address
      BY <2>4 DEF R!Export
    <3>3. R!First(found) \in 1 .. Len(Modules[n])
      BY <3>1
    <3> HIDE DEF found
    <3>4. /\ Modules[n][R!First(found)].address \in 1 .. Word - 1
          /\ Word \in Nat
      BY <2>1, <3>3, BootAssumption DEF R!SoRelocateAssumption
    <3> QED BY <2>2, <3>2, <3>4
  <2> QED BY <2>3, <2>4
<1>3. CASE table = {} /\ other = {}
  BY <1>3 DEF R!AddressOf
<1> QED BY <1>1, <1>2, <1>3

\* A word is stored as the 64 bits it has.
LEMMA StoreTyped ==
  ASSUME mem \in [Place -> 0 .. Word - 1], NEW a \in Place, NEW v \in Int, R!Store(a, v)
  PROVE  mem' \in [Place -> 0 .. Word - 1]
<1>1. v % Word \in 0 .. Word - 1
  BY BootAssumption DEF R!SoRelocateAssumption
<1> QED BY <1>1 DEF R!Store

\* What so_relocate() and so_resolve() store are words, and they store them in the zone.
LEMMA WordsTyped ==
  ASSUME R!TypeOK, Bound, R!Relocate \/ R!Resolve
  PROVE  mem' \in [Place -> 0 .. Word - 1]
<1> PICK k \in Nat : k = ri
  BY DEF Bound
<1> DEFINE r == file.rels[k]
<1>1. k \in 1 .. Len(file.rels) /\ mem \in [Place -> 0 .. Word - 1]
  BY Formed DEF Bound, R!TypeOK, R!Relocate, R!Resolve, R!rels
<1>2. r \in R!Rela /\ r.at \in Place /\ r.addend \in Int /\ r.sym \in R!Symbol
  BY <1>1, Formed DEF Bound, R!Rela
<1>3. Virtbase \in Int /\ r.at \in Int /\ R!AddressOf(r.sym) \in Int
      /\ (~R!Imported(r) => Own[r.sym] \in Int)
  <2>1. R!AddressOf(r.sym) \in Int
    BY AddressNat
  <2> HIDE DEF r
  <2>2. Virtbase \in Int /\ r.at \in Int
    <3>1. Word \in Nat /\ Virtbase \in 0 .. Word - 1 /\ Place \subseteq Nat
      BY BootAssumption DEF R!SoRelocateAssumption
    <3>2. Virtbase \in Int
      BY <3>1
    <3>3. r.at \in Nat
      BY <1>2, <3>1
    <3>4. \A n \in Nat : n \in Int
      OBVIOUS
    <3> QED BY <3>2, <3>3, <3>4
  <2>3. ~R!Imported(r) => Own[r.sym] \in Int
    BY <1>2, BootAssumption DEF R!SoRelocateAssumption, R!Imported
  <2> QED BY <2>1, <2>2, <2>3
<1>4. \/ \E v \in Int : R!Store(r.at, v)
      \/ mem' = mem
  <2>1. CASE R!Relocate
    <3>1. \/ R!Store(r.at, Virtbase + r.addend)
          \/ ~R!Imported(r) /\ R!Store(r.at, Virtbase + Own[r.sym] + r.addend)
          \/ R!Store(r.at, r.addend)
          \/ mem' = mem
      BY <2>1 DEF R!Relocate, R!rels
    <3> HIDE DEF r
    <3>2. /\ Virtbase + r.addend \in Int
          /\ ~R!Imported(r) => Virtbase + Own[r.sym] + r.addend \in Int
      BY <1>2, <1>3
    <3> QED BY <1>2, <3>1, <3>2
  <2>2. CASE R!Resolve
    <3>1. \/ R!Store(r.at, R!AddressOf(r.sym) + r.addend)
          \/ R!Store(r.at, r.at)
          \/ mem' = mem
      BY <2>2 DEF R!Resolve, R!rels
    <3> HIDE DEF r
    <3>2. R!AddressOf(r.sym) + r.addend \in Int
      BY <1>2, <1>3
    <3> QED BY <1>3, <3>1, <3>2
  <2> QED BY <2>1, <2>2
<1> HIDE DEF r
<1> QED BY <1>1, <1>2, <1>4, StoreTyped

\* Entries are taken in turn, and where follows them.
LEMMA RelocTyped == ASSUME R!TypeOK, Bound, R!Next PROVE R!TypeOK'
<1> PICK k, n, p \in Nat : k = ri /\ n = Len(file.rels) /\ p = Len(file.relr)
  BY Formed DEF Bound
<1>1. /\ taint \in BOOLEAN /\ mem \in [Place -> 0 .. Word - 1] /\ where \in Nat
      /\ rpc = "relr" => k \in 1 .. p + 1
      /\ rpc # "relr" => k \in 1 .. n + 1
      /\ UNCHANGED <<file, taint>> /\ n = Len(file.rels)' /\ p = Len(file.relr)'
  BY DEF R!TypeOK, R!rels, R!relr, R!Next, R!Relocate, R!UnknownType, R!EndRela, R!Address,
         R!Bitmap, R!EndRelr, R!Resolve, R!EndResolve
<1>2. /\ rpc' \in {"rela", "relr", "resolve", "done", "failed"}
      /\ rpc' = "relr" => ri' \in 1 .. p + 1
      /\ rpc' # "relr" => ri' \in 1 .. n + 1
  BY <1>1 DEF R!TypeOK, R!rels, R!relr, R!Next, R!Relocate, R!UnknownType, R!EndRela,
              R!Address, R!Bitmap, R!EndRelr, R!Resolve, R!EndResolve, R!Continue, R!Go
<1>3. where' \in Nat
  <2>1. CASE R!Address
    <3>1. file.relr[k].at \in Nat
      <4>1. k \in 1 .. Len(file.relr) /\ file.relr[k].even
        BY <1>1, <2>1 DEF R!Address, R!relr
      <4>2. file.relr[k] \in R!Entry
        BY <4>1, Formed DEF Bound
      <4> QED BY <4>1, <4>2, BootAssumption DEF R!Entry, R!SoRelocateAssumption
    <3> QED BY <2>1, <3>1 DEF R!Address, R!relr
  <2>2. CASE R!Bitmap
    BY <1>1, <2>2, BootAssumption DEF R!Bitmap, R!Skip, R!SoRelocateAssumption
  <2>3. CASE ~R!Address /\ ~R!Bitmap
    BY <1>1, <2>3 DEF R!Next, R!Relocate, R!UnknownType, R!EndRela, R!EndRelr, R!Resolve,
                      R!EndResolve
  <2> QED BY <2>1, <2>2, <2>3
<1>4. mem' \in [Place -> 0 .. Word - 1]
  <2>1. CASE R!Relocate \/ R!Resolve
    BY <2>1, WordsTyped
  <2>2. CASE R!Address \/ R!Bitmap
    <3>1. PICK places : R!Add(places)
      BY <2>2 DEF R!Address, R!Bitmap
    <3>2. ASSUME NEW a \in Place PROVE (mem[a] + Virtbase) % Word \in 0 .. Word - 1
      <4>1. mem[a] + Virtbase \in Int /\ Word \in Nat \ {0}
        BY <1>1, BootAssumption DEF R!SoRelocateAssumption
      <4> QED BY <4>1
    <3> QED BY <1>1, <3>1, <3>2 DEF R!Add
  <2>3. CASE UNCHANGED mem
    BY <1>1, <2>3
  <2> QED BY <2>1, <2>2, <2>3 DEF R!Next, R!UnknownType, R!EndRela, R!EndRelr, R!EndResolve
<1>5. ri' \in 1 .. (IF rpc' = "relr" THEN p ELSE n) + 1
  BY <1>2
<1> QED BY <1>1, <1>2, <1>3, <1>4, <1>5 DEF R!TypeOK, R!rels, R!relr

\* No relocation gives a word more than 64 bits or has one outside the zone.
THEOREM RelocTypes == BootSpec => []R!TypeOK
<1>1. BootInit => R!TypeOK
  <2> SUFFICES ASSUME BootInit PROVE R!TypeOK
    OBVIOUS
  <2>1. /\ taint = TRUE /\ mem = file.words /\ rpc = "rela" /\ ri = 1 /\ where = 0
    BY DEF BootInit, R!InitWith
  <2>2. /\ Len(file.rels) \in Nat /\ file.words \in [Place -> 0 .. Word - 1]
    BY BoundInit, Formed DEF Bound
  <2> QED BY <2>1, <2>2 DEF R!TypeOK, R!rels, R!relr
<1>2. ASSUME R!TypeOK, Bound, [BootNext]_bootVars PROVE R!TypeOK'
  <2>1. CASE R!Next
    BY <1>2, <2>1, RelocTyped
  <2>2. CASE UNCHANGED relocVars
    BY <1>2, <2>2 DEF relocVars, R!TypeOK, R!rels, R!relr
  <2> QED BY <1>2, <2>1, <2>2
          DEF BootNext, bootVars, InitHeapStage, Checks, LoadStage, RelocateStage,
              FindVisibility, InstallHook, FindEntryPoint, EndLookups, FinalizeStage, Flush,
              SetTls, Initialise, FreeTemp, SessionStage, GameCreates, GameThread
<1> QED BY <1>1, <1>2, BoundInvariant, PTL DEF BootSpec

\* The handles of the session are its own or NULL.
LEMMA SessionTyped == ASSUME S!TypeOK, S!Next PROVE S!TypeOK'
<1> USE DEF S!TypeOK, S!Handle, S!alVars, S!gameVars
<1>1. CASE S!InitOpenAL
  BY <1>1 DEF S!InitOpenAL, S!Abandoned, S!Activates
<1>2. CASE S!EglInit
  BY <1>2 DEF S!EglInit
<1>3. CASE S!MusicInit
  BY <1>3 DEF S!MusicInit
<1>4. CASE S!EndLoop
  BY <1>4 DEF S!EndLoop
<1>5. CASE S!MusicDeinit
  BY <1>5 DEF S!MusicDeinit
<1>6. CASE S!ShutdownAudio
  BY <1>6 DEF S!ShutdownAudio
<1>7. CASE S!EglDeinit
  BY <1>7 DEF S!EglDeinit
<1>8. CASE S!DestroyContext
  BY <1>8 DEF S!DestroyContext, S!Free
<1>9. CASE S!CloseDevice
  BY <1>9 DEF S!CloseDevice, S!Free, S!Kept
<1>10. CASE S!Exit
  BY <1>10 DEF S!Exit, S!Launched
<1>11. CASE S!GameOpens
  BY <1>11 DEF S!GameOpens, S!OpenDevice, S!CreateContext
<1>12. CASE S!GameMakesCurrent
  BY <1>12 DEF S!GameMakesCurrent
<1>13. CASE S!GameStartsAudio
  BY <1>13 DEF S!GameStartsAudio
<1>14. CASE S!GameFrees
  BY <1>14 DEF S!GameFrees, S!Shared, S!Free
<1> QED BY <1>1, <1>2, <1>3, <1>4, <1>5, <1>6, <1>7, <1>8, <1>9, <1>10, <1>11, <1>12, <1>13,
           <1>14
        DEF S!Next, S!Main, S!Game

\* main() counts what it hooks, looks up and initialises.
Counts == step \in Nat

\* In the session, and where main() counts its steps.
THEOREM MainTypes == BootSpec => [](S!TypeOK /\ Counts)
<1>1. BootInit => S!TypeOK /\ Counts
  <2> SUFFICES ASSUME BootInit PROVE S!TypeOK /\ Counts
    OBVIOUS
  <2>1. S!Init /\ step = 1
    BY DEF BootInit
  <2>2. held \subseteq {"device", "context"} \X S!Handle
    BY <2>1 DEF S!Init
  <2> QED BY <2>1, <2>2 DEF S!Init, S!TypeOK, S!Handle, Counts
<1>2. ASSUME S!TypeOK, [BootNext]_bootVars PROVE S!TypeOK'
  <2>1. CASE SessionStage
    BY <1>2, <2>1, SessionTyped DEF SessionStage
  <2>2. CASE UNCHANGED sessionVars
    BY <1>2, <2>2 DEF sessionVars, S!TypeOK
  <2> QED BY <1>2, <2>1, <2>2
          DEF BootNext, bootVars, InitHeapStage, Checks, LoadStage, RelocateStage,
              FindVisibility, InstallHook, FindEntryPoint, EndLookups, FinalizeStage, Flush,
              SetTls, Initialise, FreeTemp, GameCreates, GameThread
<1>3. ASSUME Counts, [BootNext]_bootVars PROVE Counts'
  <2>1. step' \in {1, step, step + 1}
    BY <1>3
    DEF BootNext, bootVars, InitHeapStage, Checks, LoadStage, RelocateStage, FindVisibility,
        InstallHook, FindEntryPoint, Find, EndLookups, FinalizeStage, Flush, SetTls,
        Initialise, FreeTemp, SessionStage, GameCreates, GameThread, Proceed, End, Stay
  <2> QED BY <1>3, <2>1 DEF Counts
<1> QED BY <1>1, <1>2, <1>3, PTL DEF BootSpec

\* The state of main(), of the image, of its words, of the session and of the threads
\* is always of the types it should have, for every binary, heap and number of threads:
\* the limit and the words are within 64 bits, and pages within the image.
THEOREM BootTypeCorrect == BootSpec => []BootTypeOK
<1>1. ASSUME ImageTyped, R!TypeOK, S!TypeOK, Counts, Staged, Records, Hooking
      PROVE  BootTypeOK
  <2>1. {"heap", "checks", "load", "relocate", "hooks", "entries", "finalize", "flush",
         "tls", "init", "free", "session"} \subseteq ElementsOf(Order)
    <3>1. Len(Order) = 12
      BY DEF Order
    <3>2. \A k \in 1 .. 12 : Order[k] \in ElementsOf(Order)
      BY <3>1 DEF ElementsOf
    <3>3. /\ Order[1] = "heap" /\ Order[2] = "checks" /\ Order[3] = "load"
          /\ Order[4] = "relocate" /\ Order[5] = "hooks" /\ Order[6] = "entries"
          /\ Order[7] = "finalize" /\ Order[8] = "flush" /\ Order[9] = "tls"
          /\ Order[10] = "init" /\ Order[11] = "free" /\ Order[12] = "session"
      BY DEF Order
    <3> QED BY <3>2, <3>3
  <2>2. stage \in ElementsOf(Order) \cup {"fatal", "exited"}
    BY <1>1, <2>1 DEF Staged, Late
  <2> QED BY <1>1, <2>2 DEF BootTypeOK, ImageTyped, Records, Hooking, Counts
<1> QED BY <1>1, ImageTypes, RelocTypes, MainTypes, StagedInvariant, RecordsInvariant,
           HookingInvariant, PTL

-----------------------------------------------------------------------------
(***************************************************************************)
(* The parts of main().                                                    *)
(***************************************************************************)
\* main() relocates and resolves as SoRelocate specifies, for one of the binaries:
\* nothing else that it or the game does changes the words before they are bound.
THEOREM RelocatesAs == BootSpec => R!Spec
<1>1. BootInit => R!Init
  <2> SUFFICES ASSUME BootInit PROVE R!Init
    OBVIOUS
  <2>1. PICK b \in Binaries : R!InitWith(b.file, TRUE)
    BY DEF BootInit
  <2> QED BY <2>1 DEF R!Init
<1>2. [BootNext]_bootVars => [R!Next]_(R!vars)
  BY DEF R!vars, relocVars, BootNext, bootVars, InitHeapStage, Checks, LoadStage,
         RelocateStage, FindVisibility, InstallHook, FindEntryPoint, EndLookups, FinalizeStage,
         Flush, SetTls, Initialise, FreeTemp, SessionStage, GameCreates, GameThread
<1> QED BY <1>1, <1>2, PTL DEF BootSpec, R!Spec

\* The session of main() is one that Session specifies, whatever the threads of the
\* game do meanwhile.
THEOREM RunsSession == BootSpec => S!Spec
<1>1. BootInit => S!Init
  BY DEF BootInit
<1>2. [BootNext]_bootVars => [S!Next]_(S!vars)
  BY DEF S!vars, S!alVars, S!gameVars, sessionVars, BootNext, bootVars, InitHeapStage, Checks,
         LoadStage, RelocateStage, FindVisibility, InstallHook, FindEntryPoint, EndLookups,
         FinalizeStage, Flush, SetTls, Initialise, FreeTemp, SessionStage, GameCreates,
         GameThread
<1> QED BY <1>1, <1>2, PTL DEF BootSpec, S!Spec
=============================================================================
