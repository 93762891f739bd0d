# Verification of swordigo_nx

swordigo_nx runs the Android version of a game on the Nintendo Switch: it loads
the game's arm64 library, resolves its imports with functions of its own, and
plays the Android framework towards it. This directory holds TLA+ modules for the
parts of that wrapper whose correctness depends on order, concurrency, failures or
limits, TLC configurations that check them on small instances, and proofs that
TLAPS checks for every value of the constants.

All paths below are under `src/source/` of the repository. `PROJECT.json` gives
for every definition the source lines it stands for, the hazards of the code with
the properties that cover them, and for every property a plausible bug under
which TLC finds it violated (the definitions headed "Mutant of ..." in the
modules).

## The system

| Component | Source | State | Operations | Modelled by |
|---|---|---|---|---|
| Music player | `music_player.c` | `s_inited`, `s_thread_run`, the request flags, the open mp3, one OpenAL source with its queue | the `music_*` requests, `stream_thread`, `music_init`, `music_deinit` | `MusicPlayer` |
| Mutex shim | `imports.c:138-215` | the words of game memory that hold bionic mutexes, the heap | init, destroy, lock, unlock, `ensure_mutex` | `PthreadMutex`, over `GameLock` |
| once shim | `imports.c:217-231` | the control words | `pthread_once_fake` | `PthreadOnce` |
| SaltyNX telemetry | `saltynx.cpp` (called from `saltynx_egl.c`, `saltynx_exit.c`) | the shared block, the samples of frame times, the publisher thread | start, stop, frame, attach, publish | `Telemetry` |
| Overlay registry | `main.c:48-102` | `game_overlays`, `touch_controls_hidden` | two hooks, `set_touch_controls_hidden` | `Overlays` |
| Input | `main.c:265-442` | held buttons and keys, touch slots | `update_input`, `update_touch` | `TouchInput`, extends `Overlays` |
| Fake JNI | `jni_fake.c` | the pool of method ids, the text input request | id lookup, dispatch, `jni_update` | `JniFake` |
| Heap split and loading | `main.c:119-151`, `so_util.c:56-227` | the LOAD zone, the reservation, page permissions | `__libnx_initheap`, `so_load`, `so_finalize` | `SoImage` |
| Relocation and imports | `so_util.c:229-411` | the words of the LOAD zone | `so_relocate`, `so_process_relr`, `so_resolve` | `SoRelocate` |
| OpenAL sharing, EGL, end of the session | `imports.c:370-431`, `egl_helper.c`, `main.c:486-551` | device, context, `g_al_active`, who holds them | init, four hooks, teardown | `Session` |
| Threads of the game | `imports.c:99-136` | a `ThreadStart` and a TLS block for each thread | `pthread_create_fake`, `pthread_tls_trampoline` | `GameThreads` |
| `main()`; symbol lookup, hooks, initialisers | `main.c:48-113`, `446-551`, `so_util.c` | the function pointers of `main()`, hooked functions, the stage | the whole of `main()` | `Boot`, over the last four and `SoImage` |
| File hooks, AAsset, `writev`, standard streams | `imports.c:232-368`, `libc_shim.c:461-720` | files, their positions and flags | open, read, write, close | `Files` |
| The rest of the libc shim, import table, errors | `libc_shim.c`, `imports.c`, `error.c`, `util.c` | none | translation of layouts and constants, logging | not modelled |

How they interact. `main()` loads, relocates, resolves and hooks the game binary, looks up
its entry points, maps it as code and runs its initialisers; then it creates the audio and
render contexts, launches the game, starts the music player and enters the loop: input,
touch, JNI callbacks, the game's update and drawing, and the swap of buffers (where
`saltynx_frame` counts). At the end it takes the music, the game's audio, EGL and OpenAL
down in this order. The game calls back into the wrapper through its resolved imports
(mutexes, once, threads, OpenAL, files), through JNI (music requests, text input) and
through hooks (overlays). Game threads, the streaming thread, the mixer, the publisher
thread, the SaltySD host and the main thread run concurrently.

What is hard, by component, with the property that captures it:

- Music player: requests are flags worked off later and in a fixed order; the mixer
  drains the queue between any two calls of the thread; shutdown races with
  requests that have already tested `s_inited`. (`RecyclingSound`, `StopSilences`,
  `PauseHonoured`, `PlayingHasData`, `NoUseAfterDelete`, `UnderrunRecovers`, ...)
- Mutexes and once: lazy creation raced by several threads, with allocations that
  fail; the word is read twice; nobody may be left waiting. (`LockSound`, `NoLeak`,
  `IsGameLock`, `OnceSound`, `LockCallsReturn`,
  `OnceCallsReturn`)
- Telemetry: three parties on one lock-free block, which the host reclaims and
  `saltynx_stop` unmaps. (`AccessMapped`, `ReportSound`, `StopReturns`, ...)
- Overlays and input: addresses that are reused, more views or fingers than
  entries, overlays created inside event handlers. (`RegistrySound`, `EventsSound`,
  `ControlsFollow`, ...)
- JNI: a pool of ids that never shrinks, requests made inside the callbacks for
  other requests. (`DispatchWhileRoom`, `RequestKept`)
- Loading: rounding at page borders, permissions that can be set once only, two
  passes over the relocations, an implicit address in packed ones. (`ImageSound`, `SetOnce`,
  `WordsBound`)
- Boot: what `main()` reads is taken away step by step while it reads it; code of the game
  must not run before the last of a dozen preparations; a hook overwrites what it has to
  keep. (`ReadsMapped`, `GameCodeReady`, `EntriesSound`)
- Threads: creator and new thread race for one allocation. (`ThreadsSound`)
- Session: destructors of the game that run while or after `main()` tears down.
  (`NoDoubleFree`, `SharedKept`, `SourcesReleased`)
- Files: bionic's flags against newlib's, several descriptors of one asset, short writes,
  streams that are no streams of newlib. (`AssetReads`, `AppendsKept`, `WritevCounts`)

## The modules

**`MusicPlayer`** A track is a number of chunks, one for each successful
`fill_buffer()`. A request is two steps, its test of `s_inited` (`Enter`) and its
body under `s_lock`. An iteration of `stream_thread` holds the lock from `TestRun`'s
successor to `Unlock` and is one action per numbered part of the code (`OpenStream`,
`Start`, `PauseResume`, `CountProcessed`, `Unqueue`, `Refill`, `RestartUnderrun`),
because `MixerAdvance`, the OpenAL mixer, can act between them. `MusicInit`,
`MusicDeinit`, `Join` and `Release` are the life cycle. `lastStop` is a history
variable: what the last `music_stop()` found.

**`PthreadMutex`** A word holds a marker (zero, the recursive initialiser, another
one) or an address. `CallLock`/`CallUnlock` start a call, `Load`, `Allocate`,
`AllocateFails` and `CompareExchange` are `ensure_mutex()`, `Read` is the second,
plain read of the word, `Acquire`/`Release` are newlib. The client keeps the
contract of pthread mutexes; the module says which. **`GameLock`** is what the shim
promises: a lock per word with an owner and a depth. `PthreadMutex` implements it
with the owner and count of the mutex to which each word points.

**`PthreadOnce`** The compare-and-exchange, the routine, the store and the polling
are separate steps.

**`Telemetry`** The publisher's loads and stores on the shared variables are one
action each (`Check` to `Finish`), as are those of `saltynx_frame` (`Frame`, `Count`,
`StoreSample`/`ClearSample`). `HostService` and `HostClears` let the service come
and go and reclaim the block. Time counts up to a second, the only distance that the
code asks for. `Stop`, `Unmap` are `saltynx_stop()`.

**`Overlays`**, **`TouchInput`** A view is an address that can be reused. `TouchInput`
adds a frame of the main loop: `UpdateInput`, one `Touch` for each finger of the
sample, `EndTouches`, the game. The game is a monitor: an event that does not fit
what came before makes a touch "confused". `GameOverlays` lets it create and destroy
overlays wherever it gets an event.

**`JniFake`** `GetMethodID` searches the pool, `CallMethod` runs what the record of
an id names (a text is cut to what fits its buffer, `Beginning`), `Update`, `Keyboard`,
`Changed` and `Finished` are `jni_update()` with
the game running in the two callbacks.

**`SoImage`** Addresses count in small units. `InitHeap` is the split. A heap that the
kernel gives begins on a page and has whole grains of 2 MB, as `__libnx_initheap()` asks for
it (`AskedSize`); one that the environment gives is taken with any address and size, as the
code takes it, and `limit` is a difference that wraps like a `size_t`. Then come the steps of
`so_load()` with every failure, then `so_finalize()` page by page: the executable runs first,
then the others. When the limit has wrapped, a zone is accepted that is not in the heap: to
clear it ends the program (`ZoneFaults`) or, if there happens to be memory, does not
(`Reserve`). **`SoRelocate`** takes one relocation, packed entry or
resolution a step. Its file is any that holds well-formed tables.

**`Session`** The order of `main()` from `init_openal()` to the exit, one call a step,
against a game that opens, creates, closes and destroys through the hooks and makes its
contexts current whenever it likes, from its launch on. **`GameThreads`** follows
the `ThreadStart` of each thread from `Allocate` to the
`TakeStart` of the new thread or the `Created` of its creator, and TPIDR_EL0.

**`Boot`** is `main()` from its first to its last line, and composes the four: it extends
`SoImage` and `GameThreads` and has instances of `SoRelocate` (`R`) and `Session` (`S`). A
stage of `main()` is a call in the order of `Order`, and takes the steps of the module that
has the call; `InstallHook`, `Find`, `Flush`, `SetTls`, `Initialise` and `FreeTemp` are its
own. As soon as code of the game may run (`GameRunning`), threads of the game are created
and interleave with the rest. The three grains of memory are kept apart: what of the file is
where, the words that are relocated, and the instructions that hooks copy and patch.

**`Files`** A byte is the number of bytes written until then, so that the content of a file
shows what was lost, repeated or reordered. `Fopen`, `Open` with the flags of the game as
sets of bits, `AssetOpen`, `AssetDescriptor`, `Read`, `Write`, `Writev` with a step for each
`write()` of its loop, and `Close`; `OnFakeFile` is a call with one of the game's three
standard streams.

The `MC...` modules only declare the model values and small constants of a
configuration. `MCBoot` has its binaries in three groups: those whose headers or
relocations are of interest, which end in their first initialiser; those that lack a
function; and one that launches.

## The runs

| Run | Instance | Shows |
|---|---|---|
| `music_safety` | 2 callers, tracks of 1 and 3 chunks in two formats, 2 buffers, decoder may fail; 3.6 million states | no buffer queued twice or taken back while it plays; stop, pause and shutdown honoured |
| `music_liveness` | 1 caller, 2 buffers, fair | requests and shutdown return, a start is heard, an underrun is overcome |
| `music_stop_closed` | as above, `StopAlwaysSilences` | **violated**, see Findings |
| `mutex` | 2 threads, 2 words, 2 mutexes on the heap, recursion to 2, fair | exclusion, no leak, nobody waits for itself or for good, refinement of `GameLock`, calls return |
| `once` | 3 threads, 2 control words, fair | the routine runs once and before any return; who polls waits for somebody; calls return |
| `telemetry` | a second of 3 ticks, 2 samples, an attempt in every 2nd pass, 3 frames, fair | mapped access, sound values, stop returns, the host is found, idle decays to 0 |
| `overlays` | 4 views, 3 entries | no dangling view, every live one registered |
| `touch` | 3 fingers, 2 slots, 2 positions, a button, a key, an overlay, fair | touch and key protocol, controls follow the last input, all is released |
| `jni` | 4 methods (1 long), 3 ids, 4 lookups, 3 texts (1 too long) | calls by id run what they name while the pool has room; requests are kept |
| `boot` | 3 heaps from the kernel and 3 from the environment; pages of 2 units; files of 1 or 2 segments at 5 offsets in any order, and one with 5; 11 words, 5 relocation types, 5 kinds of symbols, bitmaps of 3 words; 2 threads of the game; 3.6 million states | the zone fits and is complete, each page gets its permission, once; every word ends with what it stands for; nothing is read after it was taken away; game code runs only when all is ready; hooks lead where they should; threads have their own block; nothing of OpenAL is freed twice, early or while in use |
| `files` | 1 save, 1 asset of 2 bytes, 2 handles, 3 bytes written; 1.1 million states | assets are read from their beginning, appended saves lose nothing, `writev` counts |
| `stdio` | as `files`, `FakesAbsorbed` | **violated**, see Findings |

Why the bounds are enough. Every bound is chosen such that the limit it stands for
is met and exceeded: two music buffers make a queue that is empty, partly played and
full, and the short track ends while buffers of the other are queued; two threads
make every race of the compare-and-exchange, and two places on the heap let the
second allocation of a race fail when another word has its mutex; three fingers
exceed the slots, four views the entries, four lookups with a long signature the
pool; a bitmap of three words is followed by another bitmap and by an address; a
page of two units has segments that begin and end at and inside a border; the heaps leave
less, as much and more than the files need, and those from the environment begin or end
inside a page, one of them before the place for the image, so that the limit wraps; two threads of
the game are created while the other starts, runs or has ended; of two handles one reads an
asset that the other closes, or writes a save between two parts of a `writev` of two parts.
Every invariant and action property that a passing run checks is proved as well, without
bounds, so that for these TLC guards the statement, and the liveness is what it alone shows.

`CHECK_DEADLOCK FALSE` is set for `boot` only, where the program comes to its end or has
ended in `fatal_error()`. Everywhere else TLC checks for deadlock.

The type invariant of every module is proved too (`TypeCorrect`, `BootTypeCorrect`; those of
`Overlays` and `PthreadOnce` are conjuncts of an invariant). No run lists one.

### Fairness

- `MusicPlayer`: weak fairness of the thread and of the shutdown, which run on their
  own; strong fairness of the request bodies, because the thread releases `s_lock`
  and sleeps 10 ms in every iteration, so that a waiting caller finds it free again
  and again. Nothing is assumed of the mixer; a source that never advances simply
  plays on.
- `PthreadMutex`: weak fairness inside the shim, strong fairness of a lock of newlib
  that becomes free again and again, and a client that unlocks what it has locked.
- `PthreadOnce`: weak fairness of each thread; the callers that wait poll with a sleep
  and hold nothing.
- `Telemetry`: weak fairness of the publisher and of the end of `saltynx_stop()`.
- `TouchInput`: weak fairness of the main loop, and strong fairness of getting a sample
  of the touch screen (without one `update_touch` returns early).

## What is proved

The modules `*Proofs` hold the proofs. The theorems are of the form `Spec => []Inv`, except
`SourceAlive` and `PermissionsCorrect` (action properties), `Refinement`, `UsesOverlays`,
`RelocatesAs` and `RunsSession` (implementations), and all hold for every value of the
constants that meets the named `ASSUME`s.

- **`MusicPlayerProofs`** `TypeCorrect`, `SourceAlive`, `PauseCorrect`,
  `PlayingCorrect`, `StopCorrect`, `BuffersCorrect`, `RecyclingCorrect`. `TypeOK` alone is not
  inductive: that the recycling loop finds a buffer to unqueue needs `Positions`
  (the source has not finished more buffers than it has queued, and the loop counts
  what is left), and that a request overtaken by the shutdown does no harm needs
  `Lifecycle` (a source exists exactly while the player is initialised, and otherwise
  no stream is open). Pause and stop add what the thread knows in the middle of an
  iteration (`Unpaused`, `Stopped`). `RecyclingCorrect` needs that the count taken before
  the loop stays below what the source has played while the mixer and requests go on; it
  and `BuffersCorrect` make `RecyclingSound` (`QueueCorrect`).
- **`PthreadMutexProofs`** One invariant `IInv` = types, `Heap` (every live mutex is in
  one word or is one thread's fresh one), `Calls` (from its second read on, a call is
  on the mutex that the word holds), `Locks` (inside as often as locked), `Kinds` and
  `Waits`. From it follow `Exclusion`, `TargetCorrect`, `HeapCorrect`, `KindCorrect` and
  `WaitsCorrect`, and with it each step is an acquisition, a release or a stutter of
  `GameLock` (`Refinement`).
  `TargetIsCurrent` is what makes the plain second read of the word harmless: a word
  that holds an address does not change before it is destroyed. `WaitsCorrect` is the part
  of `LockCallsReturn` that needs no fairness: whoever is blocked waits for another thread,
  which is inside the mutex and can go on (a thread of the game, as the module has it, is
  inside one mutex at a time). It and `Exclusion` make `LockSound` (`LocksCorrect`).
- **`PthreadOnceProofs`** The word tells how far the routine is, and one thread at most
  runs it; `OnceCorrect` follows, and `PollCorrect`, the part of `OnceCallsReturn` that
  needs no fairness: who polls a word finds it finished or another thread running the routine. Both
  together are `OnceSound` (`PromiseCorrect`).
- **`TelemetryProofs`** `IInv` says when the page is mapped (`Mapped`), which sums the
  publisher can have (`Sums`, `PartTicks`) and what is clean after the stop (`Clean`).
  `EstimateCorrect` rests on lemmas about the rounded quotient; `ReportCorrect` joins
  what the host may read.
- **`TouchInputProofs`** Its first section is about `Overlays` alone. Registered views exist
  and agree with `touch_controls_hidden` (`NoDanglingCorrect`, `AgreeOnHiddenCorrect`). That
  every live view is registered as long as there was room (`RegistryCorrect`) needs in
  addition that the registry has no hole and no view twice (`LiveInvariant`).
  `UsesOverlays` shows that `TouchInput` does to the overlays only what `Overlays` allows,
  so that these theorems hold there. A touch id is down exactly while its button is held or
  its slot in use (`ProtocolCorrect`), no finger has two slots (`OneSlotCorrect`), no key
  sticks (`KeysCorrect`, which needs that no key is down before there is a keyboard). At the
  end of a frame the slots are those of the sample (`SlotsCorrect`, with `Tracked`, which
  says how far the loops have come), and the controls were hidden or shown by the last
  input (`ControlsCorrect`, with `Follow`). `Ranges` bounds the loop over a sample
  (`TypeCorrect`); as a sample may be empty, this takes that the fingers are finitely many.
- **`JniFakeProofs`** A text request is kept until its keyboard is shown
  (`RequestCorrect`); while the pool has room a call by id runs what it names
  (`DispatchCorrect`), because the ids below the count are those of different methods and a
  full pool has as many. An id is the position of a record even after that (`TypeCorrect`).
- **`BootProofs`** `Staged` says what has been done in each stage of `main()`
  (`ReadsCorrect`), `Records` where each `ThreadStart` is (`ThreadsCorrect`), `Armed` that
  no thread exists before what it needs (`CodeCorrect`), and `Owned` who holds what of
  OpenAL in each state of the session (`NoDoubleFreeCorrect`, `SharedKeptCorrect`,
  `SourcesReleasedCorrect`). `Paged` says which pages the two passes of `so_finalize()` have
  set: with lemmas on rounding and on the length of a run it gives `PermissionsCorrect` and
  one half of `ImageCorrect`; `Zoned`, which follows the segments that are copied, gives the
  other, for any file whose segments do not overlap and every heap that the kernel gives. Of
  a heap from the environment it says that the zone is inside if the place for it begins
  inside (`ZoneFits`), whatever its address and size: otherwise the limit wraps, as told below.
  `Bound` says what each word holds when
  a loop has come to a relocation or packed entry (`WordsCorrect`); it needs the address
  from which a bitmap goes on (`AnchorOf`). `Hooking` says what `main()` has in its pointers
  and the code of a hooked function after each hook and lookup, `Whole` that the image has
  full pages: together with the pages of `Paged` they give `EntriesCorrect`. That a pointer
  leads to an executable page is shown for what lies in an executable segment: the
  trampolines are at offsets fixed in `main.c:46-47`, which `install_game_hook()` does not
  check, and whether the game's library has room there is a matter of that library. This takes that
  no function is hooked twice and that none that is hooked is looked up again for itself,
  which `BootAssumption` says of the two lists in `main.c`. `BootTypeCorrect` takes of
  `SoRelocateAssumption` that the addresses of replacements and modules are words.
  `RelocatesAs` and `RunsSession` show that `main()` runs `SoRelocate` and `Session` as they
  stand, stage by stage, without steps of its own on their state. Where an argument goes by
  induction over the headers or entries, it takes the least counterexample (`Least`).
- **`FilesProofs`** `IInv` = `Types`, `Guarded` (a file that is open is on the disk, and
  nothing is written through what leads to an asset, so that the assets stay as they were
  packed), `FromStart` (what was read of an asset is its beginning, and the size that the
  `AAsset` keeps is still right), `Counted` (how far the loop of `writev()` is: what it has
  put is its count, at most the parts so far, and if it was all of them it is in order) and
  `AppendsKept` itself. `AssetReads` needs `Guarded` because assets and saves share the
  disk; `WritevCounts` needs `Counted` because the loop goes on after a short write, with a
  part that then does not follow the one before: only a full count means that all is in
  order. A `write()` that fails ends the loop. The lengths of the parts
  before one (`Before`) are bounded with least counterexamples, without an induction over
  the parts.

Only model-checked: the liveness properties (`RequestsReturn`, `DeinitReturns`, `PlayIsHeard`,
`UnderrunRecovers`, `StopReturns`, `AttachesEventually`, `FpsDecays`, `AllReleased`,
`LockCallsReturn`, `OnceCallsReturn`), as fairness and `ENABLED` are out of the prover's
reach, and the two properties that the code violates. Of the liveness of the locks,
`WaitsForUser` and `PollEnds` state and prove the safety on which it rests.

## Findings

`music_stop()` stops the source only if a stream is open (`music_player.c:271`). After a
load that failed none is, although the buffers of the previous track go on playing, so
the stop does nothing. The run `music_stop_closed` shows such a history.
`StopSilences`, which holds and is proved, is the statement with that case excluded.

The import table binds `ftell`, `fgetc`, `feof`, `getwc`, `putwc`, `ungetwc`, `putc` and
`setvbuf` to newlib's own functions (`imports.c:488-505`), although the game's standard
streams are `fake_sF`, which are no streams of newlib; `libc_shim.c:463-464` says that
wrappers absorb accesses to them and forward the rest, and the functions beside them in
the table have one. The run `stdio` shows a call that reaches newlib with such a stream.

The limit of the LOAD zone can wrap. A heap from the environment is taken as it comes
(`main.c:128-129`). If it is smaller than `MEMORY_MB` and its end is not on a page, newlib
gets all of it, `heap_so_base` is rounded up to beyond the end, and `heap_so_limit`
(`main.c:150`) becomes almost 2^64, so that `so_load()` does not see that there is no room
and clears memory outside the heap. `boot` has such a heap (`TinyHeap`), and TLC finds the
zone outside it when `ZoneInHeap` is checked on that instance. `ImageSound` shows that this
is the only case: a heap that the kernel gives has whole grains and an aligned address, so
that it is at worst too small, which `so_load()` reports, and so is one from the environment
in which the place for the image does not begin beyond the end.

Three more observations, which no run is kept for: a `music_play()` that comes after
the thread has already opened another track goes on with the queued buffers of the old
one; a method asked for when the pool of ids is full is given the id of the first
method (`jni_fake.c:120`), which is why `DispatchWhileRoom` has its premise; and
`so_load()` refuses files with more than 16 program headers, where `so_util.c:8` speaks
of any number of segments.

## What is left out, and assumptions

- OpenAL Soft, mpg123, newlib, libnx, SaltySD and the game are external. They are
  modelled from how the code uses them, as freely as their contracts allow.
- JNI calls are taken to come from the main thread and mutex clients to keep the
  pthread contract: what the game's threads really do is not in this repository. The
  hazards in `PROJECT.json` that depend on it carry a note.
- Memory is sequentially consistent. The flags that cross threads are atomic in
  `saltynx.cpp` and `imports.c`; in `music_player.c` they are under `s_lock`, except
  the test of `s_inited`, which the model separates from the body, and `s_thread_run`,
  a volatile that is written once.
- `Telemetry` leaves out the resolution that is handed on and the limit of `sm`
  sessions; `TouchInput` the coordinates of buttons and the two one-shot presses;
  `JniFake` objects, strings, and functions that return constants; `Session` what the
  game is told at its launch.
- `SoImage` takes of the heap that it does not begin at address 0 (for which reason the test
  of `load_base` at `so_util.c:165` never fails), that its end and a page more are below
  2^64, and, if the kernel gave it, that its address is on a page. The unit of the kernel and
  the default size are whole pages, as in the code. Nothing is assumed of the address and
  size of a heap from the environment.
- `Telemetry` lets the host reclaim its block between the check of the magic and the last
  write of a publication (`saltynx.cpp:130`), which the protocol cannot prevent; what the
  host does with bytes that are written then is a matter of SaltySD.
- `music_init()` is modelled with `alGenSources`, `alGenBuffers` and `pthread_create()` that
  succeed; the code does not test them.
- `Session` lets the game open and use audio from its launch on. An initialiser of the
  library that opened a device before `init_openal()` would get one of its own, which the
  wrapper does not know.
- `Boot` takes the binaries that its assumptions describe: segments that do not overlap and
  are not empty, tables that relocate no word twice, modules that are not mapped at 0, and
  prologues without instructions relative to the PC, which a hook would move. `so_unload()`,
  which nothing calls, and what `so_dl_iterate_phdr()` reports are left out, and so is that
  a thread whose TLS block could not be allocated runs into address 0x28: `ThreadsSound`
  says when that can be.
- `Files` leaves out seeking, the formatting of paths (a path is absolute or an asset), and
  newlib's buffers. `/dev/urandom` is a file that is made anew by each open.
- The rest of the libc shim (ctype tables, `stat` layouts, `errno` and signal constants),
  the rwlock and semaphore wrappers that the import table does not name, and the import
  table translate one call at a time and have no state that outlives it.

## Plan

What is left, in the order of importance:

1. `Files`: seeking and the buffers of `FILE`s.
2. `Telemetry`: the resolution and the `sm` session limit; `TouchInput`: the one-shot
   presses for menu and back, whose release in the next frame is a protocol of its own.
3. The safety on which the other liveness properties rest, as with `WaitsForUser`: that
   `saltynx_stop()` only waits for a publisher that is on its way out, and that a started
   stream has data or a request pending until it is heard.
4. The conversions of `libc_shim.c` (ctype tables, `stat`) against a reference definition.
