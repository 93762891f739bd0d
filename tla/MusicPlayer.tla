---------------------------- MODULE MusicPlayer ----------------------------
(***************************************************************************)
(* The streaming music player of source/music_player.c: the requests that  *)
(* game threads leave under s_lock, the thread that decodes an mp3 and     *)
(* feeds one OpenAL source, and the OpenAL mixer that plays the queued     *)
(* buffers at its own pace, between any two calls of the thread.           *)
(*                                                                         *)
(* A track is a number of chunks, one chunk being what one fill_buffer()   *)
(* call decodes.  A request function holds s_lock for its whole body and   *)
(* its body is one step; an iteration of the thread holds s_lock from the  *)
(* label after "acquire" to "unlock" and is cut where the mixer matters.   *)
(***************************************************************************)
EXTENDS Integers, Sequences

CONSTANTS
  Caller,        \* game threads that may call the music_* requests
  Track,         \* logical track names of music_table
  Length,        \* Length[t]: the chunks that track t decodes to
  Format,        \* Format[t]: rate and channels of track t
  NumBuffers,    \* NUM_BUFFERS
  DecodeMayFail, \* whether mpg123_read may report an error
  NoTrack        \* the empty s_pending_path, and "no open stream"

ASSUME TrackAssumption ==
  /\ NoTrack \notin Track
  /\ Length \in [Track -> Nat \ {0}]
  /\ DecodeMayFail \in BOOLEAN
ASSUME NumBuffersAssumption == NumBuffers \in Nat \ {0}

VARIABLES
  inited,    \* s_inited
  run,       \* s_thread_run
  pending,   \* s_pending_path
  wantPlay,  \* s_want_play
  wantPause, \* s_want_pause
  loop,      \* s_loop
  open,      \* the track mpg123 has open; NoTrack when s_open is 0
  left,      \* chunks before the end of the open stream
  pc,        \* where the streaming thread is
  processed, \* its local count of buffers still to recycle
  buf,       \* the buffer it has unqueued and not yet refilled
  src,       \* AL_SOURCE_STATE of s_source, "ABSENT" when there is no source
  queue,     \* the buffers queued on the source, oldest first
  done,      \* how many of them a PLAYING or PAUSED source has played
  data,      \* data[b]: the track whose samples buffer b holds
  call,      \* call[c]: the request c is in, past its check of s_inited
  main,      \* progress of music_init() and music_deinit() in main()
  lastStop   \* history: what the last music_stop() since the last
             \* music_play() found, "open" or "closed"; "none" otherwise

requestVars == <<pending, wantPlay, wantPause, loop, call, lastStop>>
streamVars  == <<open, left>>
threadVars  == <<pc, processed, buf>>
sourceVars  == <<src, queue, done, data>>
lifeVars    == <<inited, run, main>>
vars == <<requestVars, streamVars, threadVars, sourceVars, lifeVars>>

Buffer     == 1 .. NumBuffers
Request    == {"load", "play", "pause", "stop", "set_loop", "set_volume"}
InLock     == {"start", "edge", "count", "unqueue", "refill", "underrun",
               "unlock"}
PC         == InLock \cup {"none", "top", "acquire", "exited"}
AlState    == {"ABSENT", "INITIAL", "PLAYING", "PAUSED", "STOPPED"}

\* Mutant of LockFree: the requests do not take the lock.
NotLocked == TRUE
\* The streaming thread holds s_lock; the requests hold it within one step.
LockFree == pc \notin InLock

Init ==
  /\ inited = FALSE /\ run = FALSE /\ main = "boot"
  /\ pending = NoTrack /\ wantPlay = FALSE /\ wantPause = FALSE
  /\ loop = FALSE /\ call = [c \in Caller |-> "idle"] /\ lastStop = "none"
  /\ open = NoTrack /\ left = 0
  /\ pc = "none" /\ processed = 0 /\ buf = 1
  /\ src = "ABSENT" /\ queue = <<>> /\ done = 0
  /\ data = [b \in Buffer |-> NoTrack]

-----------------------------------------------------------------------------
(***************************************************************************)
(* OpenAL Soft, as the calls of music_player.c use it.  Every buffer of a  *)
(* STOPPED source counts as processed; alSourcePlay() on a STOPPED source  *)
(* starts again from the oldest buffer still queued.                       *)
(***************************************************************************)
Played == IF src = "STOPPED" THEN Len(queue) ELSE done

\* The mixer finishes a buffer, and stops the source after the last one.
MixerAdvance ==
  /\ src = "PLAYING"
  /\ IF done + 1 < Len(queue) THEN done' = done + 1 /\ src' = src
                              ELSE done' = 0 /\ src' = "STOPPED"
  /\ UNCHANGED <<queue, data, requestVars, streamVars, threadVars, lifeVars>>

\* alSourceStop() leaves a source that never played in AL_INITIAL.
Silenced == IF src = "INITIAL" THEN "INITIAL" ELSE "STOPPED"

\* What stop_source() leaves queued.
Drained == <<>>

\* stop_source()
StopSource ==
  /\ src' = Silenced
  /\ queue' = Drained
  /\ done' = 0

\* alSourceQueueBuffers() refuses a buffer whose format differs from that of
\* the buffers already queued.
Accepts(t) == queue = <<>> \/ Format[data[Head(queue)]] = Format[t]

-----------------------------------------------------------------------------
(***************************************************************************)
(* The decoder.  fill_buffer() on a looping stream seeks to the start at   *)
(* the end of the track; otherwise it stops feeding there.                 *)
(***************************************************************************)
\* How many of n successive fill_buffer() calls can return some data.
Fills(l, n) ==
  LET most == IF loop \/ l >= n THEN n ELSE l
  IN  IF DecodeMayFail THEN 0 .. most ELSE {most}

\* Chunks left after n > 0 of them have been decoded from track t.
LeftAfter(t, l, n) == IF loop THEN (l - n) % Length[t] ELSE l - n

\* Mutant of Primed: the source is played even if nothing was queued.
PlayedUnprimed(n) == "PLAYING"
\* The source after n buffers have been queued on it.
Primed(n) == IF n > 0 THEN "PLAYING" ELSE Silenced

\* prime_and_play() on track t with l chunks left: the source is stopped and
\* drained, then buffers are filled in order until one gets no data.
PrimeAndPlay(t, l) ==
  \E n \in Fills(l, NumBuffers) :
    /\ queue' = Drained \o [i \in 1 .. n |-> i]
    /\ data' = [b \in Buffer |-> IF b <= n THEN t ELSE data[b]]
    /\ src' = Primed(n)
    /\ done' = 0
    /\ left' = IF n > 0 THEN LeftAfter(t, l, n) ELSE l

-----------------------------------------------------------------------------
(***************************************************************************)
(* stream_thread().  Each action ends where the mixer may act before the   *)
(* next call of the thread in a way that the thread can see.               *)
(***************************************************************************)
\* while (s_thread_run): s_thread_run is read without the lock.
TestRun ==
  /\ pc = "top"
  /\ pc' = IF run THEN "acquire" ELSE "exited"
  /\ UNCHANGED <<processed, buf, requestVars, streamVars, sourceVars, lifeVars>>

\* 1. honour a pending load.  open_stream() closes the old stream first, and
\* leaves none open when mpg123_open() or mpg123_getformat() fails.
NoLoad ==
  /\ pc = "acquire" /\ pending = NoTrack
  /\ pc' = "start"
  /\ UNCHANGED <<processed, buf, requestVars, streamVars, sourceVars, lifeVars>>

OpenFails ==
  /\ pc = "acquire" /\ pending # NoTrack
  /\ pending' = NoTrack
  /\ open' = NoTrack /\ left' = 0
  /\ pc' = "start"
  /\ UNCHANGED <<wantPlay, wantPause, loop, call, lastStop, processed, buf,
                 sourceVars, lifeVars>>

OpenStream ==
  /\ pc = "acquire" /\ pending # NoTrack
  /\ pending' = NoTrack
  /\ open' = pending
  /\ pc' = "start"
  /\ IF wantPlay THEN PrimeAndPlay(pending, Length[pending])
                 ELSE left' = Length[pending] /\ UNCHANGED sourceVars
  /\ UNCHANGED <<wantPlay, wantPause, loop, call, lastStop, processed, buf,
                 lifeVars>>

\* Mutant of CanStart: a source that has never played is not started.
CanRestart == src = "STOPPED"
\* A start request primes the source unless it is playing or paused.
CanStart == src \notin {"PLAYING", "PAUSED"}

\* 2. start request; it stays set while no stream is open.
Start ==
  /\ pc = "start"
  /\ pc' = "edge"
  /\ wantPlay' = (wantPlay /\ open = NoTrack)
  /\ IF wantPlay /\ open # NoTrack /\ CanStart
     THEN PrimeAndPlay(open, left)
     ELSE UNCHANGED <<left, sourceVars>>
  /\ UNCHANGED <<pending, wantPause, loop, call, lastStop, open, processed,
                 buf, lifeVars>>

\* Mutant of Edge: a resumed source is left paused.
EdgeWithoutResume == IF wantPause /\ src = "PLAYING" THEN "PAUSED" ELSE src
\* The source state after 3.: pause a playing source, resume a paused one.
Edge == IF wantPause /\ src = "PLAYING" THEN "PAUSED"
        ELSE IF ~wantPause /\ src = "PAUSED" THEN "PLAYING" ELSE src

\* 3. pause/resume edge
PauseResume ==
  /\ pc = "edge"
  /\ src' = IF open # NoTrack THEN Edge ELSE src
  /\ pc' = IF open # NoTrack /\ ~wantPause THEN "count" ELSE "unlock"
  /\ UNCHANGED <<processed, buf, queue, done, data, requestVars, streamVars,
                 lifeVars>>

\* 4. recycle processed buffers: how many there are, ...
CountProcessed ==
  /\ pc = "count"
  /\ processed' = Played
  /\ pc' = IF Played > 0 THEN "unqueue" ELSE "underrun"
  /\ UNCHANGED <<buf, requestVars, streamVars, sourceVars, lifeVars>>

\* ... take the oldest one off the queue, ...
Unqueue ==
  /\ pc = "unqueue" /\ Played > 0
  /\ buf' = Head(queue)
  /\ queue' = Tail(queue)
  /\ done' = IF src = "STOPPED" THEN 0 ELSE done - 1
  /\ processed' = processed - 1
  /\ pc' = "refill"
  /\ UNCHANGED <<src, data, requestVars, streamVars, lifeVars>>

\* ... and refill and queue it, unless the decoder had no data for it or
\* OpenAL refuses its format.
Refill ==
  /\ pc = "refill"
  /\ pc' = IF processed > 0 THEN "unqueue" ELSE "underrun"
  /\ \E n \in Fills(left, 1) :
       IF n = 0 THEN UNCHANGED <<left, data, queue>>
       ELSE /\ left' = LeftAfter(open, left, 1)
            /\ data' = [data EXCEPT ![buf] = open]
            /\ queue' = IF Accepts(open) THEN Append(queue, buf) ELSE queue
  /\ UNCHANGED <<processed, buf, src, done, open, requestVars, lifeVars>>

\* Mutant of Underran: a source that ran dry is not noticed.
NeverUnderran == FALSE
\* The source stopped although buffers are queued.
Underran == src = "STOPPED" /\ queue # <<>>

\* requeue underran source that still has data
RestartUnderrun ==
  /\ pc = "underrun"
  /\ src' = IF Underran THEN "PLAYING" ELSE src
  /\ pc' = "unlock"
  /\ UNCHANGED <<processed, buf, queue, done, data, requestVars, streamVars,
                 lifeVars>>

\* Mutant of Unlocked: the lock is kept, and the thread hangs when it next
\* asks for it.
KeptLocked == "unlock"
\* Where the thread is after pthread_mutex_unlock() and the sleep.
Unlocked == "top"

\* The gain is not modelled.
Unlock ==
  /\ pc = "unlock"
  /\ pc' = Unlocked
  /\ UNCHANGED <<processed, buf, requestVars, streamVars, sourceVars, lifeVars>>

StreamThread ==
  \/ TestRun \/ NoLoad \/ OpenFails \/ OpenStream \/ Start \/ PauseResume
  \/ CountProcessed \/ Unqueue \/ Refill \/ RestartUnderrun \/ Unlock

-----------------------------------------------------------------------------
(***************************************************************************)
(* The requests.  s_inited is tested before the lock is taken, so that     *)
(* music_deinit() may come in between.                                     *)
(***************************************************************************)
Enter(c, r) ==
  /\ call[c] = "idle" /\ inited
  /\ call' = [call EXCEPT ![c] = r]
  /\ UNCHANGED <<pending, wantPlay, wantPause, loop, lastStop, streamVars,
                 threadVars, sourceVars, lifeVars>>

\* c takes s_lock in request r, whose body runs in the same step.
Locked(c, r) ==
  /\ call[c] = r /\ LockFree
  /\ call' = [call EXCEPT ![c] = "idle"]
  /\ UNCHANGED <<streamVars, threadVars, lifeVars>>

\* An unknown name returns before the lock and leaves no trace.
MusicLoad(c) ==
  /\ Locked(c, "load")
  /\ pending' \in Track
  /\ UNCHANGED <<wantPlay, wantPause, loop, lastStop, sourceVars>>

MusicPlay(c) ==
  /\ Locked(c, "play")
  /\ wantPlay' = TRUE /\ wantPause' = FALSE
  /\ lastStop' = "none"
  /\ UNCHANGED <<pending, loop, sourceVars>>

MusicPause(c) ==
  /\ Locked(c, "pause")
  /\ wantPause' = TRUE
  /\ UNCHANGED <<pending, wantPlay, loop, lastStop, sourceVars>>

\* Mutant of PlayAfterStop: a start request survives music_stop().
PlayKeptByStop == wantPlay
\* s_want_play after music_stop()
PlayAfterStop == FALSE

MusicStop(c) ==
  /\ Locked(c, "stop")
  /\ IF open # NoTrack THEN StopSource ELSE UNCHANGED <<src, queue, done>>
  /\ wantPlay' = PlayAfterStop
  /\ lastStop' = IF open # NoTrack THEN "open" ELSE "closed"
  /\ UNCHANGED <<pending, wantPause, loop, data>>

MusicSetLoop(c) ==
  /\ Locked(c, "set_loop")
  /\ loop' \in BOOLEAN
  /\ UNCHANGED <<pending, wantPlay, wantPause, lastStop, sourceVars>>

\* The volume is only handed on to OpenAL.
MusicSetVolume(c) ==
  /\ Locked(c, "set_volume")
  /\ UNCHANGED <<pending, wantPlay, wantPause, loop, lastStop, sourceVars>>

Body(c) == MusicLoad(c) \/ MusicPlay(c) \/ MusicPause(c) \/ MusicStop(c)
             \/ MusicSetLoop(c) \/ MusicSetVolume(c)

-----------------------------------------------------------------------------
(***************************************************************************)
(* music_init() and music_deinit(), both called by main() alone.           *)
(***************************************************************************)
MusicInit ==
  /\ main = "boot"
  /\ main' = "running"
  /\ inited' = TRUE /\ run' = TRUE
  /\ src' = "INITIAL"
  /\ pc' = "top"
  /\ UNCHANGED <<processed, buf, queue, done, data, requestVars, streamVars>>

\* mpg123_init() or mpg123_new() fails: every request stays a no-op.
MusicInitFails ==
  /\ main = "boot"
  /\ main' = "running"
  /\ UNCHANGED <<inited, run, requestVars, streamVars, threadVars, sourceVars>>

\* Mutant of RunAfterDeinit: the thread is not told to leave.
RunKept == run
\* s_thread_run once music_deinit() has begun
RunAfterDeinit == FALSE

MusicDeinit ==
  /\ main = "running"
  /\ main' = IF inited THEN "join" ELSE "done"
  /\ run' = RunAfterDeinit
  /\ UNCHANGED <<inited, requestVars, streamVars, threadVars, sourceVars>>

\* Mutant of Joined: the thread is not waited for.
NotJoined == TRUE
\* pthread_join() returns when the thread has left its loop.
Joined == pc = "exited"

Join ==
  /\ main = "join" /\ Joined
  /\ main' = "close"
  /\ UNCHANGED <<inited, run, requestVars, streamVars, threadVars, sourceVars>>

\* Mutant of OpenAfterDeinit: s_open is not cleared with the stream.
OpenKeptByDeinit == open
\* The open stream after music_deinit()
OpenAfterDeinit == NoTrack

\* The stream, the source, the buffers and the decoder are released under
\* s_lock.
Release ==
  /\ main = "close" /\ LockFree
  /\ main' = "done"
  /\ open' = OpenAfterDeinit /\ left' = 0
  /\ src' = "ABSENT" /\ queue' = <<>> /\ done' = 0
  /\ inited' = FALSE
  /\ UNCHANGED <<run, data, requestVars, threadVars>>

Shutdown == Join \/ Release

\* After music_deinit() no request is left and the program goes on without
\* music.
Terminated ==
  /\ main = "done" /\ \A c \in Caller : call[c] = "idle"
  /\ UNCHANGED vars

Next ==
  \/ MusicInit \/ MusicInitFails \/ MusicDeinit \/ Shutdown
  \/ StreamThread
  \/ MixerAdvance
  \/ \E c \in Caller : Body(c) \/ \E r \in Request : Enter(c, r)
  \/ Terminated

Spec == Init /\ [][Next]_vars

(***************************************************************************)
(* The thread is scheduled and its lock is free whenever it asks for it;   *)
(* main() goes on with a shutdown it has begun.  A request gets s_lock     *)
(* because the thread sleeps 10 ms without it in every iteration: strong   *)
(* fairness.  Nothing obliges the game to call or the mixer to play.       *)
(***************************************************************************)
Fairness ==
  /\ WF_vars(StreamThread)
  /\ WF_vars(Shutdown)
  /\ \A c \in Caller : SF_vars(Body(c))

FairSpec == Spec /\ Fairness

-----------------------------------------------------------------------------
RequestsOK ==
  /\ pending \in Track \cup {NoTrack}
  /\ wantPlay \in BOOLEAN /\ wantPause \in BOOLEAN /\ loop \in BOOLEAN
  /\ call \in [Caller -> Request \cup {"idle"}]
  /\ lastStop \in {"none", "open", "closed"}

StreamOK == open \in Track \cup {NoTrack} /\ left \in Nat

ThreadOK == pc \in PC /\ processed \in Nat /\ buf \in Buffer

SourceOK ==
  /\ src \in AlState /\ queue \in Seq(Buffer) /\ done \in Nat
  /\ data \in [Buffer -> Track \cup {NoTrack}]

LifeOK ==
  /\ inited \in BOOLEAN /\ run \in BOOLEAN
  /\ main \in {"boot", "running", "join", "close", "done"}

\* Every variable has its type: the decoder never counts below the end of a
\* track, and the position in the queue is never negative.
TypeOK == RequestsOK /\ StreamOK /\ ThreadOK /\ SourceOK /\ LifeOK

\* A buffer is queued at most once, and the one being refilled is not queued
\* at all: alBufferData() on a queued buffer is an OpenAL error and the music
\* would skip.
BuffersExclusive ==
  /\ \A i, j \in 1 .. Len(queue) : queue[i] = queue[j] => i = j
  /\ pc = "refill" => \A i \in 1 .. Len(queue) : queue[i] # buf

\* The thread only takes off the queue what the mixer has finished, although it has
\* counted that once and the mixer, requests and refills go on: OpenAL would give it
\* no buffer otherwise, and it would refill the one that it had before.
RecyclesPlayed == pc = "unqueue" => processed \in 1 .. Played

\* Recycling keeps the queue what the thread takes it for: the buffers that it fills
\* are its own, and those that it takes back have been heard.
RecyclingSound == BuffersExclusive /\ RecyclesPlayed

\* Nothing touches the OpenAL source before music_init() has made it or after
\* music_deinit() has deleted it, although a request may test s_inited just
\* before the deletion and run its body after it.
NoUseAfterDelete == [][sourceVars' # sourceVars => src # "ABSENT" \/ inited']_vars

\* After a music_stop() that found an open stream nothing sounds or is queued
\* until the next music_play(), whatever loads, pauses and loop changes come in
\* between and wherever the thread was when the request came.
StopSilences == lastStop = "open" => src \notin {"PLAYING", "PAUSED"} /\ queue = <<>>

\* When the thread gives up the lock, the source agrees with the last pause or
\* play request: it does not play while paused and is not paused otherwise.
PauseHonoured ==
  pc = "unlock" /\ open # NoTrack => src # (IF wantPause THEN "PLAYING" ELSE "PAUSED")

\* A source that is playing still has something to play, and one that is paused
\* has something to resume.
PlayingHasData == src \in {"PLAYING", "PAUSED"} => done < Len(queue)

\* Every request returns, even if it was overtaken by music_deinit().
RequestsReturn == \A c \in Caller : call[c] # "idle" ~> call[c] = "idle"

\* music_deinit() returns: the thread sees s_thread_run and leaves its loop.
DeinitReturns == main = "join" ~> main = "done"

\* A start request on an open stream that has data is heard, unless a pause, a
\* stop, another load or the shutdown intervenes.
PlayIsHeard ==
  wantPlay /\ open # NoTrack /\ (left > 0 \/ loop)
    ~> \/ src = "PLAYING" \/ wantPause \/ lastStop # "none" \/ ~run
       \/ (left = 0 /\ ~loop) \/ open = NoTrack

\* A source that ran dry while the stream still had data plays again, unless a
\* pause, a stop, another load, the end of the track or the shutdown intervenes.
UnderrunRecovers ==
  src = "STOPPED" /\ queue # <<>> /\ open # NoTrack /\ (left > 0 \/ loop)
    ~> \/ src = "PLAYING" \/ wantPause \/ lastStop # "none" \/ ~run
       \/ (left = 0 /\ ~loop) \/ open = NoTrack

\* music_player.h:4-8 offers the game "loadFile/play/pause/stop" of the Java
\* MusicPlayer and says "We receive those calls ... and implement them here": a
\* music_stop() silences the music, also when the last load failed.
StopAlwaysSilences == lastStop # "none" => src # "PLAYING"
=============================================================================
