-------------------------- MODULE MusicPlayerProofs --------------------------
(***************************************************************************)
(* The safety properties of MusicPlayer hold for any number of game        *)
(* threads, any tracks, lengths and formats and any number of buffers.     *)
(***************************************************************************)
EXTENDS MusicPlayer, TLAPS

-----------------------------------------------------------------------------
(***************************************************************************)
(* The parts of the inductive invariant.                                   *)
(***************************************************************************)
\* How far the source has played, and what the recycling loop relies on: it
\* unqueues only while buffers are left to recycle, from an open stream.
Positions ==
  /\ done < Len(queue) \/ done = 0
  /\ src \in {"PLAYING", "PAUSED"} => done < Len(queue)
  /\ src \notin {"PLAYING", "PAUSED"} => done = 0
  /\ pc = "unqueue" => processed > 0
  /\ pc \in {"count", "unqueue", "refill", "underrun"} => open # NoTrack

TypeInv == TypeOK /\ Positions

\* The source exists exactly while the player is initialised; otherwise no
\* stream is open and no thread is in its loop.
Lifecycle ==
  /\ inited <=> src # "ABSENT"
  /\ ~inited => open = NoTrack /\ pc \in {"none", "exited"}
  /\ main = "boot" => ~inited
  /\ main = "close" => pc = "exited"
  /\ main \in {"join", "close"} => inited

\* The recycling part of an iteration is entered unpaused.
Unpaused ==
  /\ pc \in {"count", "unqueue", "refill", "underrun"} =>
       ~wantPause /\ src # "PAUSED"
  /\ PauseHonoured

\* After a stop no start request is left, and nothing is being recycled.
Stopped ==
  /\ lastStop # "none" => ~wantPlay
  /\ lastStop = "open" => pc \notin {"unqueue", "refill"}
  /\ StopSilences

-----------------------------------------------------------------------------
(***************************************************************************)
(* What the decoder operators return.                                      *)
(***************************************************************************)
\* A fill never takes more chunks than were asked for, nor more than are left
\* in a stream that does not loop.
LEMMA FillsBounds ==
  ASSUME TypeOK, NEW l \in Nat, NEW n \in Nat
  PROVE  \A m \in Fills(l, n) : m \in 0 .. n /\ (~loop => m <= l)
BY DEF Fills, TypeOK, RequestsOK

\* The remainder after a fill is again a number of chunks.
LEMMA LeftAfterNat ==
  ASSUME TypeOK, NEW t \in Track, NEW l \in Nat, NEW n \in Nat,
         ~loop => n <= l
  PROVE  LeftAfter(t, l, n) \in Nat
<1>1. CASE loop
  <2>1. Length[t] \in Nat \ {0} BY TrackAssumption
  <2>2. \A a \in Int, b \in Nat \ {0} : a % b \in Nat OBVIOUS
  <2>3. (l - n) \in Int OBVIOUS
  <2> QED BY <1>1, <2>1, <2>2, <2>3 DEF LeftAfter
<1>2. CASE ~loop BY <1>2 DEF LeftAfter, TypeOK, RequestsOK
<1> QED BY <1>1, <1>2

\* After prime_and_play() the state is well-typed, the source has as many
\* buffers as were filled, each once, and it plays if there are any.
LEMMA PrimeAndPlayEffect ==
  ASSUME TypeInv, NEW t \in Track, NEW l \in Nat, PrimeAndPlay(t, l)
  PROVE  /\ queue' \in Seq(Buffer) /\ done' = 0 /\ left' \in Nat
         /\ data' \in [Buffer -> Track \cup {NoTrack}]
         /\ src' = IF queue' # <<>> THEN "PLAYING" ELSE Silenced
         /\ \A i, j \in 1 .. Len(queue') : queue'[i] = queue'[j] => i = j
<1>1. PICK n \in Fills(l, NumBuffers) :
        /\ queue' = Drained \o [i \in 1 .. n |-> i]
        /\ data' = [b \in Buffer |-> IF b <= n THEN t ELSE data[b]]
        /\ src' = Primed(n)
        /\ done' = 0
        /\ left' = IF n > 0 THEN LeftAfter(t, l, n) ELSE l
  BY DEF PrimeAndPlay
<1>2. n \in Nat /\ n <= NumBuffers /\ (~loop => n <= l)
  BY FillsBounds, NumBuffersAssumption DEF TypeInv
<1> DEFINE primed == [i \in 1 .. n |-> i]
<1>3. primed \in Seq(Buffer) /\ Len(primed) = n
  <2>1. primed \in [1 .. n -> Buffer]
    BY <1>2, NumBuffersAssumption DEF Buffer
  <2> HIDE DEF primed
  <2>2. primed \in Seq(Buffer) /\ DOMAIN primed = 1 .. n BY <1>2, <2>1
  <2> QED BY <1>2, <2>2
<1>4. queue' = primed
  <2>1. queue' = <<>> \o primed BY <1>1 DEF Drained
  <2> HIDE DEF primed
  <2> QED BY <1>3, <2>1
<1>5. queue' # <<>> <=> n > 0 BY <1>2, <1>3, <1>4
<1>6. left' \in Nat BY <1>1, <1>2, LeftAfterNat DEF TypeInv
<1>7. data' \in [Buffer -> Track \cup {NoTrack}]
  BY <1>1 DEF TypeInv, TypeOK, SourceOK
<1>8. \A i, j \in 1 .. Len(queue') : queue'[i] = queue'[j] => i = j
  BY <1>3, <1>4
<1> QED BY <1>1, <1>3, <1>4, <1>5, <1>6, <1>7, <1>8 DEF Primed

-----------------------------------------------------------------------------
(***************************************************************************)
(* The invariant is preserved by every action.                             *)
(***************************************************************************)
\* The life cycle needs no other part of the invariant.
LEMMA LifecycleStep ==
  ASSUME Lifecycle, Next
  PROVE  Lifecycle'
<1> USE DEF Lifecycle, requestVars, streamVars, threadVars, sourceVars, lifeVars
<1>1. CASE MusicInit \/ MusicInitFails \/ MusicDeinit \/ Join
  BY <1>1 DEF MusicInit, MusicInitFails, MusicDeinit, Join, Joined
<1>2. CASE Release
  BY <1>2 DEF Release, OpenAfterDeinit
<1>3. CASE StreamThread
  BY <1>3 DEF StreamThread, TestRun, NoLoad, OpenFails, OpenStream, Start,
    PauseResume, Edge, CountProcessed, Unqueue, Refill, RestartUnderrun,
    Underran, Unlock, Unlocked, PrimeAndPlay, Primed, Silenced
<1>4. CASE MixerAdvance
  BY <1>4 DEF MixerAdvance
<1>5. CASE \E c \in Caller : Body(c) \/ \E r \in Request : Enter(c, r)
  BY <1>5 DEF Body, Enter, MusicLoad, MusicPlay, MusicPause, MusicStop,
    MusicSetLoop, MusicSetVolume, Locked, StopSource, Silenced
<1>6. CASE Terminated
  BY <1>6 DEF Terminated, vars
<1> QED BY <1>1, <1>2, <1>3, <1>4, <1>5, <1>6 DEF Next, Shutdown

\* The types and positions are preserved by every step.
LEMMA TypeInvStep ==
  ASSUME TypeInv, Lifecycle, [Next]_vars
  PROVE  TypeInv'
<1> USE DEF TypeInv, TypeOK, RequestsOK, StreamOK, ThreadOK, SourceOK, LifeOK,
            Positions, PC, InLock, AlState, requestVars, streamVars,
            threadVars, sourceVars, lifeVars
<1>1. CASE MusicInit
  <2>1. src = "ABSENT" BY <1>1 DEF MusicInit, Lifecycle
  <2>2. RequestsOK' /\ StreamOK' /\ ThreadOK' /\ LifeOK' BY <1>1 DEF MusicInit
  <2>3. SourceOK' /\ Positions' BY <1>1, <2>1 DEF MusicInit
  <2> QED BY <2>2, <2>3
<1>2. CASE MusicInitFails
  BY <1>2 DEF MusicInitFails
<1>3. CASE MusicDeinit
  <2>1. RequestsOK' /\ StreamOK' /\ ThreadOK' /\ SourceOK' /\ Positions'
    BY <1>3 DEF MusicDeinit
  <2>2. LifeOK'
    <3> main' \in {"join", "done"} BY <1>3 DEF MusicDeinit
    <3> QED BY <1>3 DEF MusicDeinit, RunAfterDeinit
  <2> QED BY <2>1, <2>2
<1>4. CASE Join
  BY <1>4 DEF Join
<1>5. CASE Release
  <2>1. RequestsOK' /\ StreamOK' /\ ThreadOK' /\ LifeOK'
    BY <1>5 DEF Release, OpenAfterDeinit
  <2>2. SourceOK' BY <1>5 DEF Release
  <2>3. Positions' BY <1>5 DEF Release, LockFree
  <2> QED BY <2>1, <2>2, <2>3
<1>6. CASE TestRun
  BY <1>6 DEF TestRun
<1>7. CASE NoLoad
  BY <1>7 DEF NoLoad
<1>8. CASE OpenFails
  BY <1>8 DEF OpenFails
<1>9. CASE OpenStream
  <2>1. RequestsOK' /\ ThreadOK' /\ LifeOK' BY <1>9 DEF OpenStream
  <2>2. pending \in Track /\ Length[pending] \in Nat BY <1>9, TrackAssumption DEF OpenStream
  <2>3. CASE wantPlay
    <3>1. PrimeAndPlay(pending, Length[pending]) BY <1>9, <2>3 DEF OpenStream
    <3> QED BY <1>9, <2>1, <2>2, <3>1, PrimeAndPlayEffect DEF OpenStream, Silenced
  <2>4. CASE ~wantPlay
    BY <1>9, <2>1, <2>2, <2>4 DEF OpenStream
  <2> QED BY <2>3, <2>4
<1>10. CASE Start
  <2>1. RequestsOK' /\ ThreadOK' /\ LifeOK' BY <1>10 DEF Start
  <2>2. CASE wantPlay /\ open # NoTrack /\ CanStart
    <3>1. PrimeAndPlay(open, left) BY <1>10, <2>2 DEF Start
    <3>2. open \in Track BY <2>2
    <3> QED BY <1>10, <2>1, <3>1, <3>2, PrimeAndPlayEffect DEF Start, Silenced
  <2>3. CASE ~(wantPlay /\ open # NoTrack /\ CanStart)
    BY <1>10, <2>1, <2>3 DEF Start
  <2> QED BY <2>2, <2>3
<1>11. CASE PauseResume
  BY <1>11 DEF PauseResume, Edge
<1>12. CASE CountProcessed
  BY <1>12 DEF CountProcessed, Played
<1>13. CASE Unqueue
  BY <1>13 DEF Unqueue, Played
<1>14. CASE Refill
  <2>1. RequestsOK' /\ ThreadOK' /\ LifeOK'
    <3>1. pc' \in {"unqueue", "underrun"} /\ (pc' = "unqueue" => processed > 0)
      BY <1>14 DEF Refill
    <3>2. /\ UNCHANGED <<processed, buf, src, done, open>>
          /\ UNCHANGED requestVars /\ UNCHANGED lifeVars
      BY <1>14 DEF Refill
    <3>3. RequestsOK' BY <3>2
    <3>4. LifeOK' BY <3>2
    <3>5. ThreadOK' BY <3>1, <3>2
    <3> QED BY <3>3, <3>4, <3>5
  <2>2. open \in Track BY <1>14 DEF Refill
  <2>3. PICK n \in Fills(left, 1) :
          IF n = 0 THEN UNCHANGED <<left, data, queue>>
          ELSE /\ left' = LeftAfter(open, left, 1)
               /\ data' = [data EXCEPT ![buf] = open]
               /\ queue' = IF Accepts(open) THEN Append(queue, buf) ELSE queue
    BY <1>14 DEF Refill
  <2>4. n \in 0 .. 1 /\ (~loop => n <= left) BY FillsBounds
  <2>5. StreamOK'
    <3>1. CASE n = 0 BY <1>14, <2>3, <3>1 DEF Refill
    <3>2. CASE n = 1
      <4>1. LeftAfter(open, left, 1) \in Nat
        BY <2>2, <2>4, <3>2, LeftAfterNat
      <4> QED BY <1>14, <2>3, <3>2, <4>1 DEF Refill
    <3> QED BY <2>4, <3>1, <3>2
  <2>6. Len(queue') >= Len(queue) /\ queue' \in Seq(Buffer) BY <2>3
  <2>7. SourceOK' /\ Positions' BY <1>14, <2>2, <2>3, <2>6 DEF Refill
  <2> QED BY <2>1, <2>5, <2>7
<1>15. CASE RestartUnderrun
  BY <1>15 DEF RestartUnderrun, Underran
<1>16. CASE Unlock
  BY <1>16 DEF Unlock, Unlocked
<1>17. CASE MixerAdvance
  BY <1>17 DEF MixerAdvance
<1>18. ASSUME NEW c \in Caller, MusicLoad(c) PROVE TypeInv'
  BY <1>18 DEF MusicLoad, Locked
<1>19. ASSUME NEW c \in Caller, MusicPlay(c) PROVE TypeInv'
  <2>1. RequestsOK' BY <1>19 DEF MusicPlay, Locked
  <2> QED BY <1>19, <2>1 DEF MusicPlay, Locked
<1>20. ASSUME NEW c \in Caller, MusicPause(c) PROVE TypeInv'
  BY <1>20 DEF MusicPause, Locked
<1>21. ASSUME NEW c \in Caller, MusicStop(c) PROVE TypeInv'
  <2>1. RequestsOK' BY <1>21 DEF MusicStop, Locked, PlayAfterStop
  <2>2. StreamOK' /\ ThreadOK' /\ LifeOK' BY <1>21 DEF MusicStop, Locked
  <2>3. SourceOK'
    <3>1. CASE open # NoTrack
      BY <1>21, <3>1 DEF MusicStop, StopSource, Silenced, Drained
    <3>2. CASE open = NoTrack
      BY <1>21, <3>2 DEF MusicStop
    <3> QED BY <3>1, <3>2
  <2>4. Positions'
    BY <1>21 DEF MusicStop, Locked, LockFree, StopSource, Silenced, Drained
  <2> QED BY <2>1, <2>2, <2>3, <2>4
<1>22. ASSUME NEW c \in Caller, MusicSetLoop(c) PROVE TypeInv'
  BY <1>22 DEF MusicSetLoop, Locked
<1>23. ASSUME NEW c \in Caller, MusicSetVolume(c) PROVE TypeInv'
  BY <1>23 DEF MusicSetVolume, Locked
<1>24. ASSUME NEW c \in Caller, NEW r \in Request, Enter(c, r) PROVE TypeInv'
  BY <1>24 DEF Enter
<1>25. CASE UNCHANGED vars
  BY <1>25 DEF vars
<1> QED
  BY <1>1, <1>2, <1>3, <1>4, <1>5, <1>6, <1>7, <1>8, <1>9, <1>10, <1>11, <1>12, <1>13, <1>14, <1>15, <1>16, <1>17, <1>18, <1>19, <1>20, <1>21, <1>22, <1>23, <1>24, <1>25
  DEF Next, StreamThread, Shutdown, Body, Terminated

-----------------------------------------------------------------------------
(***************************************************************************)
(* Types and the life cycle.                                               *)
(***************************************************************************)
\* Every reachable state is well-typed, has the positions of the source in
\* step with its queue, and has a source exactly while the player is
\* initialised.
THEOREM TypeCorrect == Spec => [](TypeOK /\ Positions /\ Lifecycle)
<1>1. Init => TypeInv /\ Lifecycle
  <2> SUFFICES ASSUME Init PROVE TypeInv /\ Lifecycle
    OBVIOUS
  <2> USE DEF Init
  <2>1. RequestsOK /\ LifeOK BY DEF RequestsOK, LifeOK
  <2>2. StreamOK /\ Lifecycle BY DEF StreamOK, Lifecycle
  <2>3. ThreadOK BY NumBuffersAssumption DEF ThreadOK, PC, Buffer
  <2>4. SourceOK BY DEF SourceOK, AlState
  <2>5. Positions BY DEF Positions
  <2> QED BY <2>1, <2>2, <2>3, <2>4, <2>5 DEF TypeInv, TypeOK
<1>2. TypeInv /\ Lifecycle /\ [Next]_vars => TypeInv' /\ Lifecycle'
  <2>1. ASSUME Lifecycle, UNCHANGED vars PROVE Lifecycle'
    BY <2>1 DEF Lifecycle, vars, threadVars, sourceVars, lifeVars, streamVars
  <2> QED BY <2>1, LifecycleStep, TypeInvStep
<1> QED BY <1>1, <1>2, PTL DEF Spec, TypeInv

\* Nothing touches the source before music_init() made it or after
\* music_deinit() deleted it.
THEOREM SourceAlive == Spec => NoUseAfterDelete
<1>1. Lifecycle /\ [Next]_vars
        => [sourceVars' # sourceVars => src # "ABSENT" \/ inited']_vars
  <2> SUFFICES ASSUME Lifecycle, Next, src = "ABSENT", ~inited'
               PROVE  UNCHANGED sourceVars
    BY DEF vars
  <2> USE DEF Lifecycle
  <2>1. ~inited /\ open = NoTrack /\ pc \in {"none", "exited"}
    OBVIOUS
  <2>2. CASE MusicInit \/ MusicInitFails \/ MusicDeinit \/ Shutdown
    BY <2>1, <2>2 DEF MusicInit, MusicInitFails, MusicDeinit, Shutdown, Join,
       Release
  <2>3. CASE StreamThread
    BY <2>1, <2>3 DEF StreamThread, TestRun, NoLoad, OpenFails, OpenStream,
       Start, PauseResume, CountProcessed, Unqueue, Refill, RestartUnderrun,
       Unlock
  <2>4. CASE MixerAdvance
    BY <2>4 DEF MixerAdvance
  <2>5. CASE \E c \in Caller : Body(c) \/ \E r \in Request : Enter(c, r)
    BY <2>1, <2>5 DEF Body, Enter, MusicLoad, MusicPlay, MusicPause,
       MusicStop, MusicSetLoop, MusicSetVolume, sourceVars
  <2>6. CASE Terminated
    BY <2>6 DEF Terminated, vars
  <2> QED BY <2>2, <2>3, <2>4, <2>5, <2>6 DEF Next
<1> QED BY <1>1, TypeCorrect, PTL DEF Spec, NoUseAfterDelete

-----------------------------------------------------------------------------
(***************************************************************************)
(* Pauses, stops and buffers.                                              *)
(***************************************************************************)
\* When the thread gives up the lock the source agrees with the last pause or
\* play request.
THEOREM PauseCorrect == Spec => []PauseHonoured
<1>1. Init => Unpaused
  BY DEF Init, Unpaused, PauseHonoured
<1>2. Unpaused /\ [Next]_vars => Unpaused'
  <2> SUFFICES ASSUME Unpaused, [Next]_vars PROVE Unpaused'
    OBVIOUS
  <2> USE DEF Unpaused, PauseHonoured, requestVars, streamVars, threadVars,
              sourceVars, lifeVars
  <2>1. CASE MusicInit \/ MusicInitFails \/ MusicDeinit \/ Shutdown
    BY <2>1 DEF MusicInit, MusicInitFails, MusicDeinit, Shutdown, Join,
       Release, LockFree, InLock, OpenAfterDeinit
  <2>2. CASE TestRun \/ NoLoad \/ OpenFails \/ OpenStream \/ Start
    BY <2>2 DEF TestRun, NoLoad, OpenFails, OpenStream, Start
  <2>3. CASE PauseResume
    BY <2>3 DEF PauseResume, Edge
  <2>4. CASE CountProcessed \/ Unqueue \/ Refill \/ RestartUnderrun \/ Unlock
    BY <2>4 DEF CountProcessed, Unqueue, Refill, RestartUnderrun, Unlock,
       Unlocked
  <2>5. CASE MixerAdvance
    BY <2>5 DEF MixerAdvance
  <2>6. CASE \E c \in Caller : Body(c)
    BY <2>6 DEF Body, MusicLoad, MusicPlay, MusicPause, MusicStop,
       MusicSetLoop, MusicSetVolume, Locked, LockFree, InLock
  <2>7. CASE \E c \in Caller, r \in Request : Enter(c, r)
    BY <2>7 DEF Enter
  <2>8. CASE UNCHANGED vars
    BY <2>8 DEF vars
  <2> QED BY <2>1, <2>2, <2>3, <2>4, <2>5, <2>6, <2>7, <2>8
          DEF Next, StreamThread, Terminated
<1> QED BY <1>1, <1>2, PTL DEF Spec, Unpaused

\* A playing or paused source still has something to play.
THEOREM PlayingCorrect == Spec => []PlayingHasData
<1>1. TypeOK /\ Positions /\ Lifecycle => PlayingHasData
  BY DEF Positions, PlayingHasData
<1> QED BY <1>1, TypeCorrect, PTL

\* After a music_stop() that found an open stream nothing sounds or is queued
\* until the next music_play().
THEOREM StopCorrect == Spec => []StopSilences
<1>1. Init => Stopped
  BY DEF Init, Stopped, StopSilences
<1>2. TypeOK /\ Positions /\ Lifecycle /\ Stopped /\ [Next]_vars
        => Stopped'
  <2> SUFFICES ASSUME TypeOK, Positions, Lifecycle, Stopped, [Next]_vars
               PROVE  Stopped'
    OBVIOUS
  <2> USE DEF Stopped, StopSilences, requestVars, streamVars, threadVars,
              sourceVars, lifeVars
  <2>1. CASE MusicInit
    BY <2>1 DEF MusicInit
  <2>2. CASE MusicInitFails \/ MusicDeinit \/ Join
    BY <2>2 DEF MusicInitFails, MusicDeinit, Join
  <2>3. CASE Release
    BY <2>3 DEF Release
  <2>4. CASE TestRun \/ NoLoad \/ OpenFails
    BY <2>4 DEF TestRun, NoLoad, OpenFails
  <2>5. CASE OpenStream
    BY <2>5 DEF OpenStream
  <2>6. CASE Start
    BY <2>6 DEF Start
  <2>7. CASE PauseResume
    BY <2>7 DEF PauseResume, Edge
  <2>8. CASE CountProcessed
    <3>1. lastStop = "open" => Played = 0
      BY DEF Played, Positions
    <3> QED BY <2>8, <3>1 DEF CountProcessed
  <2>9. CASE Unqueue \/ Refill
    BY <2>9 DEF Unqueue, Refill
  <2>10. CASE RestartUnderrun
    BY <2>10 DEF RestartUnderrun, Underran
  <2>11. CASE Unlock
    BY <2>11 DEF Unlock, Unlocked
  <2>12. CASE MixerAdvance
    BY <2>12 DEF MixerAdvance
  <2>13. CASE \E c \in Caller : MusicStop(c)
    <3>1. lastStop' # "none" => ~wantPlay'
      BY <2>13 DEF MusicStop, PlayAfterStop
    <3>2. pc' \notin {"unqueue", "refill"}
      BY <2>13 DEF MusicStop, Locked, LockFree, InLock
    <3>3. lastStop' = "open" =>
            src' \notin {"PLAYING", "PAUSED"} /\ queue' = <<>>
      BY <2>13 DEF MusicStop, StopSource, Silenced, Drained
    <3> QED BY <3>1, <3>2, <3>3
  <2>14. CASE \E c \in Caller : MusicLoad(c) \/ MusicPlay(c) \/ MusicPause(c)
                               \/ MusicSetLoop(c) \/ MusicSetVolume(c)
    BY <2>14 DEF MusicLoad, MusicPlay, MusicPause, MusicSetLoop,
       MusicSetVolume, Locked
  <2>15. CASE \E c \in Caller, r \in Request : Enter(c, r)
    BY <2>15 DEF Enter
  <2>16. CASE UNCHANGED vars
    BY <2>16 DEF vars
  <2> QED BY <2>1, <2>2, <2>3, <2>4, <2>5, <2>6, <2>7, <2>8, <2>9, <2>10,
             <2>11, <2>12, <2>13, <2>14, <2>15, <2>16
          DEF Next, StreamThread, Shutdown, Body, Terminated
<1> QED BY <1>1, <1>2, TypeCorrect, PTL DEF Spec, Stopped

\* Taking the oldest buffer off a queue of different buffers, and putting it
\* back at the end, leaves different buffers.
LEMMA TailExclusive ==
  ASSUME NEW S, NEW q \in Seq(S), q # <<>>,
         \A i, j \in 1 .. Len(q) : q[i] = q[j] => i = j
  PROVE  /\ \A i, j \in 1 .. Len(Tail(q)) : Tail(q)[i] = Tail(q)[j] => i = j
         /\ \A i \in 1 .. Len(Tail(q)) : Tail(q)[i] # Head(q)
<1>1. Len(q) \in Nat /\ Len(q) > 0 /\ Len(Tail(q)) = Len(q) - 1
  OBVIOUS
<1>2. \A i \in 1 .. Len(Tail(q)) : Tail(q)[i] = q[i + 1] /\ i + 1 \in 1 .. Len(q)
  BY <1>1
<1>3. Head(q) = q[1] /\ 1 \in 1 .. Len(q)
  BY <1>1
<1> QED BY <1>1, <1>2, <1>3

\* A buffer that was not queued can be queued.
LEMMA AppendExclusive ==
  ASSUME NEW S, NEW q \in Seq(S), NEW b \in S,
         \A i, j \in 1 .. Len(q) : q[i] = q[j] => i = j,
         \A i \in 1 .. Len(q) : q[i] # b
  PROVE  \A i, j \in 1 .. Len(Append(q, b)) :
           Append(q, b)[i] = Append(q, b)[j] => i = j
<1>1. /\ Len(Append(q, b)) = Len(q) + 1
      /\ \A i \in 1 .. Len(q) : Append(q, b)[i] = q[i]
      /\ Append(q, b)[Len(q) + 1] = b
  OBVIOUS
<1>2. Len(q) \in Nat
  OBVIOUS
<1> QED BY <1>1, <1>2

\* No buffer is queued twice, and the one being refilled is not queued.
THEOREM BuffersCorrect == Spec => []BuffersExclusive
<1>1. Init => BuffersExclusive
  BY DEF Init, BuffersExclusive
<1>2. TypeOK /\ Positions /\ Lifecycle /\ BuffersExclusive /\ [Next]_vars
        => BuffersExclusive'
  <2> SUFFICES ASSUME TypeOK, Positions, Lifecycle, BuffersExclusive,
                      [Next]_vars
               PROVE  BuffersExclusive'
    OBVIOUS
  <2> USE DEF BuffersExclusive
  <2>0. queue \in Seq(Buffer) /\ buf \in Buffer /\ left \in Nat
    BY DEF TypeOK, SourceOK, ThreadOK, StreamOK
  <2>1. ASSUME UNCHANGED queue, pc' # "refill" PROVE BuffersExclusive'
    BY <2>1
  <2>2. ASSUME UNCHANGED <<queue, pc, buf>> PROVE BuffersExclusive'
    BY <2>2
  <2>3. ASSUME queue' = <<>>, pc' # "refill" PROVE BuffersExclusive'
    BY <2>3
  <2>4. ASSUME NEW t \in Track, NEW l \in Nat, PrimeAndPlay(t, l),
               pc' # "refill"
        PROVE  BuffersExclusive'
    BY <2>4, PrimeAndPlayEffect DEF TypeInv
  <2>5. CASE MusicInit \/ TestRun \/ NoLoad \/ OpenFails \/ PauseResume
             \/ CountProcessed \/ RestartUnderrun \/ Unlock
    BY <2>5, <2>1 DEF MusicInit, TestRun, NoLoad, OpenFails, PauseResume,
       CountProcessed, RestartUnderrun, Unlock, Unlocked, sourceVars
  <2>6. CASE MusicInitFails \/ MusicDeinit \/ Join \/ MixerAdvance
             \/ UNCHANGED vars
    BY <2>6, <2>2 DEF MusicInitFails, MusicDeinit, Join, MixerAdvance,
       sourceVars, threadVars, vars
  <2>7. CASE Release
    BY <2>7, <2>3 DEF Release, LockFree, InLock, threadVars
  <2>8. CASE OpenStream
    <3>1. pending \in Track /\ Length[pending] \in Nat
      BY <2>8, TrackAssumption DEF OpenStream, TypeOK, RequestsOK
    <3> QED BY <2>8, <3>1, <2>1, <2>4 DEF OpenStream, sourceVars
  <2>9. CASE Start
    <3>1. open # NoTrack => open \in Track
      BY DEF TypeOK, StreamOK
    <3> QED BY <2>0, <2>9, <3>1, <2>1, <2>4 DEF Start, sourceVars
  <2>10. CASE Unqueue
    <3>1. queue # <<>>
      <4>1. Len(queue) \in Nat /\ done \in Nat
        BY <2>0 DEF TypeOK, SourceOK
      <4>2. Len(queue) > 0
        BY <2>10, <4>1 DEF Unqueue, Played, Positions
      <4> QED BY <4>2
    <3>2. /\ \A i, j \in 1 .. Len(Tail(queue)) :
               Tail(queue)[i] = Tail(queue)[j] => i = j
          /\ \A i \in 1 .. Len(Tail(queue)) : Tail(queue)[i] # Head(queue)
      BY <2>0, <3>1, TailExclusive
    <3>3. queue' = Tail(queue) /\ buf' = Head(queue)
      BY <2>10 DEF Unqueue
    <3> QED BY <3>2, <3>3
  <2>11. CASE Refill
    <3>1. queue' = queue \/ queue' = Append(queue, buf)
      BY <2>11 DEF Refill
    <3>2. pc = "refill" /\ pc' # "refill"
      BY <2>11 DEF Refill
    <3> QED BY <2>0, <3>1, <3>2, AppendExclusive
  <2>12. CASE \E c \in Caller : MusicStop(c)
    <3>1. pc' # "refill" /\ (queue' = queue \/ queue' = <<>>)
      BY <2>12 DEF MusicStop, Locked, LockFree, InLock, StopSource, Drained,
         threadVars
    <3> QED BY <3>1, <2>1, <2>3
  <2>13. CASE \E c \in Caller : MusicLoad(c) \/ MusicPlay(c) \/ MusicPause(c)
                               \/ MusicSetLoop(c) \/ MusicSetVolume(c)
    BY <2>13, <2>2 DEF MusicLoad, MusicPlay, MusicPause, MusicSetLoop,
       MusicSetVolume, Locked, sourceVars, threadVars
  <2>14. CASE \E c \in Caller, r \in Request : Enter(c, r)
    BY <2>14, <2>2 DEF Enter, sourceVars, threadVars
  <2> QED BY <2>5, <2>6, <2>7, <2>8, <2>9, <2>10, <2>11, <2>12, <2>13, <2>14
          DEF Next, StreamThread, Shutdown, Body, Terminated
<1> QED BY <1>1, <1>2, TypeCorrect, PTL DEF Spec

\* The buffers that are left to recycle were counted when they had been played, and
\* while the thread has the lock only the thread takes buffers off the queue.
Recycling == pc \in {"unqueue", "refill"} => processed <= Played

\* The thread only takes off the queue what the mixer has finished.
THEOREM RecyclingCorrect == Spec => []RecyclesPlayed
<1>1. Init => Recycling
  BY DEF Init, Recycling
<1>2. TypeOK /\ Positions /\ Lifecycle /\ Recycling /\ [Next]_vars => Recycling'
  <2> SUFFICES ASSUME TypeOK, Positions, Lifecycle, Recycling, [Next]_vars
               PROVE  Recycling'
    OBVIOUS
  <2> USE DEF Recycling, Played, InLock, requestVars, streamVars, threadVars, sourceVars,
              lifeVars
  <2>0. /\ queue \in Seq(Buffer) /\ Len(queue) \in Nat
        /\ buf \in Buffer /\ processed \in Nat /\ done \in Nat
    BY DEF TypeOK, SourceOK, ThreadOK
  <2>1. CASE MusicInit \/ MusicInitFails \/ MusicDeinit \/ Join
    BY <2>1 DEF MusicInit, MusicInitFails, MusicDeinit, Join
  <2>2. CASE Release
    BY <2>2 DEF Release, LockFree
  <2>3. CASE TestRun \/ NoLoad \/ OpenFails \/ OpenStream \/ Start \/ PauseResume
    BY <2>3 DEF TestRun, NoLoad, OpenFails, OpenStream, Start, PauseResume
  <2>4. CASE CountProcessed
    BY <2>0, <2>4 DEF CountProcessed
  <2>5. CASE Unqueue
    <3>1. queue # <<>>
      BY <2>0, <2>5 DEF Unqueue, Positions
    <3>2. Len(queue') = Len(queue) - 1
      BY <2>0, <2>5, <3>1 DEF Unqueue
    <3> QED BY <2>0, <2>5, <3>2 DEF Unqueue
  <2>6. CASE Refill
    <3>1. Len(queue') >= Len(queue) /\ Len(queue') \in Nat
      BY <2>0, <2>6 DEF Refill
    <3> QED BY <2>0, <2>6, <3>1 DEF Refill
  <2>7. CASE RestartUnderrun \/ Unlock
    BY <2>7 DEF RestartUnderrun, Unlock, Unlocked
  <2>8. CASE MixerAdvance
    BY <2>0, <2>8 DEF MixerAdvance, Positions
  <2>9. CASE \E c \in Caller : Body(c)
    BY <2>9 DEF Body, MusicLoad, MusicPlay, MusicPause, MusicStop, MusicSetLoop,
       MusicSetVolume, Locked, LockFree
  <2>10. CASE \E c \in Caller, r \in Request : Enter(c, r)
    BY <2>10 DEF Enter
  <2>11. CASE UNCHANGED vars
    BY <2>11 DEF vars
  <2> QED BY <2>1, <2>2, <2>3, <2>4, <2>5, <2>6, <2>7, <2>8, <2>9, <2>10, <2>11
          DEF Next, StreamThread, Shutdown, Terminated
<1>3. TypeOK /\ Positions /\ Recycling => RecyclesPlayed
  BY DEF Recycling, Positions, RecyclesPlayed, TypeOK, ThreadOK, SourceOK, Played
<1> QED BY <1>1, <1>2, <1>3, TypeCorrect, PTL DEF Spec

\* The thread fills and takes back only buffers that it may, whatever the mixer and the
\* callers do.
THEOREM QueueCorrect == Spec => []RecyclingSound
<1>1. BuffersExclusive /\ RecyclesPlayed => RecyclingSound
  BY DEF RecyclingSound
<1> QED BY <1>1, BuffersCorrect, RecyclingCorrect, PTL
=============================================================================
