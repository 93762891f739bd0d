------------------------------ MODULE Telemetry ------------------------------
(***************************************************************************)
(* The SaltyNX telemetry of source/saltynx.cpp: the render thread records  *)
(* the ticks between frames, a publisher thread copies them every 50 ms    *)
(* into a block of memory shared with the host, and saltynx_stop() takes   *)
(* the thread and the memory down, from the exit path of any thread.       *)
(*                                                                         *)
(* Time is a number of ticks since the last frame.  It need not count      *)
(* beyond a second: nothing tells older frames apart.                      *)
(***************************************************************************)
EXTENDS Integers

CONSTANTS
  Frequency, \* armGetSystemTickFreq(): ticks in a second
  NumSample, \* size of frame_ticks
  Period,    \* passes between two attempts to attach, 20 in the code
  FpsCap,    \* 255, what the byte of the block can hold
  MaxFrames  \* bound: frames that are rendered

ASSUME TelemetryAssumption ==
  /\ Frequency \in Nat \ {0}
  /\ NumSample \in Nat \ {0}
  /\ Period \in Nat \ {0}
  /\ FpsCap \in Nat \ {0}
  /\ MaxFrames \in Nat

VARIABLES
  service,  \* what the host offers: "absent", "page" only, or also a "block"
  page,     \* whether the shared memory is mapped
  block,    \* whether the block pointer is set
  magic,    \* whether the memory holds a block that begins with the magic
  fps,      \* fps of that block
  active,   \* active
  ticks,    \* ticks
  number,   \* frame_number
  main,     \* where saltynx_start() and saltynx_stop() are
  stopping, \* stopping
  pc,       \* where the publisher is
  attempts, \* its count of attempts, modulo Period
  frames,   \* local of publish(): the frame count it has loaded
  lastAge,  \* local: ticks since the frame whose time it has loaded
  recent,   \* local: that was less than a second
  sum,      \* local: sum of the samples
  count,    \* local: how many of them were not 0
  i,        \* local: the next sample
  render,   \* where saltynx_frame() is
  index,    \* local of saltynx_frame()
  delta,    \* local: ticks between the two last frames, 0 for the first
  seen,     \* whether previous_tick is set
  age,      \* ticks since previous_tick, Frequency for a second or more
  frameCount, \* frame_count
  sample    \* frame_ticks

hostVars    == <<service, magic>>
blockVars   == <<fps, active, ticks, number>>
mapVars     == <<page, block>>
mainVars    == <<main, stopping>>
publishVars == <<frames, lastAge, recent, sum, count, i>>
threadVars  == <<pc, attempts, publishVars>>
frameVars   == <<render, index, delta, seen, age, frameCount, sample>>
vars == <<hostVars, blockVars, mapVars, mainVars, threadVars, frameVars>>

Sample == 1 .. NumSample

Init ==
  /\ service \in {"absent", "page", "block"} /\ magic \in BOOLEAN
  /\ fps = 0 /\ active = FALSE /\ ticks = [s \in Sample |-> 0] /\ number = 0
  /\ page = FALSE /\ block = FALSE
  /\ main = "boot" /\ stopping = FALSE
  /\ pc = "none" /\ attempts = 0
  /\ frames = 0 /\ lastAge = 0 /\ recent = FALSE /\ sum = 0 /\ count = 0 /\ i = 1
  /\ render = "idle" /\ index = 0 /\ delta = 0 /\ seen = FALSE
  /\ age = Frequency /\ frameCount = 0 /\ sample = [s \in Sample |-> 0]

Attached == block /\ magic

-----------------------------------------------------------------------------
(***************************************************************************)
(* The host and the clock.                                                 *)
(***************************************************************************)
\* The service comes and goes.
HostService ==
  /\ service' \in {"absent", "page", "block"} \ {service}
  /\ UNCHANGED <<magic, blockVars, mapVars, mainVars, threadVars, frameVars>>

\* The host reclaims the block.
HostClears ==
  /\ magic /\ magic' = FALSE
  /\ UNCHANGED <<service, blockVars, mapVars, mainVars, threadVars, frameVars>>

Older(a) == IF a < Frequency THEN a + 1 ELSE a

Tick ==
  /\ Older(age) # age \/ (pc = "tick" /\ Older(lastAge) # lastAge)
  /\ age' = Older(age)
  /\ lastAge' = IF pc = "tick" THEN Older(lastAge) ELSE lastAge
  /\ UNCHANGED <<hostVars, blockVars, mapVars, mainVars, pc, attempts, frames,
                 recent, sum, count, i, render, index, delta, seen, frameCount,
                 sample>>

-----------------------------------------------------------------------------
(***************************************************************************)
(* attach(): a block that is in the page is taken over.  Otherwise the     *)
(* page is requested unless it is mapped, searched again, and a new block  *)
(* asked for, zeroed and marked.                                           *)
(***************************************************************************)
PageAfterAttach  == page \/ service # "absent"
BlockAfterAttach == PageAfterAttach /\ (magic \/ service = "block")

Attach ==
  /\ page' = PageAfterAttach
  /\ block' = BlockAfterAttach
  /\ IF BlockAfterAttach /\ ~magic
     THEN /\ magic' = TRUE
          /\ fps' = 0 /\ active' = FALSE /\ number' = 0
          /\ ticks' = [s \in Sample |-> 0]
     ELSE UNCHANGED <<magic, blockVars>>
  /\ UNCHANGED service

-----------------------------------------------------------------------------
(***************************************************************************)
(* saltynx_start() and saltynx_stop().                                     *)
(***************************************************************************)
Start ==
  /\ main = "boot"
  /\ main' = "running"
  /\ pc' = "test"
  /\ Attach
  /\ UNCHANGED <<stopping, attempts, publishVars, frameVars>>

\* The thread cannot be created: what was mapped is given back.
StartFails ==
  /\ main = "boot"
  /\ main' = "failed"
  /\ page' = FALSE /\ block' = FALSE
  /\ IF BlockAfterAttach /\ ~magic
     THEN /\ magic' = TRUE
          /\ fps' = 0 /\ active' = FALSE /\ number' = 0
          /\ ticks' = [s \in Sample |-> 0]
     ELSE UNCHANGED <<magic, blockVars>>
  /\ UNCHANGED <<service, stopping, threadVars, frameVars>>

\* Mutant of StopRequested: the thread is not told to stop.
StopForgotten == stopping
\* stopping once saltynx_stop() has begun
StopRequested == TRUE

Stop ==
  /\ main = "running"
  /\ main' = "join"
  /\ stopping' = StopRequested
  /\ UNCHANGED <<hostVars, blockVars, mapVars, threadVars, frameVars>>

\* Mutant of Joined: the memory is unmapped under the thread.
NotJoined == TRUE
\* threadWaitForExit() returns when the thread has ended.
Joined == pc = "exited"

Unmap ==
  /\ main = "join" /\ Joined
  /\ main' = "stopped"
  /\ page' = FALSE /\ block' = FALSE
  /\ UNCHANGED <<hostVars, blockVars, stopping, threadVars, frameVars>>

-----------------------------------------------------------------------------
(***************************************************************************)
(* saltynx_frame(), one step per access to a shared variable.              *)
(***************************************************************************)
Frame ==
  /\ render = "idle" /\ main # "boot" /\ frameCount < MaxFrames
  /\ delta' = IF seen THEN age ELSE 0
  /\ seen' = TRUE /\ age' = 0
  /\ render' = "count"
  /\ UNCHANGED <<hostVars, blockVars, mapVars, mainVars, threadVars, index,
                 frameCount, sample>>

\* The frame is counted; two frames in one tick, or the first one, leave no
\* sample, and one after a second or more clears the samples.
Count ==
  /\ render = "count"
  /\ index' = (frameCount % NumSample) + 1
  /\ frameCount' = frameCount + 1
  /\ render' = CASE delta = 0         -> "idle"
                 [] delta = Frequency -> "clear"
                 [] OTHER             -> "store"
  /\ UNCHANGED <<hostVars, blockVars, mapVars, mainVars, threadVars, delta, seen,
                 age, sample>>

StoreSample ==
  /\ render = "store"
  /\ sample' = [sample EXCEPT ![index] = delta]
  /\ render' = "idle"
  /\ UNCHANGED <<hostVars, blockVars, mapVars, mainVars, threadVars, index, delta,
                 seen, age, frameCount>>

\* Samples are cleared one by one, in order, while the publisher may read them.
ClearSample ==
  /\ render = "clear"
  /\ LET stale == {s \in Sample : sample[s] # 0} IN
       IF stale = {}
       THEN render' = "idle" /\ UNCHANGED sample
       ELSE /\ \E s \in stale : /\ \A u \in stale : s <= u
                                /\ sample' = [sample EXCEPT ![s] = 0]
            /\ UNCHANGED render
  /\ UNCHANGED <<hostVars, blockVars, mapVars, mainVars, threadVars, index, delta,
                 seen, age, frameCount>>

Renderer == Count \/ StoreSample \/ ClearSample

-----------------------------------------------------------------------------
(***************************************************************************)
(* run(), the publisher thread.                                            *)
(***************************************************************************)
TestStop ==
  /\ pc = "test"
  /\ pc' = IF stopping THEN "clear" ELSE "attach"
  /\ UNCHANGED <<hostVars, blockVars, mapVars, mainVars, attempts, publishVars,
                 frameVars>>

\* Mutant of Retries: only the first pass tries to attach.
TriesOnce == FALSE
\* attempts++ % 20 == 0
Retries == attempts = 0

TryAttach ==
  /\ pc = "attach"
  /\ pc' = "check"
  /\ attempts' = IF Attached THEN attempts ELSE (attempts + 1) % Period
  /\ IF ~Attached /\ Retries THEN Attach ELSE UNCHANGED <<hostVars, blockVars, mapVars>>
  /\ UNCHANGED <<mainVars, publishVars, frameVars>>

\* publish() loads the frame count, ...
Check ==
  /\ pc = "check"
  /\ IF Attached THEN pc' = "last" /\ frames' = frameCount
                 ELSE pc' = "wait" /\ UNCHANGED frames
  /\ UNCHANGED <<hostVars, blockVars, mapVars, mainVars, attempts, lastAge,
                 recent, sum, count, i, frameVars>>

\* ... then the time of the last frame, ...
LoadLast ==
  /\ pc = "last"
  /\ pc' = "tick"
  /\ recent' = seen /\ lastAge' = age
  /\ UNCHANGED <<hostVars, blockVars, mapVars, mainVars, attempts, frames, sum,
                 count, i, frameVars>>

\* Mutant of IsRecent: the age of the last frame is not looked at.
IsRecentForEver == recent
\* last && armGetSystemTick() - last < frequency
IsRecent == recent /\ lastAge < Frequency

\* ... and the clock.
LoadTick ==
  /\ pc = "tick"
  /\ pc' = "sum"
  /\ recent' = IsRecent
  /\ lastAge' = 0 /\ sum' = 0 /\ count' = 0 /\ i' = 1
  /\ UNCHANGED <<hostVars, blockVars, mapVars, mainVars, attempts, frames,
                 frameVars>>

SumSample ==
  /\ pc = "sum"
  /\ sum' = sum + sample[i]
  /\ count' = IF sample[i] # 0 THEN count + 1 ELSE count
  /\ IF i < NumSample THEN i' = i + 1 /\ pc' = pc ELSE i' = 1 /\ pc' = "write"
  /\ UNCHANGED <<hostVars, blockVars, mapVars, mainVars, attempts, frames,
                 lastAge, recent, frameVars>>

\* frequency * count / sum, rounded to the nearest integer
Rounded(n, s) == (2 * Frequency * n + s) \div (2 * s)
Estimate == IF recent /\ sum > 0 THEN Rounded(count, sum) ELSE 0

\* std::min(estimate, 255)
Clamped(e) == IF e < FpsCap THEN e ELSE FpsCap

WriteHead ==
  /\ pc = "write"
  /\ fps' = Clamped(Estimate)
  /\ number' = frames
  /\ pc' = "ticks"
  /\ UNCHANGED <<hostVars, active, ticks, mapVars, mainVars, attempts,
                 publishVars, frameVars>>

\* Mutant of Published: the samples are taken to be those of the first loop.
PublishedUnchecked(t) == IF recent /\ sum > 0 THEN t ELSE Frequency
\* What is published for a sample: a sample that is 0, or was not yet there or
\* is gone since the first loop, is replaced by the average.
Published(t) ==
  IF recent /\ t # 0 THEN t
  ELSE IF Estimate > 0 THEN Frequency \div Estimate ELSE Frequency

WriteTick ==
  /\ pc = "ticks"
  /\ ticks' = [ticks EXCEPT ![i] = Published(sample[i])]
  /\ IF i < NumSample THEN i' = i + 1 /\ pc' = pc ELSE i' = 1 /\ pc' = "finish"
  /\ UNCHANGED <<hostVars, fps, active, number, mapVars, mainVars, attempts,
                 frames, lastAge, recent, sum, count, frameVars>>

\* The resolution and the graphics API are handed on in between.
Finish ==
  /\ pc = "finish"
  /\ active' = (frames # 0)
  /\ pc' = "wait"
  /\ frames' = 0 /\ recent' = FALSE /\ sum' = 0 /\ count' = 0
  /\ UNCHANGED <<hostVars, fps, ticks, number, mapVars, mainVars, attempts,
                 lastAge, i, frameVars>>

\* waitSingle() returns after 50 ms, or at once when saltynx_stop() signals.
Wait ==
  /\ pc = "wait"
  /\ pc' = "test"
  /\ UNCHANGED <<hostVars, blockVars, mapVars, mainVars, attempts, publishVars,
                 frameVars>>

\* active of the block when the publisher leaves
FinalActive == FALSE

ClearBlock ==
  /\ pc = "clear"
  /\ pc' = "exited"
  /\ IF Attached THEN fps' = 0 /\ active' = FinalActive
                 ELSE UNCHANGED <<fps, active>>
  /\ UNCHANGED <<hostVars, ticks, number, mapVars, mainVars, attempts,
                 publishVars, frameVars>>

Publisher ==
  \/ TestStop \/ TryAttach \/ Check \/ LoadLast \/ LoadTick \/ SumSample
  \/ WriteHead \/ WriteTick \/ Finish \/ Wait \/ ClearBlock

Next ==
  \/ HostService \/ HostClears \/ Tick
  \/ Start \/ StartFails \/ Stop \/ Unmap
  \/ Frame \/ Renderer
  \/ Publisher

Spec == Init /\ [][Next]_vars

(***************************************************************************)
(* The publisher is scheduled and its wait times out; saltynx_stop() goes  *)
(* on once it has begun.  Nothing obliges the game to render or the host   *)
(* to be there.                                                            *)
(***************************************************************************)
Fairness == WF_vars(Publisher) /\ WF_vars(Unmap)

FairSpec == Spec /\ Fairness

-----------------------------------------------------------------------------
TypeOK ==
  /\ service \in {"absent", "page", "block"} /\ magic \in BOOLEAN
  /\ page \in BOOLEAN /\ block \in BOOLEAN
  /\ fps \in 0 .. FpsCap /\ active \in BOOLEAN
  /\ ticks \in [Sample -> 0 .. Frequency] /\ number \in 0 .. MaxFrames
  /\ main \in {"boot", "running", "failed", "join", "stopped"}
  /\ stopping \in BOOLEAN
  /\ pc \in {"none", "test", "attach", "check", "last", "tick", "sum", "write",
             "ticks", "finish", "wait", "clear", "exited"}
  /\ attempts \in 0 .. Period - 1
  /\ frames \in 0 .. MaxFrames /\ lastAge \in 0 .. Frequency
  /\ recent \in BOOLEAN
  /\ sum \in Nat /\ count \in 0 .. NumSample /\ i \in Sample
  /\ render \in {"idle", "count", "store", "clear"} /\ index \in 0 .. NumSample
  /\ delta \in 0 .. Frequency /\ seen \in BOOLEAN /\ age \in 0 .. Frequency
  /\ frameCount \in 0 .. MaxFrames
  /\ sample \in [Sample -> 0 .. Frequency - 1]

\* The publisher reads and writes the block only while the page is mapped, even
\* if saltynx_stop() comes in the middle of a publication.
AccessMapped ==
  /\ block => page
  /\ pc \in {"write", "ticks", "finish"} => page /\ block

\* After saltynx_stop() the host finds no block that claims to be active.
StoppedInactive == main = "stopped" /\ magic => ~active /\ fps = 0

\* The host never divides by zero: a block that is active has only positive
\* ticks, even if the samples changed between the two loops of publish().
ActiveTicks == active => \A s \in Sample : ticks[s] \in 1 .. Frequency

\* A game that has rendered within the last second, and has samples, is never
\* reported with 0 frames per second.
EstimatePositive ==
  pc = "write" /\ recent /\ count > 0 => Estimate \in 1 .. Frequency

\* What the host reads, at any time, is either marked as inactive or can be worked
\* with, and says of a game that renders that it does.
ReportSound == StoppedInactive /\ ActiveTicks /\ EstimatePositive

\* saltynx_stop() returns.
StopReturns == main = "join" ~> main = "stopped"

\* A host that stays is found, although an attempt is made only once in 20
\* passes, and again after it has reclaimed the block.
AttachesEventually ==
  []<>(Attached \/ service # "block" \/ main # "running")

\* A game that renders no more is in the end reported with 0 frames per second.
FpsDecays ==
  <>[](main = "running" /\ Attached /\ age = Frequency) => <>[](fps = 0)
=============================================================================
