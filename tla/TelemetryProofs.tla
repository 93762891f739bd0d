--------------------------- MODULE TelemetryProofs ---------------------------
(***************************************************************************)
(* Proofs about Telemetry, for every frequency, number of samples, period  *)
(* and number of frames.  What needs care is that saltynx_frame(), the     *)
(* host and saltynx_stop() go on in the middle of a publication: Mapped    *)
(* says why the publisher may touch the block, Sums and PartTicks say what *)
(* its half-done work is worth whatever the samples have become meanwhile. *)
(***************************************************************************)
EXTENDS Telemetry, TLAPS

Lifecycle ==
  /\ pc = "none" <=> main \in {"boot", "failed"}
  /\ main = "stopped" => pc = "exited"
  /\ main = "boot" => ~block
  /\ render = "count" => frameCount < MaxFrames
  /\ render = "store" => delta \in 1 .. Frequency - 1

Mapped ==
  /\ block => page
  /\ pc \in {"last", "tick", "sum", "write", "ticks", "finish"} => block

Clean == magic /\ (~block \/ pc = "exited") => ~active /\ fps = 0

\* The samples added so far: each is positive and less than a second.
Sums ==
  /\ pc \in {"sum", "write", "ticks", "finish"} =>
       count <= sum /\ sum <= Frequency * count
  /\ pc = "sum" => count < i

PartTicks ==
  /\ pc = "write" => i = 1
  /\ pc = "ticks" => \A s \in Sample : s < i => ticks[s] \in 1 .. Frequency
  /\ pc = "finish" => \A s \in Sample : ticks[s] \in 1 .. Frequency

IInv == TypeOK /\ Lifecycle /\ Mapped /\ Clean /\ Sums /\ PartTicks /\ ActiveTicks

-----------------------------------------------------------------------------
(***************************************************************************)
(* Arithmetic of the average.                                              *)
(***************************************************************************)
\* Bounds of an integer quotient.
LEMMA QuotientBounds ==
  ASSUME NEW x \in Nat, NEW y \in Nat \ {0}, NEW k \in Nat
  PROVE  /\ x \div y \in Nat
         /\ x < (k + 1) * y => x \div y <= k
         /\ x >= y => x \div y >= 1
<1> DEFINE q == x \div y
<1>1. q \in Int /\ q * y <= x /\ x < (q + 1) * y
  OBVIOUS
<1>2. q \in Nat
  <2>1. SUFFICES ASSUME q <= -1 PROVE FALSE
    BY <1>1
  <2>2. (q + 1) * y <= 0
    BY <1>1, <2>1
  <2> QED BY <1>1, <2>2
<1>3. ASSUME x < (k + 1) * y PROVE q <= k
  <2>1. SUFFICES ASSUME q >= k + 1 PROVE FALSE
    BY <1>1
  <2>2. q * y >= (k + 1) * y
    BY <1>1, <2>1
  <2>3. q * y \in Int /\ (k + 1) * y \in Int
    BY <1>1
  <2> HIDE DEF q
  <2> QED BY <1>1, <1>3, <2>2, <2>3
<1>4. ASSUME x >= y PROVE q >= 1
  <2>1. SUFFICES ASSUME q = 0 PROVE FALSE
    BY <1>2
  <2> QED BY <1>1, <1>4, <2>1
<1> QED BY <1>2, <1>3, <1>4

\* The rounded average of samples that are positive and less than a second is
\* between 1 and the frequency.
LEMMA RoundedBounds ==
  ASSUME NEW n \in Nat, NEW s \in Nat \ {0}, n <= s, s <= Frequency * n
  PROVE  Rounded(n, s) \in 1 .. Frequency
<1> USE TelemetryAssumption
<1> DEFINE x == 2 * Frequency * n + s
           y == 2 * s
<1>1. x \in Nat /\ y \in Nat \ {0}
  OBVIOUS
<1>2. Frequency * n <= Frequency * s
  OBVIOUS
<1>3. x < (Frequency + 1) * y
  BY <1>2
<1>4. x >= y
  OBVIOUS
<1>5. x \div y \in Nat /\ x \div y <= Frequency /\ x \div y >= 1
  <2> HIDE DEF x, y
  <2> QED BY <1>1, <1>3, <1>4, QuotientBounds
<1> QED BY <1>5 DEF Rounded

\* What is written for a sample is a positive number of ticks up to a second.
LEMMA PublishedBounds ==
  ASSUME recent \in BOOLEAN, sum \in Nat, count \in Nat,
         count <= sum, sum <= Frequency * count
  PROVE  /\ Estimate \in 0 .. Frequency
         /\ \A t \in 0 .. Frequency - 1 : Published(t) \in 1 .. Frequency
<1> USE TelemetryAssumption
<1>1. Estimate \in 0 .. Frequency
  BY RoundedBounds DEF Estimate
<1>2. ASSUME Estimate > 0 PROVE Frequency \div Estimate \in 1 .. Frequency
  <2> DEFINE e == Estimate
  <2>1. e \in 1 .. Frequency
    BY <1>1, <1>2
  <2> HIDE DEF e
  <2>2. Frequency < (Frequency + 1) * e
    BY <2>1
  <2>3. Frequency \div e \in Nat /\ Frequency \div e <= Frequency
        /\ Frequency \div e >= 1
    BY <2>1, <2>2, QuotientBounds
  <2> QED BY <2>3 DEF e
<1>3. ASSUME NEW t \in 0 .. Frequency - 1 PROVE Published(t) \in 1 .. Frequency
  BY <1>1, <1>2 DEF Published
<1> QED BY <1>1, <1>3
-----------------------------------------------------------------------------
(***************************************************************************)
(* The inductive invariant.                                                *)
(***************************************************************************)
LEMMA InitInv == Init => IInv
<1> SUFFICES ASSUME Init PROVE IInv
  OBVIOUS
<1> USE TelemetryAssumption DEF Init
<1>1. /\ magic \in BOOLEAN /\ page \in BOOLEAN /\ block \in BOOLEAN
      /\ active \in BOOLEAN /\ stopping \in BOOLEAN
      /\ recent \in BOOLEAN /\ seen \in BOOLEAN
  OBVIOUS
<1>2. /\ ticks \in [Sample -> 0 .. Frequency]
      /\ sample \in [Sample -> 0 .. Frequency - 1]
  OBVIOUS
<1>3. attempts \in 0 .. Period - 1 /\ i \in Sample
  BY DEF Sample
<1>4. TypeOK
  BY <1>1, <1>2, <1>3 DEF TypeOK
<1>5. Lifecycle /\ Mapped /\ Clean /\ Sums /\ PartTicks /\ ActiveTicks
  BY DEF Lifecycle, Mapped, Clean, Sums, PartTicks, ActiveTicks
<1> QED BY <1>4, <1>5 DEF IInv

\* attach() is only called where there is no block, or none with the magic.
LEMMA AttachStep ==
  ASSUME IInv, ~Attached, Attach
  PROVE  /\ page' \in BOOLEAN /\ block' \in BOOLEAN /\ magic' \in BOOLEAN
         /\ service' = service
         /\ block' => page'
         /\ fps' \in 0 .. FpsCap /\ active' \in BOOLEAN
         /\ ticks' \in [Sample -> 0 .. Frequency] /\ number' \in 0 .. MaxFrames
         /\ magic' /\ ~block' => ~active' /\ fps' = 0
         /\ ActiveTicks'
<1> USE TelemetryAssumption DEF Attach
<1>1. /\ page' \in BOOLEAN /\ block' \in BOOLEAN /\ (block' => page')
  BY DEF PageAfterAttach, BlockAfterAttach, IInv, TypeOK
<1>2. CASE BlockAfterAttach /\ ~magic
  <2>1. magic' /\ ~active' /\ fps' = 0 /\ block'
    BY <1>2
  <2>2. ticks' \in [Sample -> 0 .. Frequency] /\ number' = 0
    BY <1>2
  <2>3. magic' \in BOOLEAN /\ active' \in BOOLEAN /\ ActiveTicks'
    BY <1>2 DEF ActiveTicks
  <2>4. service' = service /\ fps' \in 0 .. FpsCap /\ number' \in 0 .. MaxFrames
    BY <2>1, <2>2
  <2> QED BY <1>1, <2>1, <2>2, <2>3, <2>4
<1>3. CASE ~(BlockAfterAttach /\ ~magic)
  <2>1. UNCHANGED <<magic, blockVars>>
    BY <1>3
  <2>2. magic' /\ ~block' => magic /\ ~block
    BY <2>1 DEF Attached
  <2> QED BY <1>1, <2>1, <2>2 DEF IInv, TypeOK, Clean, ActiveTicks, blockVars
<1> QED BY <1>2, <1>3

\* The host comes, goes and clears, and time passes.
LEMMA HostStep ==
  ASSUME IInv, HostService \/ HostClears \/ Tick
  PROVE  IInv'
<1> USE TelemetryAssumption
    DEF hostVars, blockVars, mapVars, mainVars, publishVars, threadVars, frameVars
<1>1. CASE HostService \/ HostClears
  <2>1. TypeOK'
    <3>1. magic' \in BOOLEAN
      BY <1>1 DEF HostService, HostClears, IInv, TypeOK
    <3> QED BY <1>1, <3>1 DEF HostService, HostClears, IInv, TypeOK
  <2>2. Lifecycle' /\ Mapped' /\ Clean'
    BY <1>1 DEF HostService, HostClears, IInv, TypeOK, Lifecycle, Mapped, Clean
  <2>3. Sums' /\ PartTicks' /\ ActiveTicks'
    BY <1>1 DEF HostService, HostClears, IInv, Sums, PartTicks, ActiveTicks
  <2> QED BY <2>1, <2>2, <2>3 DEF IInv
<1>2. CASE Tick
  BY <1>2 DEF Tick, Older, IInv, TypeOK, Lifecycle, Mapped, Clean, Sums,
              PartTicks, ActiveTicks
<1> QED BY <1>1, <1>2

\* main() starts and stops the telemetry.
LEMMA MainStep ==
  ASSUME IInv, Start \/ StartFails \/ Stop \/ Unmap
  PROVE  IInv'
<1> USE TelemetryAssumption
    DEF hostVars, blockVars, mapVars, mainVars, publishVars, threadVars, frameVars
<1>1. CASE Start
  <2>1. ~Attached
    BY <1>1 DEF Start, IInv, Lifecycle, Attached
  <2> QED BY <1>1, <2>1, AttachStep
      DEF Start, IInv, TypeOK, Lifecycle, Mapped, Clean, Sums, PartTicks
<1>2. CASE StartFails
  <2>1. TypeOK'
    <3>1. /\ page' \in BOOLEAN /\ block' \in BOOLEAN /\ magic' \in BOOLEAN
          /\ active' \in BOOLEAN
      BY <1>2 DEF StartFails, IInv, TypeOK
    <3> QED BY <1>2, <3>1 DEF StartFails, IInv, TypeOK
  <2>2. Lifecycle' /\ Mapped'
    BY <1>2 DEF StartFails, IInv, Lifecycle, Mapped
  <2>3. Clean'
    BY <1>2 DEF StartFails, IInv, TypeOK, Lifecycle, Clean
  <2>4. ActiveTicks'
    BY <1>2 DEF StartFails, IInv, ActiveTicks
  <2>5. Sums' /\ PartTicks'
    BY <1>2 DEF StartFails, IInv, Lifecycle, Sums, PartTicks
  <2> QED BY <2>1, <2>2, <2>3, <2>4, <2>5 DEF IInv
<1>3. CASE Stop
  BY <1>3 DEF Stop, StopRequested, IInv, TypeOK, Lifecycle, Mapped, Clean, Sums,
              PartTicks, ActiveTicks
<1>4. CASE Unmap
  <2>1. TypeOK'
    <3>1. page' \in BOOLEAN /\ block' \in BOOLEAN
      BY <1>4 DEF Unmap
    <3> QED BY <1>4, <3>1 DEF Unmap, IInv, TypeOK
  <2> QED BY <1>4, <2>1
      DEF Unmap, Joined, IInv, Lifecycle, Mapped, Clean, Sums, PartTicks, ActiveTicks
<1> QED BY <1>1, <1>2, <1>3, <1>4

\* A frame is counted and its time stored.
LEMMA RenderStep ==
  ASSUME IInv, Frame \/ Renderer
  PROVE  IInv'
<1> USE TelemetryAssumption
    DEF hostVars, blockVars, mapVars, mainVars, publishVars, threadVars, frameVars,
        IInv, Lifecycle, Mapped, Clean, Sums, PartTicks, ActiveTicks
<1>1. CASE Frame
  BY <1>1 DEF Frame, TypeOK
<1>2. CASE Count
  <2>1. index' \in 0 .. NumSample /\ frameCount' \in 0 .. MaxFrames
    BY <1>2 DEF Count, TypeOK
  <2>2. /\ render' \in {"idle", "store", "clear"}
        /\ render' = "store" => delta # 0 /\ delta # Frequency
    BY <1>2 DEF Count
  <2>3. delta' = delta /\ delta \in 0 .. Frequency
    BY <1>2 DEF Count, TypeOK
  <2>4. UNCHANGED <<hostVars, blockVars, mapVars, mainVars, threadVars, delta, seen,
                    age, sample>>
    BY <1>2 DEF Count
  <2>5. TypeOK'
    BY <2>1, <2>2, <2>4 DEF TypeOK
  <2>6. Lifecycle'
    BY <2>2, <2>3, <2>4
  <2> QED BY <2>4, <2>5, <2>6
<1>3. CASE StoreSample
  <2>1. sample' \in [Sample -> 0 .. Frequency - 1]
    <3>1. delta \in 0 .. Frequency - 1
      BY <1>3 DEF StoreSample, TypeOK
    <3> QED BY <1>3, <3>1 DEF StoreSample, TypeOK
  <2> QED BY <1>3, <2>1 DEF StoreSample, TypeOK
<1>4. CASE ClearSample
  BY <1>4 DEF ClearSample, TypeOK
<1> QED BY <1>1, <1>2, <1>3, <1>4 DEF Renderer

\* The publisher attaches, computes and writes.
LEMMA PublisherStep ==
  ASSUME IInv, Publisher
  PROVE  IInv'
<1> USE TelemetryAssumption
    DEF hostVars, blockVars, mapVars, mainVars, publishVars, threadVars, frameVars
<1>1. CASE TestStop \/ LoadLast \/ LoadTick \/ Wait
  <2>1. recent' \in BOOLEAN
    BY <1>1 DEF TestStop, LoadLast, LoadTick, IsRecent, Wait, IInv, TypeOK
  <2>2. i' \in Sample
    <3>1. i' = i \/ i' = 1
      BY <1>1 DEF TestStop, LoadLast, LoadTick, Wait
    <3> QED BY <3>1 DEF IInv, TypeOK, Sample
  <2>3. TypeOK'
    BY <1>1, <2>1, <2>2 DEF TestStop, LoadLast, LoadTick, Wait, IInv, TypeOK
  <2> QED BY <1>1, <2>3
      DEF TestStop, LoadLast, LoadTick, Wait, IInv, Lifecycle, Mapped, Clean, Sums,
          PartTicks, ActiveTicks
<1>2. CASE TryAttach
  <2>1. CASE ~Attached /\ Retries
    BY <1>2, <2>1, AttachStep
    DEF TryAttach, IInv, TypeOK, Lifecycle, Mapped, Clean, Sums, PartTicks
  <2>2. CASE ~(~Attached /\ Retries)
    BY <1>2, <2>2
    DEF TryAttach, IInv, TypeOK, Lifecycle, Mapped, Clean, Sums, PartTicks,
        ActiveTicks
  <2> QED BY <2>1, <2>2
<1>3. CASE Check
  BY <1>3 DEF Check, Attached, IInv, TypeOK, Lifecycle, Mapped, Clean, Sums,
              PartTicks, ActiveTicks
<1>4. CASE SumSample
  <2>1. sample[i] \in 0 .. Frequency - 1 /\ i \in 1 .. NumSample /\ count < i
    BY <1>4 DEF SumSample, IInv, TypeOK, Sums, Sample
  <2>2. sum' \in Nat /\ count' \in 0 .. NumSample
        /\ count' <= sum' /\ sum' <= Frequency * count'
    BY <1>4, <2>1 DEF SumSample, IInv, TypeOK, Sums
  <2>3. (pc' = "sum" => count' < i') /\ i' \in Sample
    <3>1. count' <= count + 1 /\ count \in Int /\ count' \in Int
      BY <1>4, <2>2 DEF SumSample, IInv, TypeOK
    <3>2. (i < NumSample /\ i' = i + 1) \/ (i' = 1 /\ pc' = "write")
      BY <1>4 DEF SumSample
    <3> QED BY <2>1, <3>1, <3>2, NumSample \in Nat DEF Sample
  <2> QED BY <1>4, <2>2, <2>3
      DEF SumSample, IInv, TypeOK, Lifecycle, Mapped, Clean, Sums, PartTicks,
          ActiveTicks
<1>5. CASE WriteHead
  <2>1. Estimate \in 0 .. Frequency
    BY <1>5, PublishedBounds DEF WriteHead, IInv, TypeOK, Sums
  <2>2. Clamped(Estimate) \in 0 .. FpsCap
    BY <2>1 DEF Clamped
  <2>3. i \in Sample /\ fps' \in 0 .. FpsCap /\ number' \in 0 .. MaxFrames
    BY <1>5, <2>2 DEF WriteHead, IInv, TypeOK
  <2>4. TypeOK'
    BY <1>5, <2>3 DEF WriteHead, IInv, TypeOK
  <2>5. Lifecycle' /\ Mapped' /\ Sums' /\ ActiveTicks'
    BY <1>5 DEF WriteHead, IInv, Lifecycle, Mapped, Sums, ActiveTicks
  <2>6. PartTicks'
    BY <1>5, <2>3 DEF WriteHead, IInv, PartTicks, Sample
  <2>7. Clean'
    BY <1>5 DEF WriteHead, IInv, Mapped, Clean
  <2> QED BY <2>4, <2>5, <2>6, <2>7 DEF IInv
<1>6. CASE WriteTick
  <2> DEFINE tick == Published(sample[i])
  <2>1. tick \in 1 .. Frequency
    <3>1. sample[i] \in 0 .. Frequency - 1
      BY DEF IInv, TypeOK
    <3> QED BY <1>6, <3>1, PublishedBounds DEF WriteTick, IInv, TypeOK, Sums
  <2> HIDE DEF tick
  <2>2. ticks' = [ticks EXCEPT ![i] = tick]
    BY <1>6 DEF WriteTick, tick
  <2>3. ticks' \in [Sample -> 0 .. Frequency] /\ i' \in Sample
        /\ pc' \in {"ticks", "finish"}
    BY <1>6, <2>1, <2>2 DEF WriteTick, IInv, TypeOK, Sample
  <2>4. PartTicks' /\ ActiveTicks'
    BY <1>6, <2>1, <2>2
    DEF WriteTick, IInv, TypeOK, PartTicks, ActiveTicks, Sample
  <2>5. TypeOK'
    BY <1>6, <2>3 DEF WriteTick, IInv, TypeOK
  <2> QED BY <1>6, <2>3, <2>4, <2>5
      DEF WriteTick, IInv, Lifecycle, Mapped, Clean, Sums
<1>7. CASE Finish
  <2>1. active' \in BOOLEAN /\ recent' \in BOOLEAN
    BY <1>7 DEF Finish
  <2>2. TypeOK'
    BY <1>7, <2>1 DEF Finish, IInv, TypeOK
  <2> QED BY <1>7, <2>2
      DEF Finish, IInv, Lifecycle, Mapped, Clean, Sums, PartTicks, ActiveTicks
<1>8. CASE ClearBlock
  <2>1. active' \in BOOLEAN /\ (active' => active)
    BY <1>8 DEF ClearBlock, FinalActive, IInv, TypeOK
  <2>2. TypeOK'
    <3>1. fps' \in 0 .. FpsCap
      BY <1>8 DEF ClearBlock, IInv, TypeOK
    <3> QED BY <1>8, <2>1, <3>1 DEF ClearBlock, IInv, TypeOK
  <2>3. Clean'
    BY <1>8 DEF ClearBlock, FinalActive, Attached, IInv, Clean
  <2> QED BY <1>8, <2>1, <2>2, <2>3
      DEF ClearBlock, IInv, Lifecycle, Mapped, Sums, PartTicks, ActiveTicks
<1> QED BY <1>1, <1>2, <1>3, <1>4, <1>5, <1>6, <1>7, <1>8 DEF Publisher

-----------------------------------------------------------------------------
\* The inductive invariant holds whatever the host, the clock, the renderer and
\* saltynx_stop() do between the steps of the publisher.
THEOREM Invariant == Spec => []IInv
<1>1. IInv /\ [Next]_vars => IInv'
  <2>1. ASSUME IInv, Next PROVE IInv'
    BY <2>1, HostStep, MainStep, RenderStep, PublisherStep DEF Next
  <2>2. ASSUME IInv, UNCHANGED vars PROVE IInv'
    BY <2>2
    DEF vars, hostVars, blockVars, mapVars, mainVars, publishVars, threadVars,
        frameVars, IInv, TypeOK, Lifecycle, Mapped, Clean, Sums, PartTicks,
        ActiveTicks
  <2> QED BY <2>1, <2>2
<1> QED BY <1>1, InitInv, PTL DEF Spec

\* Every variable of saltynx.cpp stays in its range; fps fits its byte.
THEOREM TypeCorrect == Spec => []TypeOK
<1>1. IInv => TypeOK
  BY DEF IInv
<1> QED BY <1>1, Invariant, PTL

\* The publisher touches the block only while the page is mapped.
THEOREM AccessCorrect == Spec => []AccessMapped
<1>1. IInv => AccessMapped
  BY DEF IInv, Mapped, AccessMapped
<1> QED BY <1>1, Invariant, PTL

\* After saltynx_stop() no block with the magic claims to be active.
THEOREM StopCorrect == Spec => []StoppedInactive
<1>1. IInv => StoppedInactive
  BY DEF IInv, Lifecycle, Clean, StoppedInactive
<1> QED BY <1>1, Invariant, PTL

\* The host never divides by the ticks of an active block that are 0.
THEOREM TicksCorrect == Spec => []ActiveTicks
<1>1. IInv => ActiveTicks
  BY DEF IInv
<1> QED BY <1>1, Invariant, PTL

\* publish() never reports 0 frames per second for a game that has rendered
\* within the last second and has a sample.
THEOREM EstimateCorrect == Spec => []EstimatePositive
<1>1. ASSUME IInv PROVE EstimatePositive
  <2>1. SUFFICES ASSUME pc = "write", recent, count > 0
                 PROVE  Estimate \in 1 .. Frequency
    BY DEF EstimatePositive
  <2>2. sum \in Nat \ {0} /\ count \in Nat /\ count <= sum
        /\ sum <= Frequency * count
    BY <1>1, <2>1 DEF IInv, TypeOK, Sums
  <2> QED BY <2>1, <2>2, RoundedBounds DEF Estimate
<1> QED BY <1>1, Invariant, PTL

\* What the host reads is sound: inactive, or with ticks it can divide by, and
\* never 0 frames per second for a game that renders.
THEOREM ReportCorrect == Spec => []ReportSound
<1>1. StoppedInactive /\ ActiveTicks /\ EstimatePositive => ReportSound
  BY DEF ReportSound
<1> QED BY <1>1, StopCorrect, TicksCorrect, EstimateCorrect, PTL
=============================================================================
