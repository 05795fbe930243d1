-------------------------- MODULE Peripherals_proofs --------------------------
(***************************************************************************)
(* Proofs about what else the FPGA holds.  The bench, for every size of    *)
(* frame, every number of frames, every depth of the FIFO and each of the  *)
(* generators: the generators alone, the module that captures frames, and  *)
(* both together.  The hex display, for any number of bits and digits, and *)
(* its daemon, for any addresses and any number of clock steps.            *)
(***************************************************************************)
EXTENDS Bench, HexIpDaemon, CommonLemmas

-----------------------------------------------------------------------------
(* The generators                                                          *)

\* The counter is one beat ahead of the registered outputs.  That of the
\* generator with garbage stands at Period when the others are at 0 again.
Ahead(n) == IF kind # "garbage" /\ n = Pixels - 1 THEN 0 ELSE n + 1

InStep ==
    /\ source.valid => source = BeatAt(expected) /\ pixel_counter = Ahead(expected)
    /\ ~source.valid => source = Silent /\ pixel_counter = 0 /\ expected = 0

GenInv == GenTypeOK /\ InStep

LEMMA PixelsFact == Pixels \in Nat /\ Pixels > 1 /\ Garbage \in Nat /\ Period \in Nat
                    /\ Period >= Pixels /\ Period <= Pixels + Garbage
  BY PixelsAssumption, GarbageAssumption DEF Period

\* What a generator registers for place n of the period is a beat.
LEMMA BeatType ==
    ASSUME NEW n \in Nat
    PROVE  BeatAt(n) \in [valid : BOOLEAN, sop : BOOLEAN, eop : BOOLEAN, data : Nat \cup {Ones}]
  <1>1. n % ByteSize \in Nat
    BY ByteAssumption
  <1>2. CASE n >= Pixels
    BY <1>2, PixelsFact DEF BeatAt, Output
  <1>3. CASE n < Pixels /\ kind = "byte"
    BY <1>1, <1>3, PixelsFact DEF BeatAt, Output
  <1>4. CASE n < Pixels /\ kind # "byte"
    BY <1>4, PixelsFact DEF BeatAt, Output
  <1> QED
    BY <1>2, <1>3, <1>4, PixelsFact

\* The counter stays in its range.
LEMMA AheadType ==
    ASSUME NEW n \in 0 .. Period - 1
    PROVE  Ahead(n) \in 0 .. Pixels + Garbage
  <1>1. n + 1 \in 0 .. Pixels + Garbage
    BY PixelsFact
  <1>2. 0 \in 0 .. Pixels + Garbage
    BY PixelsFact
  <1> QED
    BY <1>1, <1>2 DEF Ahead

LEMMA GenInitInv == GenInit => GenInv
  BY PixelsFact DEF GenInit, GenInv, GenTypeOK, InStep, Silent

\* A beat that is taken makes the next one of the period follow it; without
\* one, the first beat of a frame comes.
LEMMA Registered ==
    ASSUME GenInv, GenClock(TRUE)
    PROVE  /\ expected' \in 0 .. Period - 1
           /\ source' = BeatAt(expected')
           /\ pixel_counter' = Ahead(expected')
  <1> USE PixelsFact DEF GenInv, GenTypeOK, InStep
  <1>1. expected' = IF source.valid /\ expected # Period - 1 THEN expected + 1 ELSE 0
    BY DEF GenClock, Taken
  <1>2. expected \in Nat /\ expected' \in 0 .. Period - 1
    BY <1>1
  <1>3. CASE kind # "garbage"
    <2>1. Period = Pixels
      BY <1>3 DEF Period
    <2>2. pixel_counter \in 0 .. Pixels - 1 /\ pixel_counter = expected'
      BY <1>1, <1>3, <2>1 DEF Ahead
    <2>3. pixel_counter' = Ahead(expected')
      BY <1>3, <2>2 DEF GenClock, ByteClock, QwordClock, Ahead
    <2>4. source' = Output(pixel_counter, IF kind = "byte" THEN pixel_counter % ByteSize
                                                          ELSE pixel_counter)
      BY <1>3 DEF GenClock, ByteClock, QwordClock
    <2>5. source' = BeatAt(expected')
      BY <1>2, <2>1, <2>2, <2>4 DEF BeatAt
    <2> QED
      BY <1>2, <2>3, <2>5
  <1>4. CASE kind = "garbage"
    <2>1. Period = Pixels + Garbage
      BY <1>4 DEF Period
    <2>2. GarbageClock(TRUE)
      BY <1>4 DEF GenClock
    <2>3. CASE pixel_counter = Pixels + Garbage
      <3>1. expected' = 0
        BY <1>1, <1>4, <2>1, <2>3 DEF Ahead
      <3>2. pixel_counter' = 1 /\ source' = Output(0, 0)
        BY <2>2, <2>3 DEF GarbageClock
      <3> QED
        BY <1>2, <1>4, <3>1, <3>2 DEF Ahead, BeatAt
    <2>4. CASE pixel_counter # Pixels + Garbage
      <3>1. expected' = pixel_counter
        BY <1>1, <1>4, <2>1, <2>4 DEF Ahead
      <3>2. /\ pixel_counter' = pixel_counter + 1
            /\ source' = Output(pixel_counter,
                                IF pixel_counter < Pixels THEN pixel_counter ELSE Ones)
        BY <2>2, <2>4 DEF GarbageClock
      <3> QED
        BY <1>2, <1>4, <3>1, <3>2 DEF Ahead, BeatAt
    <2> QED
      BY <2>3, <2>4
  <1> QED
    BY <1>3, <1>4

LEMMA GenStepInv == GenInv /\ [GenNext]_genVars => GenInv'
  <1> SUFFICES ASSUME GenInv, [GenNext]_genVars PROVE GenInv'
    OBVIOUS
  <1> USE PixelsFact
  <1>1. CASE UNCHANGED genVars
    BY <1>1 DEF genVars, GenInv, GenTypeOK, InStep, BeatAt, Output, Ahead, Period
  <1>2. CASE GenReset
    BY <1>2 DEF GenReset, Silent, GenInv, GenTypeOK, InStep, Period
  <1>3. ASSUME NEW ready \in BOOLEAN, GenClock(ready) PROVE GenInv'
    <2>1. kind' = kind
      BY <1>3 DEF GenClock
    <2>2. CASE ~ready
      BY <1>3, <2>1, <2>2
         DEF GenClock, ByteClock, QwordClock, GarbageClock, Taken, genVars,
             GenInv, GenTypeOK, InStep, BeatAt, Output, Ahead, Period
    <2>3. CASE ready
      <3>1. /\ expected' \in 0 .. Period - 1
            /\ source' = BeatAt(expected')
            /\ pixel_counter' = Ahead(expected')
        BY <1>3, <2>3, Registered
      <3>2. source' \in [valid : BOOLEAN, sop : BOOLEAN, eop : BOOLEAN, data : Nat \cup {Ones}]
        BY <3>1, BeatType
      <3>3. source'.valid
        BY <3>1 DEF BeatAt, Output
      <3>4. pixel_counter' \in 0 .. Pixels + Garbage
        BY <3>1, AheadType
      <3>5. Period' = Period
        BY <2>1 DEF Period
      <3>6. InStep'
        BY <2>1, <3>1, <3>3 DEF InStep, BeatAt, Output, Ahead
      <3>7. kind' \in Kinds
        BY <2>1 DEF GenInv, GenTypeOK
      <3> QED
        BY <3>1, <3>2, <3>4, <3>5, <3>6, <3>7 DEF GenInv, GenTypeOK
    <2> QED
      BY <2>2, <2>3
  <1> QED
    BY <1>1, <1>2, <1>3 DEF GenNext

LEMMA GenInvariant == GenSpec => []GenInv
  BY GenInitInv, GenStepInv, PTL DEF GenSpec

(***************************************************************************)
(* The registers of each generator keep their ranges.                      *)
(***************************************************************************)
THEOREM GenTypeCorrect == GenSpec => []GenTypeOK
  <1>1. GenInv => GenTypeOK
    BY DEF GenInv
  <1> QED
    BY <1>1, GenInvariant, PTL

(***************************************************************************)
(* For every frame size, every amount of garbage and every sink: the beats *)
(* that are taken are those of whole frames, in their order.               *)
(***************************************************************************)
THEOREM GeneratorKeepsOrder == GenSpec => []BeatsInOrder
  <1>1. GenInv => BeatsInOrder
    BY DEF GenInv, InStep, BeatsInOrder
  <1> QED
    BY <1>1, GenInvariant, PTL

-----------------------------------------------------------------------------
(* The generators on the bench                                             *)

\* What the bench does to its generator is a step of it, or nothing.
LEMMA BenchGenStep == [Next]_vars => [GenNext]_genVars
  <1> SUFFICES ASSUME [Next]_vars PROVE [GenNext]_genVars
    OBVIOUS
  <1>1. CASE UNCHANGED vars
    BY <1>1 DEF vars
  <1>2. CASE Clock
    <2>1. CASE Len(fifo) < Depth
      <3>1. GenClock(TRUE)
        BY <1>2, <2>1 DEF Clock, GenClock, ByteClock, QwordClock, GarbageClock, Taken
      <3> QED
        BY <3>1 DEF GenNext
    <2>2. CASE ~(Len(fifo) < Depth)
      <3>1. GenClock(FALSE)
        BY <1>2, <2>2 DEF Clock, GenClock, ByteClock, QwordClock, GarbageClock, Taken
      <3> QED
        BY <3>1 DEF GenNext
    <2> QED
      BY <2>1, <2>2
  <1>3. CASE DmaTakes \/ LoadModule \/ ModuleStep \/ Reset
    BY <1>3 DEF DmaTakes, LoadModule, ModuleStep, Reset, GenNext
  <1> QED
    BY <1>1, <1>2, <1>3 DEF Next

\* The bench is one of the environments a generator is proved for.
THEOREM BenchDrivesGenerator == Spec => GenSpec
  <1>1. Init => GenInit
    BY DEF Init
  <1> QED
    BY <1>1, BenchGenStep, PTL DEF Spec, GenSpec

\* Behind a FIFO, too, the beats that are taken are those of whole frames.
THEOREM BenchKeepsOrder == Spec => []BeatsInOrder
  BY BenchDrivesGenerator, GeneratorKeepsOrder, PTL

-----------------------------------------------------------------------------
(* The module that captures frames                                         *)

Beats == [valid : BOOLEAN, sop : BOOLEAN, eop : BOOLEAN, data : Nat \cup {Ones}]

BenchTypes ==
    /\ CaptureTypeOK
    /\ fifo \in Seq(Beats)
    /\ memory \in [Frames -> Seq(Beats)]
    /\ loads \in 0 .. MaxLoads
    /\ aligned \in BOOLEAN

\* A descriptor is out only while capture_frame() waits for it, and from the
\* configuration on all buffers are there.
CaptureInv ==
    /\ transfer.at # "idle" => initPc = "wait" /\ transfer.buf = frame
    /\ initPc = "wait" /\ dma_done => transfer.at = "idle"
    /\ initPc \in {"config", "start", "wait", "save", "succeed"} =>
           \A k \in Frames : bufs[k] = "allocated"
    /\ initPc = "alloc" => \A k \in Frames : k < frame => bufs[k] = "allocated"

BenchInv == GenInv /\ BenchTypes /\ CaptureInv

LEMMA BenchFacts ==
    /\ NumFrames \in Nat /\ NumFrames > 0 /\ 1 \in Frames
    /\ NoTransfer.at = "idle" /\ NoTransfer.buf = 0
    /\ NoTransfer \in [at : {"idle", "running", "done"}, buf : {0} \cup Frames]
    /\ MaxLoads \in Nat
  BY FramesAssumption, BenchAssumption DEF Frames, NoTransfer

LEMMA BenchInitInv == Init => BenchInv
  <1> SUFFICES ASSUME Init PROVE BenchInv
    OBVIOUS
  <1>1. GenInv
    BY GenInitInv DEF Init
  <1>2. << >> \in Seq(Beats)
    BY EmptySeq
  <1>3. CaptureTypeOK
    BY BenchFacts DEF Init, CaptureInit, CaptureTypeOK
  <1>4. CaptureInv
    BY BenchFacts DEF Init, CaptureInit, CaptureInv
  <1> QED
    <2>1. memory \in [Frames -> Seq(Beats)] /\ fifo \in Seq(Beats)
      BY <1>2 DEF Init
    <2>2. loads = 0 /\ aligned = FALSE
      BY DEF Init
    <2>3. loads \in 0 .. MaxLoads
      BY <2>2, BenchAssumption
    <2>4. aligned \in BOOLEAN
      BY <2>2
    <2> QED
      BY <1>1, <1>3, <1>4, <2>1, <2>3, <2>4 DEF BenchInv, BenchTypes

LEMMA StartEffect ==
    ASSUME StartCapture
    PROVE  /\ initPc = "start" /\ bufs' = bufs
           /\ \/ /\ transfer' = [at |-> "running", buf |-> frame]
                 /\ transfer'.at = "running" /\ transfer'.buf = frame
                 /\ frame' = frame /\ initPc' = "wait" /\ dma_done' = FALSE
              \/ frame' = 1 /\ initPc' = "fail" /\ transfer' = transfer
  <1>1. [at |-> "running", buf |-> frame].at = "running" /\ [at |-> "running", buf |-> frame].buf = frame
    OBVIOUS
  <1> QED
    BY <1>1, Zenon DEF StartCapture, To

\* The steps of the module's functions.
LEMMA CaptureStep ==
    ASSUME BenchInv, ModuleStep
    PROVE  BenchTypes' /\ CaptureInv'
  <1> USE BenchFacts DEF BenchInv, BenchTypes, CaptureTypeOK, CaptureInv, To
  <1>0. UNCHANGED benchVars
    BY DEF ModuleStep
  <1>1. CASE Allocate
    <2>1. frame # NumFrames => frame + 1 \in Frames
      BY DEF Frames
    <2>2. \A k \in Frames : k < frame + 1 => k < frame \/ k = frame
      BY DEF Frames
    <2>3. frame = NumFrames => \A k \in Frames : k < frame + 1
      BY DEF Frames
    <2>4. \A k \in Frames : ~(k < 1)
      BY DEF Frames
    <2>5. CaptureTypeOK'
      BY <1>1, <2>1 DEF Allocate, NextFrame
    <2>6. CaptureInv'
      BY <1>1, <2>1, <2>2, <2>3, <2>4 DEF Allocate, NextFrame
    <2> QED
      BY <1>0, <2>5, <2>6 DEF benchVars
  <1>2. CASE Configure
    BY <1>0, <1>2 DEF Configure, benchVars
  <1>3. CASE StartCapture
    <2>1. [at |-> "running", buf |-> frame] \in [at : {"idle", "running", "done"}, buf : {0} \cup Frames]
      OBVIOUS
    <2>2. CaptureTypeOK'
      BY <1>3, <2>1 DEF StartCapture
    <2>3. transfer.at = "idle"
      BY <1>3 DEF StartCapture
    <2>4. \/ /\ transfer'.at = "running" /\ transfer'.buf = frame /\ frame' = frame
             /\ initPc' = "wait" /\ dma_done' = FALSE
          \/ initPc' = "fail" /\ transfer' = transfer
      BY <1>3, StartEffect
    <2>5. initPc = "start" /\ bufs' = bufs
      BY <1>3, StartEffect
    <2>6. CaptureInv'
      BY <2>3, <2>4, <2>5
    <2> QED
      BY <1>0, <2>2, <2>6 DEF benchVars
  <1>4. CASE Captured
    <2>1. frame # NumFrames => frame + 1 \in Frames
      BY DEF Frames
    <2> QED
      BY <1>0, <1>4, <2>1 DEF Captured, benchVars
  <1>5. CASE TimedOut
    <2>1. CaptureTypeOK'
      BY <1>5 DEF TimedOut
    <2>2. CaptureInv'
      BY <1>5 DEF TimedOut
    <2> QED
      BY <1>0, <2>1, <2>2 DEF benchVars
  <1>6. CASE Save
    <2>1. frame # NumFrames => frame + 1 \in Frames
      BY DEF Frames
    <2> QED
      BY <1>0, <1>6, <2>1 DEF Save, NextFrame, benchVars
  <1>7. CASE Free
    BY <1>0, <1>7 DEF Free, benchVars
  <1>8. CASE Callback
    BY <1>0, <1>8 DEF Callback, benchVars
  <1>9. CASE Unload
    BY <1>0, <1>9 DEF Unload, benchVars
  <1> QED
    BY <1>1, <1>2, <1>3, <1>4, <1>5, <1>6, <1>7, <1>8, <1>9 DEF ModuleStep, InitStep

\* A beat that goes into memory.
LEMMA TakeStep ==
    ASSUME BenchInv, DmaTakes
    PROVE  BenchTypes' /\ CaptureInv'
  <1> USE DEF BenchInv, BenchTypes, CaptureTypeOK
  <1>1. Tail(fifo) \in Seq(Beats) /\ Head(fifo) \in Beats
    BY HeadTailProperties DEF DmaTakes
  <1>2. transfer.buf \in Frames /\ transfer.at = "running" /\ initPc = "wait"
    BY DEF DmaTakes, CaptureInv
  <1>3. Append(memory[transfer.buf], Head(fifo)) \in Seq(Beats)
    BY <1>1, <1>2, AppendProperties
  <1>4. fifo' \in Seq(Beats) /\ memory' \in [Frames -> Seq(Beats)]
    BY <1>1, <1>3 DEF DmaTakes
  <1>5. /\ transfer' \in [at : {"idle", "running", "done"}, buf : {0} \cup Frames]
        /\ transfer'.buf = transfer.buf /\ transfer'.at # "idle"
    BY <1>2 DEF DmaTakes
  <1>6. BenchTypes'
    BY <1>4, <1>5 DEF DmaTakes
  <1>7. CaptureInv'
    BY <1>2, <1>5 DEF DmaTakes, CaptureInv
  <1> QED
    BY <1>6, <1>7

LEMMA BenchStepInv == BenchInv /\ [Next]_vars => BenchInv'
  <1> SUFFICES ASSUME BenchInv, [Next]_vars PROVE BenchInv'
    OBVIOUS
  <1>1. GenInv'
    BY BenchGenStep, GenStepInv DEF BenchInv
  <1>2. CASE UNCHANGED vars
    BY <1>1, <1>2 DEF vars, captureVars, benchVars, BenchInv, BenchTypes, CaptureTypeOK, CaptureInv
  <1>3. CASE Clock
    <2>1. source \in Beats
      BY DEF BenchInv, GenInv, GenTypeOK, Beats
    <2>2. Append(fifo, source) \in Seq(Beats)
      BY <2>1, AppendProperties DEF BenchInv, BenchTypes
    <2>3. BenchTypes'
      BY <1>3, <2>2 DEF Clock, captureVars, BenchInv, BenchTypes, CaptureTypeOK
    <2>4. CaptureInv'
      BY <1>3 DEF Clock, captureVars, BenchInv, CaptureInv
    <2> QED
      BY <1>1, <2>3, <2>4 DEF BenchInv
  <1>4. CASE DmaTakes
    BY <1>1, <1>4, TakeStep DEF BenchInv
  <1>5. CASE LoadModule
    <2>1. << >> \in Seq(Beats) /\ loads' \in 0 .. MaxLoads
      BY <1>5, EmptySeq, BenchFacts DEF LoadModule, BenchInv, BenchTypes
    <2>2. BetweenFrames \in BOOLEAN
      BY DEF BetweenFrames, BenchInv, GenInv, GenTypeOK
    <2>3. BenchTypes'
      BY <1>5, <2>1, <2>2, BenchFacts
         DEF LoadModule, Load, To, BenchInv, BenchTypes, CaptureTypeOK
    <2>4. CaptureInv'
      <3>1. \A k \in Frames : ~(k < 1)
        BY DEF Frames
      <3> QED
        BY <1>5, <3>1 DEF LoadModule, Load, To, BenchInv, CaptureInv
    <2> QED
      BY <1>1, <2>3, <2>4 DEF BenchInv
  <1>6. CASE ModuleStep
    BY <1>1, <1>6, CaptureStep DEF BenchInv
  <1>7. CASE Reset
    <2>1. << >> \in Seq(Beats)
      BY EmptySeq
    <2>2. BenchTypes'
      BY <1>7, <2>1, BenchFacts DEF Reset, BenchInv, BenchTypes, CaptureTypeOK
    <2>3. CaptureInv'
      BY <1>7, BenchFacts DEF Reset, BenchInv, CaptureInv
    <2> QED
      BY <1>1, <2>2, <2>3 DEF BenchInv
  <1> QED
    BY <1>2, <1>3, <1>4, <1>5, <1>6, <1>7 DEF Next

LEMMA BenchInvariant == Spec => []BenchInv
  BY BenchInitInv, BenchStepInv, PTL DEF Spec

\* Every variable of the bench keeps its type.
THEOREM BenchTypeCorrect == Spec => []TypeOK
  <1>1. BenchInv => TypeOK
    BY DEF BenchInv, GenInv, BenchTypes, TypeOK
  <1> QED
    BY <1>1, BenchInvariant, PTL

(***************************************************************************)
(* However capture_frame() ends, and however many frames it takes, no DMA  *)
(* and no callback is to come when the buffers are freed.                  *)
(***************************************************************************)
THEOREM FreedBuffersAtRest == Spec => []NoDmaIntoFreed
  <1>1. ASSUME BenchInv PROVE NoDmaIntoFreed
    BY <1>1 DEF BenchInv, BenchTypes, CaptureTypeOK, CaptureInv, NoDmaIntoFreed
  <1> QED
    BY <1>1, BenchInvariant, PTL

-----------------------------------------------------------------------------
(* The frames that are saved                                               *)

BeatPlaces == 0 .. Pixels - 1
After(n) == IF n = Pixels - 1 THEN 0 ELSE n + 1

\* The FIFO holds the beats from place n of a frame up to the one that the
\* generator is about to give.
Stream(n) ==
    \E p \in [1 .. Len(fifo) + 1 -> BeatPlaces] :
        /\ p[1] = n
        /\ p[Len(fifo) + 1] = expected
        /\ \A j \in 1 .. Len(fifo) : fifo[j] = BeatAt(p[j]) /\ p[j + 1] = After(p[j])

Begun(m) == Len(m) < Pixels /\ \A j \in 1 .. Len(m) : m[j] = BeatAt(j - 1)

\* The frame on its way into its buffer goes on where the FIFO goes on.
UnderWay ==
    IF transfer.at = "running"
    THEN Begun(memory[frame]) /\ Stream(Len(memory[frame]))
    ELSE memory[frame] = WholeFrame /\ Stream(0)

\* The generators this is about: what they give is packets as long as a buffer.
Suits == kind # "garbage" /\ Fits

\* In a load that began between two frames, the frames so far are whole and
\* the DMA is between two frames whenever no descriptor is out.
FramesInv ==
    Suits =>
        /\ \E n \in BeatPlaces : Stream(n)
        /\ aligned =>
            /\ initPc \in {"alloc", "config", "start"} => Stream(0)
            /\ initPc \in {"alloc", "config"} => \A k \in Frames : memory[k] = << >>
            /\ initPc = "start" => \A k \in Frames :
                   memory[k] = IF k < frame THEN WholeFrame ELSE << >>
            /\ initPc = "wait" => UnderWay /\ \A k \in Frames : k # frame =>
                   memory[k] = IF k < frame THEN WholeFrame ELSE << >>
            /\ initPc = "save" => \A k \in Frames : memory[k] = WholeFrame

LEMMA BeatKept ==
    ASSUME kind' = kind
    PROVE  (\A n : BeatAt(n)' = BeatAt(n)) /\ WholeFrame' = WholeFrame
  BY DEF BeatAt, Output, WholeFrame

LEMMA SuitsKept == kind' = kind => Suits' = Suits
  BY DEF Suits, Fits, BeatBytes

\* A buffer is full with the last beat of a frame, and not before.
LEMMA FullAtEnd ==
    ASSUME Suits, NEW beats, Len(beats) \in 0 .. Pixels
    PROVE  Full(beats) <=> Len(beats) = Pixels
  <1>1. BeatBytes \in Nat \ {0} /\ Pixels * BeatBytes = FrameLen
    BY BytesAssumption DEF Suits, Fits, BeatBytes
  <1>2. ASSUME NEW a \in Nat, NEW b \in Nat, NEW c \in Nat \ {0}, a < b PROVE a * c < b * c
    <2>1. PICK d \in Nat : b = a + d + 1
      <3>1. b - a - 1 \in Nat /\ b = a + (b - a - 1) + 1
        BY <1>2
      <3> QED BY <3>1
    <2>2. b * c = a * c + d * c + c
      BY <2>1
    <2>3. d * c \in Nat /\ a * c \in Nat /\ b * c \in Nat
      OBVIOUS
    <2> QED BY <2>2, <2>3
  <1>3. Len(beats) \in Nat /\ Pixels \in Nat /\ (Len(beats) = Pixels \/ Len(beats) < Pixels)
    BY PixelsFact
  <1>4. CASE Len(beats) = Pixels
    BY <1>1, <1>3, <1>4 DEF Full
  <1>5. CASE Len(beats) < Pixels
    <2>1. Len(beats) * BeatBytes < Pixels * BeatBytes
      BY <1>1, <1>2, <1>3, <1>5
    <2> QED BY <1>1, <1>3, <1>5, <2>1 DEF Full
  <1> QED BY <1>3, <1>4, <1>5

LEMMA StreamKept ==
    ASSUME UNCHANGED <<kind, fifo, expected>>, NEW n, Stream(n)
    PROVE  Stream(n)'
  BY BeatKept DEF Stream

\* A beat that is given goes to the end of the stream.
LEMMA StreamGrows ==
    ASSUME BenchInv, kind # "garbage", Clock, NEW n, Stream(n)
    PROVE  Stream(n)'
  <1>1. kind' = kind
    BY DEF Clock, GenClock
  <1>2. CASE ~Taken(Len(fifo) < Depth)
    BY <1>1, <1>2, StreamKept DEF Clock, GenClock
  <1>3. CASE Taken(Len(fifo) < Depth)
    <2>1. source = BeatAt(expected)
      BY <1>3 DEF Taken, BenchInv, GenInv, InStep
    <2>2. expected' = After(expected)
      BY <1>3 DEF Clock, GenClock, Taken, Period, After
    <2>3. fifo' = Append(fifo, source)
      BY <1>3 DEF Clock
    <2>4. fifo \in Seq(Beats) /\ source \in Beats
      BY DEF BenchInv, BenchTypes, GenInv, GenTypeOK, Beats
    <2>5. /\ Len(fifo) \in Nat /\ Len(fifo') = Len(fifo) + 1
          /\ \A j \in 1 .. Len(fifo) : fifo'[j] = fifo[j]
          /\ fifo'[Len(fifo) + 1] = source
      BY <2>3, <2>4, AppendProperties, LenProperties
    <2>6. PICK p \in [1 .. Len(fifo) + 1 -> BeatPlaces] :
              /\ p[1] = n
              /\ p[Len(fifo) + 1] = expected
              /\ \A j \in 1 .. Len(fifo) : fifo[j] = BeatAt(p[j]) /\ p[j + 1] = After(p[j])
      BY DEF Stream
    <2>7. expected \in BeatPlaces /\ After(expected) \in BeatPlaces
      BY <2>5, <2>6, PixelsFact DEF After, BeatPlaces
    <2>8. PICK q \in [1 .. Len(fifo') + 1 -> BeatPlaces] : \A j \in 1 .. Len(fifo') + 1 :
              q[j] = IF j <= Len(fifo) + 1 THEN p[j] ELSE After(expected)
      <3> DEFINE r == [j \in 1 .. Len(fifo') + 1 |->
                           IF j <= Len(fifo) + 1 THEN p[j] ELSE After(expected)]
      <3>1. r \in [1 .. Len(fifo') + 1 -> BeatPlaces]
        BY <2>5, <2>6, <2>7
      <3> QED
        BY <3>1
    <2>9. q[1] = n /\ q[Len(fifo') + 1] = expected'
      BY <2>2, <2>5, <2>6, <2>8
    <2>10. ASSUME NEW j \in 1 .. Len(fifo')
           PROVE  fifo'[j] = BeatAt(q[j])' /\ q[j + 1] = After(q[j])
      <3>1. CASE j \in 1 .. Len(fifo)
        <4>1. q[j] = p[j] /\ q[j + 1] = p[j + 1]
          BY <2>5, <2>8, <3>1
        <4>2. fifo'[j] = BeatAt(p[j]) /\ p[j + 1] = After(p[j])
          BY <2>5, <2>6, <3>1
        <4> QED
          BY <1>1, <4>1, <4>2, BeatKept
      <3>2. CASE j = Len(fifo) + 1
        <4>1. q[j] = expected /\ q[j + 1] = After(expected)
          BY <2>5, <2>6, <2>8, <3>2
        <4>2. fifo'[j] = BeatAt(expected)
          BY <2>1, <2>5, <3>2
        <4> QED
          BY <1>1, <4>1, <4>2, BeatKept
      <3> QED
        BY <2>5, <3>1, <3>2
    <2> QED
      BY <2>9, <2>10 DEF Stream
  <1> QED
    BY <1>2, <1>3

\* The beat the DMA gets is that of the place where the stream begins.
LEMMA StreamHead ==
    ASSUME BenchInv, NEW n, Stream(n), fifo # << >>
    PROVE  n \in BeatPlaces /\ Head(fifo) = BeatAt(n)
  <1>1. fifo \in Seq(Beats)
    BY DEF BenchInv, BenchTypes
  <1>2. Len(fifo) \in Nat /\ Len(fifo) > 0 /\ Head(fifo) = fifo[1]
    BY <1>1, HeadTailProperties, EmptySeq, LenProperties
  <1> QED
    BY <1>2 DEF Stream

LEMMA StreamTaken ==
    ASSUME BenchInv, NEW n, Stream(n), fifo # << >>, fifo' = Tail(fifo),
           UNCHANGED <<kind, expected>>
    PROVE  Stream(After(n))'
  <1>1. fifo \in Seq(Beats)
    BY DEF BenchInv, BenchTypes
  <1>2. /\ Len(fifo) \in Nat /\ Len(fifo) > 0 /\ Len(fifo') = Len(fifo) - 1
        /\ \A j \in 1 .. Len(fifo') : fifo'[j] = fifo[j + 1]
    BY <1>1, HeadTailProperties, EmptySeq, LenProperties
  <1>3. PICK p \in [1 .. Len(fifo) + 1 -> BeatPlaces] :
            /\ p[1] = n
            /\ p[Len(fifo) + 1] = expected
            /\ \A j \in 1 .. Len(fifo) : fifo[j] = BeatAt(p[j]) /\ p[j + 1] = After(p[j])
    BY DEF Stream
  <1>4. PICK q \in [1 .. Len(fifo') + 1 -> BeatPlaces] :
            \A j \in 1 .. Len(fifo') + 1 : q[j] = p[j + 1]
    <2> DEFINE r == [j \in 1 .. Len(fifo') + 1 |-> p[j + 1]]
    <2>1. r \in [1 .. Len(fifo') + 1 -> BeatPlaces]
      BY <1>2, <1>3
    <2> QED
      BY <2>1
  <1>5. q[1] = After(n) /\ q[Len(fifo') + 1] = expected'
    <2>1. q[1] = p[2] /\ p[2] = After(p[1])
      BY <1>2, <1>3, <1>4
    <2>2. q[Len(fifo') + 1] = p[Len(fifo) + 1]
      BY <1>2, <1>4
    <2> QED
      BY <1>3, <2>1, <2>2
  <1>6. ASSUME NEW j \in 1 .. Len(fifo')
        PROVE  fifo'[j] = BeatAt(q[j])' /\ q[j + 1] = After(q[j])
    <2>1. q[j] = p[j + 1] /\ q[j + 1] = p[j + 1 + 1]
      BY <1>2, <1>4
    <2>2. fifo'[j] = BeatAt(p[j + 1]) /\ p[j + 1 + 1] = After(p[j + 1])
      BY <1>2, <1>3
    <2> QED
      BY <2>1, <2>2, BeatKept
  <1> QED
    BY <1>5, <1>6 DEF Stream, After

LEMMA BeatFlags ==
    ASSUME NEW n
    PROVE  BeatAt(n).valid /\ BeatAt(n).sop = (n = 0) /\ BeatAt(n).eop = (n = Pixels - 1)
  BY DEF BeatAt, Output

\* What begins a frame stands at its first place.
LEMMA StreamBegins ==
    ASSUME BenchInv, kind # "garbage", NEW n, Stream(n), BetweenFrames
    PROVE  n = 0
  <1>1. CASE fifo # << >>
    <2>1. n \in BeatPlaces /\ Head(fifo) = BeatAt(n)
      BY <1>1, StreamHead
    <2>2. Head(fifo).sop
      BY <1>1 DEF BetweenFrames
    <2> QED
      BY <2>1, <2>2, BeatFlags
  <1>2. CASE fifo = << >>
    <2>1. Len(fifo) = 0
      BY <1>2, EmptySeq
    <2>2. n = expected
      BY <2>1 DEF Stream
    <2>3. source.valid => source.sop
      BY <1>2 DEF BetweenFrames
    <2>4. expected = 0
      <3>1. CASE source.valid
        <4>1. source = BeatAt(expected)
          BY <3>1 DEF BenchInv, GenInv, InStep
        <4> QED
          BY <2>3, <3>1, <4>1, BeatFlags
      <3>2. CASE ~source.valid
        BY <3>2 DEF BenchInv, GenInv, InStep
      <3> QED
        BY <3>1, <3>2
    <2> QED
      BY <2>2, <2>4
  <1> QED
    BY <1>1, <1>2

LEMMA OnePlace == \E p \in [1 .. 0 + 1 -> BeatPlaces] : p[1] = 0
  <1>1. 0 \in BeatPlaces
    BY PixelsFact DEF BeatPlaces
  <1> DEFINE r == [j \in 1 .. 0 + 1 |-> 0]
  <1>2. r \in [1 .. 0 + 1 -> BeatPlaces] /\ r[1] = 0
    BY <1>1
  <1> HIDE DEF r
  <1> QED
    BY <1>2

\* A frame that has begun is whole with the beat of its last place.
LEMMA FrameGrows ==
    ASSUME NEW m \in Seq(Beats), Begun(m), NEW m2, m2 = Append(m, BeatAt(Len(m))),
           BeatAt(Len(m)) \in Beats
    PROVE  /\ m2 \in Seq(Beats) /\ Len(m2) = Len(m) + 1
           /\ Len(m) + 1 = Pixels => m2 = WholeFrame
           /\ Len(m) + 1 # Pixels => Begun(m2)
  <1>1. /\ Len(m) \in Nat /\ m2 \in Seq(Beats) /\ Len(m2) = Len(m) + 1
        /\ \A j \in 1 .. Len(m) : m2[j] = m[j]
        /\ m2[Len(m) + 1] = BeatAt(Len(m))
    BY AppendProperties, LenProperties
  <1>2. \A j \in 1 .. Len(m2) : m2[j] = BeatAt(j - 1)
    <2> TAKE j \in 1 .. Len(m2)
    <2>1. CASE j \in 1 .. Len(m)
      BY <1>1, <2>1 DEF Begun
    <2>2. CASE j = Len(m) + 1
      BY <1>1, <2>2
    <2> QED
      BY <1>1, <2>1, <2>2
  <1>3. CASE Len(m) + 1 = Pixels
    <2>1. m2 = [j \in 1 .. Pixels |-> m2[j]]
      BY <1>1, <1>3, LenProperties
    <2>2. \A j \in 1 .. Pixels : m2[j] = BeatAt(j - 1)
      BY <1>1, <1>2, <1>3
    <2> QED
      BY <1>1, <1>3, <2>1, <2>2 DEF WholeFrame
  <1>4. CASE Len(m) + 1 # Pixels
    BY <1>1, <1>2, <1>4, PixelsFact DEF Begun
  <1> QED
    BY <1>1, <1>3, <1>4

LEMMA FramesInit == Init => FramesInv
  <1> SUFFICES ASSUME Init PROVE FramesInv
    OBVIOUS
  <1>1. Stream(0)
    BY OnePlace, EmptySeq DEF Init, GenInit, Stream
  <1>2. 0 \in BeatPlaces
    BY PixelsFact DEF BeatPlaces
  <1>3. aligned = FALSE
    BY DEF Init
  <1> QED
    BY <1>1, <1>2, <1>3 DEF FramesInv

\* A load begins where the stream does; what was captured before is gone.
LEMMA FramesLoad ==
    ASSUME BenchInv, FramesInv, LoadModule, Suits
    PROVE  FramesInv'
  <1>1. UNCHANGED <<kind, fifo, expected>>
    BY DEF LoadModule, genVars
  <1>2. \A n : Stream(n) => Stream(n)'
    BY <1>1, StreamKept
  <1>3. PICK n \in BeatPlaces : Stream(n)
    BY DEF FramesInv
  <1>4. aligned' => n = 0
    BY <1>3, StreamBegins DEF LoadModule, Suits
  <1>5. initPc' = "alloc" /\ memory' = [k \in Frames |-> << >>]
    BY DEF LoadModule, Load, To
  <1> QED
    BY <1>1, <1>2, <1>3, <1>4, <1>5, SuitsKept DEF FramesInv

LEMMA FramesTake ==
    ASSUME BenchInv, FramesInv, DmaTakes, Suits
    PROVE  FramesInv'
  <1> DEFINE m == memory[frame]
  <1>1. /\ transfer.at = "running" /\ transfer.buf = frame /\ initPc = "wait"
        /\ fifo # << >> /\ fifo' = Tail(fifo)
        /\ UNCHANGED <<kind, expected, initPc, frame, aligned>>
    BY DEF DmaTakes, genVars, BenchInv, CaptureInv
  <1>2. ASSUME NEW n, Stream(n) PROVE After(n) \in BeatPlaces /\ Stream(After(n))'
    <2>1. n \in BeatPlaces
      BY <1>1, <1>2, StreamHead
    <2> QED
      BY <1>1, <1>2, <2>1, StreamTaken, PixelsFact DEF BeatPlaces, After
  <1>3. \E n \in BeatPlaces : Stream(n)'
    BY <1>2 DEF FramesInv
  <1>4. ASSUME aligned
        PROVE  UnderWay' /\ \A k \in Frames : k # frame' =>
                   memory'[k] = IF k < frame' THEN WholeFrame' ELSE << >>
    <2>1. /\ UnderWay
          /\ \A k \in Frames : k # frame => memory[k] = IF k < frame THEN WholeFrame ELSE << >>
      BY <1>1, <1>4 DEF FramesInv
    <2>2. Begun(m) /\ Stream(Len(m))
      BY <1>1, <2>1 DEF UnderWay
    <2>3. Head(fifo) = BeatAt(Len(m)) /\ Len(m) \in BeatPlaces
      BY <1>1, <2>2, StreamHead
    <2>4. /\ m \in Seq(Beats) /\ frame \in Frames /\ fifo \in Seq(Beats)
          /\ Head(fifo) \in Beats /\ memory \in [Frames -> Seq(Beats)]
      BY <1>1, HeadTailProperties DEF BenchInv, BenchTypes, CaptureTypeOK
    <2>5. ~OutOfPacket(Head(fifo))
      <3>1. \A n \in Nat : n % ByteSize \in Nat
        BY ByteAssumption
      <3>2. Len(m) \in Nat
        BY <2>3, PixelsFact DEF BeatPlaces
      <3>3. Len(m) % ByteSize \in Nat
        BY <3>1, <3>2
      <3> QED
        BY <2>3, <3>3, PixelsFact DEF Suits, BeatPlaces, OutOfPacket, BeatAt, Output, Ones
    <2>6. Full(Append(m, Head(fifo))) <=> Len(m) + 1 = Pixels
      <3>1. Len(Append(m, Head(fifo))) = Len(m) + 1
        BY <2>4, AppendProperties
      <3>2. Len(m) + 1 \in 0 .. Pixels
        BY <2>3, PixelsFact DEF BeatPlaces
      <3> QED BY <3>1, <3>2, FullAtEnd
    <2>7. /\ memory' = [memory EXCEPT ![frame] = Append(m, Head(fifo))]
          /\ transfer' = IF Head(fifo).eop \/ Len(m) + 1 = Pixels
                         THEN [transfer EXCEPT !.at = "done"] ELSE transfer
      BY <1>1, <2>5, <2>6 DEF DmaTakes
    <2>8. /\ memory'[frame] = Append(m, BeatAt(Len(m)))
          /\ \A k \in Frames : k # frame => memory'[k] = memory[k]
      BY <2>3, <2>4, <2>7
    <2>9. Head(fifo).eop = (Len(m) + 1 = Pixels)
      BY <2>3, BeatFlags, PixelsFact DEF BeatPlaces
    <2>10. /\ Len(m) + 1 = Pixels => memory'[frame] = WholeFrame
           /\ Len(m) + 1 # Pixels => Begun(memory'[frame]) /\ Len(memory'[frame]) = Len(m) + 1
      BY <2>2, <2>3, <2>4, <2>8, FrameGrows
    <2>11. WholeFrame' = WholeFrame /\ \A n : BeatAt(n)' = BeatAt(n)
      BY <1>1, BeatKept
    <2>12. UnderWay'
      <3>1. CASE Len(m) + 1 = Pixels
        <4>1. transfer'.at = "done"
          BY <2>4, <2>7, <3>1 DEF BenchInv, BenchTypes, CaptureTypeOK
        <4>2. After(Len(m)) = 0
          BY <2>3, <3>1, PixelsFact DEF After, BeatPlaces
        <4>3. Stream(0)'
          BY <1>2, <2>2, <4>2
        <4>4. frame' = frame /\ memory'[frame] = WholeFrame'
          BY <1>1, <2>10, <2>11, <3>1
        <4> QED
          BY <4>1, <4>3, <4>4 DEF UnderWay
      <3>2. CASE Len(m) + 1 # Pixels
        <4>1. transfer' = transfer
          BY <2>7, <2>9, <3>2
        <4>2. After(Len(m)) = Len(memory'[frame'])
          BY <1>1, <2>3, <2>10, <3>2, PixelsFact DEF After, BeatPlaces
        <4>3. Begun(memory'[frame'])
          BY <1>1, <2>10, <3>2
        <4>4. Stream(Len(memory[frame]))'
          BY <1>2, <2>2, <4>2
        <4>5. Begun(memory[frame])'
          BY <2>11, <4>3 DEF Begun
        <4> QED
          BY <1>1, <4>1, <4>4, <4>5 DEF UnderWay
      <3> QED
        BY <3>1, <3>2
    <2> QED
      BY <1>1, <2>1, <2>8, <2>11, <2>12
  <1> QED
    BY <1>1, <1>3, <1>4, SuitsKept DEF FramesInv

\* The module's functions: a frame that is whole is behind frame before the
\* next descriptor goes out.
LEMMA FramesModule ==
    ASSUME BenchInv, FramesInv, ModuleStep, Suits
    PROVE  FramesInv'
  <1>1. UNCHANGED <<kind, fifo, expected, memory, aligned>>
    BY DEF ModuleStep, genVars, benchVars
  <1>2. \A n : Stream(n) => Stream(n)'
    BY <1>1, StreamKept
  <1>3. WholeFrame' = WholeFrame /\ \A n : BeatAt(n)' = BeatAt(n)
    BY <1>1, BeatKept
  <1>4. frame \in Frames
    BY DEF BenchInv, BenchTypes, CaptureTypeOK
  <1>5. \A k \in Frames : ~(k < 1)
    BY DEF Frames
  <1> USE <1>1, <1>2, <1>3, SuitsKept DEF FramesInv, To
  <1>6. CASE Allocate
    BY <1>6 DEF Allocate, NextFrame
  <1>7. CASE Configure
    BY <1>5, <1>7 DEF Configure
  <1>8. CASE StartCapture
    <2>1. initPc = "start"
      BY <1>8, StartEffect
    <2>2. CASE initPc' = "fail"
      BY <2>2
    <2>3. CASE initPc' = "wait" /\ transfer'.at = "running" /\ frame' = frame
      <3>1. ASSUME aligned PROVE UnderWay'
        <4>1. memory[frame] = << >> /\ Stream(0)
          <5>1. ~(frame < frame)
            BY <1>4, BenchFacts DEF Frames
          <5> QED
            BY <1>4, <2>1, <3>1, <5>1
        <4>2. Len(memory[frame]) = 0
          BY <4>1, EmptySeq
        <4>3. Begun(memory[frame])
          BY <4>2, PixelsFact DEF Begun
        <4>4. Begun(memory[frame])'
          BY <2>3, <4>3 DEF Begun
        <4>5. Stream(Len(memory[frame]))'
          BY <2>3, <4>1, <4>2
        <4> QED
          BY <2>3, <4>4, <4>5 DEF UnderWay
      <3> QED
        BY <2>1, <2>3, <3>1
    <2> QED
      BY <1>8, <2>2, <2>3, StartEffect
  <1>9. CASE Captured
    <2>1. initPc = "wait" /\ transfer.at = "idle"
      BY <1>9 DEF Captured, BenchInv, CaptureInv
    <2>2. ASSUME aligned
          PROVE  /\ Stream(0)
                 /\ \A k \in Frames : memory[k] = IF k < frame + 1 THEN WholeFrame ELSE << >>
      <3>1. memory[frame] = WholeFrame /\ Stream(0)
        BY <2>1, <2>2 DEF UnderWay
      <3>2. \A k \in Frames : k < frame + 1 <=> k < frame \/ k = frame
        BY <1>4 DEF Frames
      <3>3. \A k \in Frames : k # frame =>
                memory[k] = IF k < frame THEN WholeFrame ELSE << >>
        BY <2>1, <2>2
      <3> QED
        BY <3>1, <3>2, <3>3
    <2>3. CASE frame = NumFrames
      <3>1. \A k \in Frames : k < frame + 1
        BY <2>3, BenchFacts DEF Frames
      <3>2. initPc' = "save"
        BY <1>9, <2>3 DEF Captured
      <3> QED
        BY <2>2, <3>1, <3>2
    <2>4. CASE frame # NumFrames
      <3>1. initPc' = "start" /\ frame' = frame + 1
        BY <1>9, <2>4 DEF Captured
      <3> QED
        BY <2>2, <3>1
    <2> QED
      BY <2>3, <2>4
  <1>10. CASE TimedOut
    BY <1>10 DEF TimedOut
  <1>11. CASE Save
    BY <1>11 DEF Save, NextFrame
  <1>12. CASE Free \/ Unload
    BY <1>12 DEF Free, Unload
  <1>13. CASE Callback
    <2>1. transfer.at # "running" /\ transfer'.at # "running"
      BY <1>13, BenchFacts DEF Callback
    <2>2. UnderWay => UnderWay'
      BY <1>13, <2>1 DEF Callback, UnderWay
    <2> QED
      BY <1>13, <2>2 DEF Callback
  <1> QED
    BY <1>6, <1>7, <1>8, <1>9, <1>10, <1>11, <1>12, <1>13 DEF ModuleStep, InitStep

LEMMA FramesStep == BenchInv /\ FramesInv /\ [Next]_vars => FramesInv'
  <1> SUFFICES ASSUME BenchInv, FramesInv, [Next]_vars PROVE FramesInv'
    OBVIOUS
  <1>1. kind' = kind
    BY DEF Next, vars, genVars, Clock, GenClock, DmaTakes, LoadModule, ModuleStep, Reset, GenReset
  <1>2. CASE ~Suits
    BY <1>1, <1>2, SuitsKept DEF FramesInv
  <1>3. CASE Suits
    <2>1. CASE UNCHANGED vars \/ Clock
      <3>1. UNCHANGED <<captureVars, memory, loads, aligned>>
        BY <2>1 DEF vars, benchVars, Clock
      <3>2. \A n : Stream(n) => Stream(n)'
        BY <1>3, <2>1, StreamKept, StreamGrows DEF Suits, vars, genVars, benchVars
      <3>3. WholeFrame' = WholeFrame /\ \A n : BeatAt(n)' = BeatAt(n)
        BY <1>1, BeatKept
      <3>4. Begun(memory[frame]) => Begun(memory[frame])'
        BY <3>1, <3>3 DEF Begun, captureVars
      <3>5. UnderWay => UnderWay'
        BY <3>1, <3>2, <3>3, <3>4 DEF UnderWay, captureVars
      <3> QED
        BY <1>1, <3>1, <3>2, <3>3, <3>5, SuitsKept DEF FramesInv, captureVars
    <2>2. CASE DmaTakes
      BY <1>3, <2>2, FramesTake
    <2>3. CASE LoadModule
      BY <1>3, <2>3, FramesLoad
    <2>4. CASE ModuleStep
      BY <1>3, <2>4, FramesModule
    <2>5. CASE Reset
      <3>1. fifo' = << >> /\ expected' = 0 /\ aligned' = FALSE
        BY <2>5 DEF Reset, GenReset
      <3>2. Stream(0)'
        BY <3>1, OnePlace, EmptySeq DEF Stream
      <3>3. 0 \in BeatPlaces
        BY PixelsFact DEF BeatPlaces
      <3> QED
        BY <1>1, <3>1, <3>2, <3>3, SuitsKept DEF FramesInv
    <2> QED
      BY <2>1, <2>2, <2>3, <2>4, <2>5 DEF Next
  <1> QED
    BY <1>2, <1>3

LEMMA FramesInvariant == Spec => []FramesInv
  <1>1. BenchInv /\ FramesInv /\ [Next]_vars => FramesInv'
    BY FramesStep
  <1> QED
    BY <1>1, FramesInit, BenchInvariant, PTL DEF Spec

(***************************************************************************)
(* Whatever the FIFO kept and however often the module was loaded: in a    *)
(* load that began between two frames, with no reset since, every buffer   *)
(* that is saved holds one whole frame, beat for beat, if a frame of the   *)
(* generator has as many bytes as FRAME_LEN (frame_capture.c:23).          *)
(***************************************************************************)
THEOREM WholeFramesSaved == Spec => []CapturedFramesWhole
  <1>1. FramesInv => CapturedFramesWhole
    BY DEF FramesInv, CapturedFramesWhole, Suits
  <1> QED
    BY <1>1, FramesInvariant, PTL

-----------------------------------------------------------------------------
(* The display                                                             *)

LEMMA WidthFact == Width \in Nat \ {0} /\ Digits \in Nat \ {0}
  BY DisplayAssumption

(* Powers                                                                  *)

PowerStep(g, N, base) == [n \in 0 .. N |-> IF n = 0 THEN 1 ELSE base * g[n - 1]]

\* A recursive function is a CHOOSE: it has to exist before anything can be said
\* of it.
LEMMA PowersExist ==
    ASSUME NEW N \in Nat, NEW base \in Nat
    PROVE  \E g : g = PowerStep(g, N, base)
  <1> DEFINE V == Nat
             one == 1
             step == [x \in (1 .. N) \X V |-> base * x[2]]
  <1>1. step \in StepOf(N, V) /\ one \in V
    BY DEF StepOf
  <1>2. PICK g : IsRecursion(g, N, V, one, step)
    <2> HIDE DEF step, V, one
    <2> QED BY <1>1, RecursionExists
  <1>3. g \in [0 .. N -> V] /\ g[0] = one /\ \A n \in 1 .. N : g[n] = step[<<n, g[n - 1]>>]
    BY <1>2 DEF IsRecursion
  <1>4. ASSUME NEW n \in 1 .. N PROVE g[n] = base * g[n - 1]
    <2>1. <<n, g[n - 1]>> \in (1 .. N) \X V
      BY <1>3
    <2>2. step[<<n, g[n - 1]>>] = base * g[n - 1]
      BY <2>1
    <2> QED BY <1>3, <2>2
  <1>5. ASSUME NEW n \in 0 .. N PROVE g[n] = IF n = 0 THEN 1 ELSE base * g[n - 1]
    <2>1. n = 0 \/ n \in 1 .. N
      OBVIOUS
    <2>2. g[0] = 1
      BY <1>3
    <2> QED BY <1>4, <2>1, <2>2
  <1>6. g = [n \in 0 .. N |-> g[n]]
    BY <1>3
  <1>7. g = PowerStep(g, N, base)
    <2> HIDE DEF step
    <2> QED BY <1>5, <1>6 DEF PowerStep
  <1> QED BY <1>7

LEMMA PowersAre ==
    ASSUME NEW N \in Nat, NEW base \in Nat \ {0}, NEW g, g = PowerStep(g, N, base)
    PROVE  /\ g[0] = 1
           /\ \A n \in 1 .. N : g[n] = base * g[n - 1]
           /\ \A n \in 0 .. N : g[n] \in Nat \ {0}
           /\ \A m, n \in 0 .. N : m <= n => g[m] <= g[n]
  <1>1. g[0] = 1 /\ \A n \in 1 .. N : g[n] = base * g[n - 1]
    <2>1. 0 \in 0 .. N /\ \A n \in 1 .. N : n \in 0 .. N /\ n # 0
      OBVIOUS
    <2> QED BY <2>1 DEF PowerStep
  <1>2. \A a \in Nat \ {0} : base * a \in Nat \ {0} /\ a <= base * a
    <2>1. ASSUME NEW a \in Nat \ {0} PROVE base * a \in Nat \ {0} /\ a <= base * a
      <3>1. base - 1 \in Nat /\ (base - 1) * a \in Nat /\ base * a = a + (base - 1) * a
        OBVIOUS
      <3> QED BY <3>1
    <2> QED BY <2>1
  <1>3. \A n \in 0 .. N : g[n] \in Nat \ {0}
    <2> DEFINE S == {n \in 0 .. N : g[n] \in Nat \ {0}}
    <2>1. 0 \in S /\ \A n \in 1 .. N : n - 1 \in S => n \in S
      BY <1>1, <1>2
    <2>2. \A n \in 0 .. N : n \in S
      <3> HIDE DEF S
      <3> QED BY <2>1, InductionOnRange
    <2> QED BY <2>2
  <1>4. ASSUME NEW m \in 0 .. N PROVE \A n \in 0 .. N : m <= n => g[m] <= g[n]
    <2> DEFINE S == {n \in 0 .. N : m <= n => g[m] <= g[n]}
    <2>1. 0 \in S
      BY <1>3
    <2>2. ASSUME NEW n \in 1 .. N, n - 1 \in S PROVE n \in S
      <3>1. g[n] \in Nat /\ g[m] \in Nat /\ g[n - 1] \in Nat \ {0} /\ g[n - 1] <= g[n]
        <4>1. n \in 0 .. N /\ n - 1 \in 0 .. N
          OBVIOUS
        <4>2. g[n - 1] \in Nat \ {0} /\ g[n] \in Nat /\ g[m] \in Nat
          BY <1>3, <4>1
        <4>3. g[n] = base * g[n - 1]
          BY <1>1
        <4> QED BY <1>2, <4>2, <4>3
      <3>2. CASE m <= n - 1
        BY <2>2, <3>1, <3>2
      <3>3. CASE m = n
        BY <3>1, <3>3
      <3>4. CASE m > n
        BY <3>4
      <3> QED BY <3>2, <3>3, <3>4
    <2>3. \A n \in 0 .. N : n \in S
      <3> HIDE DEF S
      <3> QED BY <2>1, <2>2, InductionOnRange
    <2> QED BY <2>3
  <1> QED BY <1>1, <1>3, <1>4

LEMMA PowersOfTwo ==
    /\ TwoTo[0] = 1
    /\ \A n \in 1 .. Width : TwoTo[n] = 2 * TwoTo[n - 1]
    /\ \A n \in 0 .. Width : TwoTo[n] \in Nat \ {0}
    /\ \A m, n \in 0 .. Width : m <= n => TwoTo[m] <= TwoTo[n]
  <1>1. \E g : g = PowerStep(g, Width, 2)
    BY PowersExist, WidthFact
  <1>2. TwoTo = PowerStep(TwoTo, Width, 2)
    BY <1>1 DEF TwoTo, PowerStep
  <1> QED BY <1>2, PowersAre, WidthFact

LEMMA PowersOfTen ==
    /\ TenTo[0] = 1
    /\ \A n \in 1 .. Digits : TenTo[n] = 10 * TenTo[n - 1]
    /\ \A n \in 0 .. Digits : TenTo[n] \in Nat \ {0}
    /\ \A m, n \in 0 .. Digits : m <= n => TenTo[m] <= TenTo[n]
  <1>1. \E g : g = PowerStep(g, Digits, 10)
    BY PowersExist, WidthFact
  <1>2. TenTo = PowerStep(TenTo, Digits, 10)
    BY <1>1 DEF TenTo, PowerStep
  <1> QED BY <1>2, PowersAre, WidthFact

(* Numbers and their digits                                                *)

\* The number that the n rightmost of the digits d form.
NumberStep(g, d) == [n \in 0 .. Digits |-> IF n = 0 THEN 0 ELSE g[n - 1] + d[n - 1] * TenTo[n - 1]]
Number(d) == CHOOSE g : g = NumberStep(g, d)

LEMMA NumberIs ==
    ASSUME NEW d \in [Places -> Nat]
    PROVE  /\ Number(d)[0] = 0
           /\ \A n \in 1 .. Digits : Number(d)[n] = Number(d)[n - 1] + d[n - 1] * TenTo[n - 1]
           /\ \A n \in 0 .. Digits : Number(d)[n] \in Nat
  <1> DEFINE V == Nat
             zero == 0
             step == [x \in (1 .. Digits) \X V |-> x[2] + d[x[1] - 1] * TenTo[x[1] - 1]]
  <1>1. step \in StepOf(Digits, V) /\ zero \in V
    <2>1. ASSUME NEW x \in (1 .. Digits) \X V PROVE x[2] + d[x[1] - 1] * TenTo[x[1] - 1] \in V
      <3>1. x[1] \in 1 .. Digits /\ x[2] \in Nat
        OBVIOUS
      <3>2. x[1] - 1 \in Places /\ x[1] - 1 \in 0 .. Digits
        BY <3>1, WidthFact DEF Places
      <3>3. d[x[1] - 1] \in Nat /\ TenTo[x[1] - 1] \in Nat
        BY <3>2, PowersOfTen
      <3> QED BY <3>1, <3>3
    <2> QED BY <2>1 DEF StepOf
  <1>2. PICK g : IsRecursion(g, Digits, V, zero, step)
    <2> HIDE DEF step, V, zero
    <2> QED BY <1>1, RecursionExists, WidthFact
  <1>3. g \in [0 .. Digits -> V] /\ g[0] = zero /\ \A n \in 1 .. Digits : g[n] = step[<<n, g[n - 1]>>]
    BY <1>2 DEF IsRecursion
  <1>4. ASSUME NEW n \in 1 .. Digits PROVE g[n] = g[n - 1] + d[n - 1] * TenTo[n - 1]
    <2>1. <<n, g[n - 1]>> \in (1 .. Digits) \X V
      BY <1>3, WidthFact
    <2>2. step[<<n, g[n - 1]>>] = g[n - 1] + d[n - 1] * TenTo[n - 1]
      BY <2>1
    <2> QED BY <1>3, <2>2
  <1>5. g = NumberStep(g, d)
    <2>1. ASSUME NEW n \in 0 .. Digits
          PROVE  g[n] = IF n = 0 THEN 0 ELSE g[n - 1] + d[n - 1] * TenTo[n - 1]
      <3>1. n = 0 \/ n \in 1 .. Digits
        BY WidthFact
      <3>2. g[0] = 0
        BY <1>3
      <3> QED BY <1>4, <3>1, <3>2
    <2>2. g = [n \in 0 .. Digits |-> g[n]]
      BY <1>3
    <2> HIDE DEF step
    <2> QED BY <2>1, <2>2 DEF NumberStep
  <1> DEFINE num == Number(d)
  <1>6. num = NumberStep(num, d)
    BY <1>5 DEF Number
  <1> HIDE DEF num, step
  <1>7. num[0] = 0 /\ \A n \in 1 .. Digits : num[n] = num[n - 1] + d[n - 1] * TenTo[n - 1]
    <2>1. 0 \in 0 .. Digits /\ \A n \in 1 .. Digits : n \in 0 .. Digits /\ n # 0
      BY WidthFact
    <2> QED BY <1>6, <2>1 DEF NumberStep
  <1>8. \A n \in 0 .. Digits : num[n] \in Nat
    <2> DEFINE S == {n \in 0 .. Digits : num[n] \in Nat}
    <2>1. 0 \in S
      BY <1>7, WidthFact
    <2>2. ASSUME NEW n \in 1 .. Digits, n - 1 \in S PROVE n \in S
      <3>1. n - 1 \in Places /\ n - 1 \in 0 .. Digits
        BY WidthFact DEF Places
      <3>2. d[n - 1] \in Nat /\ TenTo[n - 1] \in Nat /\ num[n - 1] \in Nat
        BY <2>2, <3>1, PowersOfTen
      <3>3. d[n - 1] * TenTo[n - 1] \in Nat
        BY <3>2
      <3> QED BY <1>7, <3>2, <3>3
    <2>3. \A n \in 0 .. Digits : n \in S
      <3> HIDE DEF S
      <3> QED BY <2>1, <2>2, InductionOnRange, WidthFact
    <2> QED BY <2>3
  <1> QED BY <1>7, <1>8 DEF num

\* One digit more.
LEMMA NumberGrowsBy ==
    ASSUME NEW d \in [Places -> Nat], NEW n \in 1 .. Digits
    PROVE  /\ n - 1 \in Places /\ d[n - 1] \in Nat /\ d[n - 1] * TenTo[n - 1] \in Nat
           /\ TenTo[n - 1] \in Nat \ {0} /\ TenTo[n] = 10 * TenTo[n - 1]
           /\ Number(d)[n - 1] \in Nat /\ Number(d)[n] \in Nat
           /\ Number(d)[n] = Number(d)[n - 1] + d[n - 1] * TenTo[n - 1]
  <1>1. n - 1 \in Places /\ n - 1 \in 0 .. Digits /\ n \in 0 .. Digits
    BY WidthFact DEF Places
  <1>2. d[n - 1] \in Nat /\ TenTo[n - 1] \in Nat \ {0} /\ TenTo[n] = 10 * TenTo[n - 1]
    BY <1>1, PowersOfTen
  <1> QED BY <1>1, <1>2, NumberIs

LEMMA NumberBelow ==
    ASSUME NEW d \in [Places -> 0 .. 9]
    PROVE  \A n \in 0 .. Digits : Number(d)[n] < TenTo[n]
  <1> DEFINE S == {n \in 0 .. Digits : Number(d)[n] < TenTo[n]}
  <1>0. d \in [Places -> Nat]
    OBVIOUS
  <1>1. 0 \in S
    BY <1>0, NumberIs, PowersOfTen, WidthFact
  <1>2. ASSUME NEW n \in 1 .. Digits, n - 1 \in S PROVE n \in S
    <2>1. d[n - 1] \in 0 .. 9
      BY <1>0, NumberGrowsBy
    <2>2. d[n - 1] * TenTo[n - 1] <= 9 * TenTo[n - 1]
      BY <1>0, <2>1, NumberGrowsBy
    <2> QED BY <1>0, <1>2, <2>2, NumberGrowsBy
  <1>3. \A n \in 0 .. Digits : n \in S
    <2> HIDE DEF S
    <2> QED BY <1>1, <1>2, InductionOnRange, WidthFact
  <1> QED BY <1>3

LEMMA NumberGrows ==
    ASSUME NEW d \in [Places -> Nat], NEW m \in 0 .. Digits
    PROVE  \A n \in 0 .. Digits : m <= n => Number(d)[m] <= Number(d)[n]
  <1> DEFINE S == {n \in 0 .. Digits : m <= n => Number(d)[m] <= Number(d)[n]}
  <1>1. 0 \in S
    BY NumberIs, WidthFact
  <1>2. ASSUME NEW n \in 1 .. Digits, n - 1 \in S PROVE n \in S
    <2>1. Number(d)[m] \in Nat
      BY NumberIs
    <2>2. CASE m = n
      BY <2>1, <2>2
    <2>3. CASE m # n
      BY <1>2, <2>1, <2>3, NumberGrowsBy
    <2> QED BY <2>2, <2>3
  <1>3. \A n \in 0 .. Digits : n \in S
    <2> HIDE DEF S
    <2> QED BY <1>1, <1>2, InductionOnRange, WidthFact
  <1> QED BY <1>3

LEMMA NumberStays ==
    ASSUME NEW d \in [Places -> Nat], NEW m \in 0 .. Digits,
           \A k \in m .. Digits - 1 : d[k] = 0
    PROVE  \A n \in m .. Digits : Number(d)[n] = Number(d)[m]
  <1> DEFINE S == {n \in 0 .. Digits : m <= n => Number(d)[n] = Number(d)[m]}
  <1>1. 0 \in S
    BY WidthFact
  <1>2. ASSUME NEW n \in 1 .. Digits, n - 1 \in S PROVE n \in S
    <2>1. CASE m < n
      <3>0. n - 1 \in m .. Digits - 1
        BY <2>1, WidthFact
      <3>1. d[n - 1] = 0
        BY <3>0
      <3>2. d[n - 1] * TenTo[n - 1] = 0
        BY <3>1, NumberGrowsBy
      <3> QED BY <1>2, <2>1, <3>2, NumberGrowsBy
    <2>2. CASE ~(m < n)
      BY <2>2
    <2> QED BY <2>1, <2>2
  <1>3. \A n \in 0 .. Digits : n \in S
    <2> HIDE DEF S
    <2> QED BY <1>1, <1>2, InductionOnRange, WidthFact
  <1> QED BY <1>3

\* The digits from the k-th on are all zero just when the number is below 10^k.
LEMMA LeadingZeros ==
    ASSUME NEW d \in [Places -> 0 .. 9], NEW k \in Places
    PROVE  (\A j \in k .. Digits - 1 : d[j] = 0) <=> Number(d)[Digits] < TenTo[k]
  <1>0. d \in [Places -> Nat] /\ k \in 0 .. Digits /\ Digits \in k .. Digits /\ Digits \in 0 .. Digits
    BY WidthFact DEF Places
  <1>1. ASSUME \A j \in k .. Digits - 1 : d[j] = 0 PROVE Number(d)[Digits] < TenTo[k]
    <2>1. Number(d)[Digits] = Number(d)[k]
      BY <1>0, <1>1, NumberStays
    <2> QED BY <1>0, <2>1, NumberBelow
  <1>2. ASSUME NEW j \in k .. Digits - 1, d[j] # 0 PROVE ~(Number(d)[Digits] < TenTo[k])
    <2>1. j \in Places /\ j + 1 \in 1 .. Digits /\ j \in 0 .. Digits /\ (j + 1) - 1 = j
      BY <1>0 DEF Places
    <2>2. d[j] \in 1 .. 9
      BY <1>2, <2>1
    <2>3. TenTo[j] \in Nat /\ d[j] * TenTo[j] >= TenTo[j]
      BY <2>1, <2>2, PowersOfTen
    <2>4. Number(d)[j] \in Nat /\ Number(d)[j + 1] = Number(d)[j] + d[j] * TenTo[j]
      BY <1>0, <2>1, NumberGrowsBy
    <2>5. d[j] * TenTo[j] \in Nat
      BY <2>2, <2>3
    <2>6. Number(d)[j + 1] >= TenTo[j]
      BY <2>3, <2>4, <2>5
    <2>7. Number(d)[j + 1] <= Number(d)[Digits] /\ Number(d)[Digits] \in Nat /\ Number(d)[j + 1] \in Nat
      BY <1>0, <2>1, NumberGrows, NumberIs
    <2>8. TenTo[k] <= TenTo[j] /\ TenTo[k] \in Nat
      BY <1>0, <2>1, PowersOfTen
    <2> QED BY <2>3, <2>6, <2>7, <2>8
  <1> QED BY <1>1, <1>2

(* The converter                                                           *)

\* The shift moves the top bit of the binary half to the rightmost digit.
LEMMA ShiftKeeps ==
    ASSUME NEW bin \in Bins
    PROVE  /\ Msb(bin) \in {0, 1}
           /\ 2 * (bin - Msb(bin) * TwoTo[Width - 1]) \in Bins
           /\ 2 * (bin - Msb(bin) * TwoTo[Width - 1]) = 2 * bin - Msb(bin) * TwoTo[Width]
  <1>1. Width - 1 \in 0 .. Width /\ Width \in 1 .. Width /\ Width \in 0 .. Width
    BY WidthFact
  <1>2. TwoTo[Width - 1] \in Nat /\ TwoTo[Width] \in Nat /\ TwoTo[Width] = 2 * TwoTo[Width - 1]
    BY <1>1, PowersOfTwo
  <1>3. bin \in Nat /\ bin < TwoTo[Width]
    BY <1>2 DEF Bins
  <1>4. CASE bin >= TwoTo[Width - 1]
    BY <1>2, <1>3, <1>4 DEF Msb, Bins
  <1>5. CASE ~(bin >= TwoTo[Width - 1])
    BY <1>2, <1>3, <1>5 DEF Msb, Bins
  <1> QED BY <1>4, <1>5

\* The bit a digit gives to the one to its left, and what is left of it.
Five(n) == IF n >= 5 THEN 1 ELSE 0

\* Adding 3 to a digit from 5 on makes the shift carry at ten.
LEMMA AdjustedDigit ==
    ASSUME NEW n \in 0 .. 9, NEW bit \in {0, 1}
    PROVE  /\ Adjust(n) \in 0 .. 15
           /\ Adjust(n) \div 8 = Five(n)
           /\ (2 * Adjust(n) + bit) % 16 = 2 * n + bit - 10 * Five(n)
           /\ 2 * n + bit - 10 * Five(n) \in 0 .. 9
  BY DEF Adjust, Five

LEMMA Spread ==
    ASSUME NEW a \in Int, NEW b \in Int, NEW c \in Int, NEW p \in Int
    PROVE  (2 * a + b - 10 * c) * p = 2 * (a * p) + b * p - c * (10 * p)
  OBVIOUS

\* A stage doubles the number the digits form, adds the bit shifted in from the
\* right, and keeps them digits; what goes out on the left is a multiple of 10^n.
LEMMA StageDoubles ==
    ASSUME NEW s \in Scratches, s.bcd \in [Places -> 0 .. 9],
           NEW t, t = dabble_stage[s]
    PROVE  /\ t \in Scratches /\ t.bcd \in [Places -> 0 .. 9]
           /\ t.bin = 2 * s.bin - Msb(s.bin) * TwoTo[Width]
           /\ \A n \in 1 .. Digits :
                 Number(t.bcd)[n] = 2 * Number(s.bcd)[n] + Msb(s.bin) - Five(s.bcd[n - 1]) * TenTo[n]
  <1> DEFINE carry(k) == IF k = 0 THEN Msb(s.bin) ELSE Five(s.bcd[k - 1])
             num == Number(s.bcd)
             new == Number(t.bcd)
  <1>1. s.bin \in Bins /\ Msb(s.bin) \in {0, 1}
    BY ShiftKeeps DEF Scratches
  <1>2. /\ t.bin = 2 * (s.bin - Msb(s.bin) * TwoTo[Width - 1])
        /\ t = [bcd |-> t.bcd, bin |-> t.bin]
        /\ t.bcd = [k \in Places |-> (2 * Adjust(s.bcd[k]) +
                       (IF k = 0 THEN Msb(s.bin) ELSE [j \in Places |-> Adjust(s.bcd[j])][k - 1] \div 8)) % 16]
    <2>1. t = [bcd |-> [k \in Places |-> (2 * [j \in Places |-> Adjust(s.bcd[j])][k] +
                       (IF k = 0 THEN Msb(s.bin) ELSE [j \in Places |-> Adjust(s.bcd[j])][k - 1] \div 8)) % 16],
               bin |-> 2 * (s.bin - Msb(s.bin) * TwoTo[Width - 1])]
      BY DEF dabble_stage
    <2> QED BY <2>1
  <1>3. ASSUME NEW k \in Places
        PROVE  /\ carry(k) \in {0, 1} /\ s.bcd[k] \in 0 .. 9
               /\ t.bcd[k] = 2 * s.bcd[k] + carry(k) - 10 * Five(s.bcd[k])
               /\ t.bcd[k] \in 0 .. 9
    <2>1. s.bcd[k] \in 0 .. 9
      OBVIOUS
    <2>2. CASE k = 0
      <3>1. t.bcd[k] = (2 * Adjust(s.bcd[k]) + Msb(s.bin)) % 16
        BY <1>2, <2>2
      <3> QED BY <1>1, <2>1, <2>2, <3>1, AdjustedDigit
    <2>3. CASE k # 0
      <3>1. k - 1 \in Places
        BY <2>3, WidthFact DEF Places
      <3>2. s.bcd[k - 1] \in 0 .. 9
        BY <3>1
      <3>3. t.bcd[k] = (2 * Adjust(s.bcd[k]) + (Adjust(s.bcd[k - 1]) \div 8)) % 16
        BY <1>2, <2>3, <3>1
      <3>4. Adjust(s.bcd[k - 1]) \div 8 = Five(s.bcd[k - 1]) /\ Five(s.bcd[k - 1]) \in {0, 1}
        BY <3>2, AdjustedDigit DEF Five
      <3> QED BY <2>1, <2>3, <3>3, <3>4, AdjustedDigit
    <2> QED BY <2>2, <2>3
  <1>4. t.bcd \in [Places -> 0 .. 9]
    <2>1. t.bcd = [k \in Places |-> t.bcd[k]]
      BY <1>2
    <2> QED BY <1>3, <2>1
  <1>5. t \in Scratches /\ t.bin = 2 * s.bin - Msb(s.bin) * TwoTo[Width]
    <2>1. t.bin \in Bins /\ t.bin = 2 * s.bin - Msb(s.bin) * TwoTo[Width]
      BY <1>1, <1>2, ShiftKeeps
    <2>2. t.bcd \in [Places -> Nibbles]
      BY <1>4 DEF Nibbles
    <2> QED BY <1>2, <2>1, <2>2 DEF Scratches
  <1>6. \A n \in 0 .. Digits : new[n] = 2 * num[n] + Msb(s.bin) - carry(n) * TenTo[n]
    <2> DEFINE S == {n \in 0 .. Digits : new[n] = 2 * num[n] + Msb(s.bin) - carry(n) * TenTo[n]}
    <2>0. s.bcd \in [Places -> Nat] /\ t.bcd \in [Places -> Nat]
      BY <1>4
    <2>1. 0 \in S
      <3>1. num[0] = 0 /\ new[0] = 0 /\ TenTo[0] = 1
        BY <2>0, NumberIs, PowersOfTen
      <3>2. carry(0) = Msb(s.bin)
        OBVIOUS
      <3> HIDE DEF num, new, carry
      <3> QED BY <1>1, <3>1, <3>2, WidthFact
    <2>2. ASSUME NEW n \in 1 .. Digits, n - 1 \in S PROVE n \in S
      <3> DEFINE d == s.bcd[n - 1]
                 e == t.bcd[n - 1]
                 c == carry(n - 1)
                 p == TenTo[n - 1]
      <3>1. n - 1 \in Places
        BY WidthFact DEF Places
      <3>2. c \in {0, 1} /\ d \in 0 .. 9 /\ e = 2 * d + c - 10 * Five(d) /\ e \in 0 .. 9
        BY <1>3, <3>1
      <3>3. /\ p \in Nat /\ TenTo[n] = 10 * p /\ num[n - 1] \in Nat /\ num[n] \in Nat
            /\ new[n - 1] \in Nat /\ new[n] \in Nat
            /\ num[n] = num[n - 1] + d * p /\ new[n] = new[n - 1] + e * p
        BY <2>0, NumberGrowsBy
      <3>4. new[n - 1] = 2 * num[n - 1] + Msb(s.bin) - c * p
        BY <2>2
      <3>5. carry(n) = Five(d) /\ Five(d) \in {0, 1}
        BY DEF Five
      <3> HIDE DEF d, e, c, p, carry
      <3>6. e * p = 2 * (d * p) + c * p - Five(d) * (10 * p)
        <4>1. Five(d) \in Int /\ e = 2 * d + c - 10 * Five(d)
          BY <3>2, <3>5
        <4> QED BY <3>2, <3>3, <4>1, Spread
      <3>7. d * p \in Nat /\ c * p \in Nat /\ Five(d) * (10 * p) \in Nat
        <4>1. CASE Five(d) = 0
          BY <3>2, <3>3, <4>1
        <4>2. CASE Five(d) = 1
          BY <3>2, <3>3, <4>2
        <4> QED BY <3>5, <4>1, <4>2
      <3>8. new[n] = 2 * num[n] + Msb(s.bin) - carry(n) * TenTo[n]
        BY <1>1, <3>3, <3>4, <3>5, <3>6, <3>7
      <3> QED BY <3>8
    <2>3. \A n \in 0 .. Digits : n \in S
      <3> HIDE DEF S
      <3> QED BY <2>1, <2>2, InductionOnRange, WidthFact
    <2> QED BY <2>3
  <1>7. ASSUME NEW n \in 1 .. Digits
        PROVE  new[n] = 2 * num[n] + Msb(s.bin) - Five(s.bcd[n - 1]) * TenTo[n]
    <2>1. n \in 0 .. Digits /\ n # 0
      OBVIOUS
    <2> QED BY <1>6, <2>1
  <1> QED BY <1>4, <1>5, <1>7

\* Scratch words whose nibbles are digits.
Decimal == {s \in Scratches : s.bcd \in [Places -> 0 .. 9]}

LEMMA ScratchIs ==
    ASSUME NEW bin \in Bins
    PROVE  /\ scratch(bin)[0] = [bcd |-> [k \in Places |-> 0], bin |-> bin]
           /\ \A n \in 1 .. Width : scratch(bin)[n] = dabble_stage[scratch(bin)[n - 1]]
           /\ \A n \in 0 .. Width : scratch(bin)[n] \in Decimal
  <1> DEFINE V == Decimal
             first == [bcd |-> [k \in Places |-> 0], bin |-> bin]
             step == [x \in (1 .. Width) \X V |-> dabble_stage[x[2]]]
  <1>0. \A s \in V : dabble_stage[s] \in V
    BY StageDoubles DEF Decimal
  <1>1. step \in StepOf(Width, V) /\ first \in V
    <2>1. ASSUME NEW x \in (1 .. Width) \X V PROVE dabble_stage[x[2]] \in V
      <3>1. x[2] \in V
        OBVIOUS
      <3> HIDE DEF V
      <3> QED BY <1>0, <3>1
    <2>2. first \in V
      BY DEF Decimal, Scratches, Nibbles
    <2> HIDE DEF V, first
    <2> QED BY <2>1, <2>2 DEF StepOf
  <1>2. PICK g : IsRecursion(g, Width, V, first, step)
    <2> HIDE DEF step, V, first
    <2> QED BY <1>1, RecursionExists, WidthFact
  <1>3. g \in [0 .. Width -> V] /\ g[0] = first /\ \A n \in 1 .. Width : g[n] = step[<<n, g[n - 1]>>]
    BY <1>2 DEF IsRecursion
  <1> HIDE DEF V, first
  <1>4. ASSUME NEW n \in 1 .. Width PROVE g[n] = dabble_stage[g[n - 1]]
    <2>1. <<n, g[n - 1]>> \in (1 .. Width) \X V
      <3>1. n - 1 \in 0 .. Width
        BY WidthFact
      <3>2. g[n - 1] \in V
        BY <1>3, <3>1
      <3> QED BY <3>2
    <2>2. step[<<n, g[n - 1]>>] = dabble_stage[g[n - 1]]
      BY <2>1
    <2> QED BY <1>3, <2>2
  <1> HIDE DEF step
  <1>5. g = [n \in 0 .. Width |-> IF n = 0 THEN first ELSE dabble_stage[g[n - 1]]]
    <2>1. ASSUME NEW n \in 0 .. Width PROVE g[n] = IF n = 0 THEN first ELSE dabble_stage[g[n - 1]]
      <3>1. n = 0 \/ n \in 1 .. Width
        BY WidthFact
      <3> QED BY <1>3, <1>4, <3>1
    <2>2. g = [n \in 0 .. Width |-> g[n]]
      BY <1>3
    <2> QED BY <2>1, <2>2
  <1> DEFINE sc == scratch(bin)
  <1>6. sc = [n \in 0 .. Width |-> IF n = 0 THEN first ELSE dabble_stage[sc[n - 1]]]
    BY <1>5 DEF scratch, first
  <1> HIDE DEF sc
  <1>7. sc[0] = first /\ \A n \in 1 .. Width : sc[n] = dabble_stage[sc[n - 1]]
    <2>1. 0 \in 0 .. Width /\ \A n \in 1 .. Width : n \in 0 .. Width /\ n # 0
      BY WidthFact
    <2> QED BY <1>6, <2>1
  <1>8. \A n \in 0 .. Width : sc[n] \in V
    <2> DEFINE S == {n \in 0 .. Width : sc[n] \in V}
    <2>1. 0 \in S /\ \A n \in 1 .. Width : n - 1 \in S => n \in S
      BY <1>0, <1>1, <1>7, WidthFact
    <2>2. \A n \in 0 .. Width : n \in S
      <3> HIDE DEF S
      <3> QED BY <2>1, InductionOnRange, WidthFact
    <2> QED BY <2>2
  <1> QED BY <1>7, <1>8 DEF V, sc, first

LEMMA Cancel == ASSUME NEW a \in Nat, NEW b \in Nat, NEW c \in Nat \ {0}, a * c <= b * c PROVE a <= b
  <1>1. SUFFICES ASSUME a >= b + 1 PROVE FALSE
    OBVIOUS
  <1>2. a - (b + 1) \in Nat /\ (a - (b + 1)) * c \in Nat /\ a * c = b * c + c + (a - (b + 1)) * c
    BY <1>1
  <1>3. b * c \in Nat
    OBVIOUS
  <1> QED BY <1>2, <1>3

\* With n bits shifted in, the digits form the number of these n bits, and it
\* stays below 10^Digits.
LEMMA StagesConvert ==
    ASSUME NEW bin \in Bins, bin < TenTo[Digits]
    PROVE  \A n \in 0 .. Width :
              bin * TwoTo[n] = Number(scratch(bin)[n].bcd)[Digits] * TwoTo[Width] + scratch(bin)[n].bin
  <1> DEFINE N(n) == Number(scratch(bin)[n].bcd)[Digits]
             S == {n \in 0 .. Width : bin * TwoTo[n] = N(n) * TwoTo[Width] + scratch(bin)[n].bin}
  <1>0. bin \in Nat /\ TwoTo[Width] \in Nat \ {0}
    BY PowersOfTwo, WidthFact DEF Bins
  <1>1. 0 \in S
    <2> DEFINE z == [k \in Places |-> 0]
    <2>1. scratch(bin)[0].bcd = z /\ scratch(bin)[0].bin = bin
      <3>1. scratch(bin)[0] = [bcd |-> z, bin |-> bin]
        BY ScratchIs
      <3> HIDE DEF z
      <3> QED BY <3>1
    <2>2. z \in [Places -> Nat] /\ \A k \in 0 .. Digits - 1 : z[k] = 0
      BY DEF Places
    <2>3. 0 \in 0 .. Digits /\ Digits \in 0 .. Digits
      BY WidthFact
    <2> HIDE DEF z
    <2>4. Number(z)[Digits] = 0
      BY <2>2, <2>3, NumberStays, NumberIs
    <2> QED BY <1>0, <2>1, <2>4, PowersOfTwo, WidthFact
  <1>2. ASSUME NEW n \in 1 .. Width, n - 1 \in S PROVE n \in S
    <2> DEFINE s == scratch(bin)[n - 1]
               t == scratch(bin)[n]
               B == TwoTo[Width]
               p == TwoTo[n - 1]
               num == Number(s.bcd)[Digits]
               new == Number(t.bcd)[Digits]
               msb == Msb(s.bin)
               top == s.bcd[Digits - 1]
    <2>1. n - 1 \in 0 .. Width /\ n \in 0 .. Width /\ Digits \in 1 .. Digits /\ Width \in 0 .. Width
      BY WidthFact
    <2>2. s \in Scratches /\ s.bcd \in [Places -> 0 .. 9] /\ t = dabble_stage[s] /\ t \in Scratches
      BY <2>1, ScratchIs DEF Decimal
    <2>3. /\ t.bin = 2 * s.bin - msb * B
          /\ new = 2 * num + msb - Five(top) * TenTo[Digits]
      BY <2>1, <2>2, StageDoubles
    <2>4. s.bin \in Nat /\ t.bin \in Nat /\ msb \in {0, 1}
      BY <2>2, ShiftKeeps DEF Scratches, Bins
    <2>5. p \in Nat /\ TwoTo[n] = 2 * p /\ 2 * p <= B /\ B \in Nat \ {0}
      BY <2>1, PowersOfTwo
    <2>6. s.bcd \in [Places -> Nat]
      BY <2>2
    <2>7. /\ TenTo[Digits - 1] \in Nat /\ TenTo[Digits] = 10 * TenTo[Digits - 1]
          /\ Number(s.bcd)[Digits - 1] \in Nat /\ num \in Nat
          /\ num = Number(s.bcd)[Digits - 1] + top * TenTo[Digits - 1]
      BY <2>1, <2>6, NumberGrowsBy
    <2>8. top \in 0 .. 9
      BY <2>2, WidthFact DEF Places
    <2>9. bin * p = num * B + s.bin
      BY <1>2
    <2> HIDE DEF s, t, B, p, num, new, msb, top, S
    <2>10. (2 * num + msb) * B + t.bin = bin * (2 * p)
      <3>1. (2 * num + msb) * B = 2 * (num * B) + msb * B
        BY <2>4, <2>5, <2>7
      <3>2. bin * (2 * p) = 2 * (bin * p)
        BY <1>0, <2>5
      <3>3. num * B \in Nat /\ msb * B \in Nat /\ bin * p \in Nat
        BY <1>0, <2>4, <2>5, <2>7
      <3> QED BY <2>3, <2>4, <2>9, <3>1, <3>2, <3>3
    <2>11. 2 * num + msb < TenTo[Digits]
      <3>1. bin * (2 * p) <= bin * B
        <4>1. B - 2 * p \in Nat /\ bin * (B - 2 * p) \in Nat /\ bin * B = bin * (2 * p) + bin * (B - 2 * p)
          BY <1>0, <2>5
        <4>2. bin * (2 * p) \in Nat
          BY <1>0, <2>5
        <4> QED BY <4>1, <4>2
      <3>2. 2 * num + msb \in Nat /\ (2 * num + msb) * B \in Nat
        BY <2>4, <2>5, <2>7
      <3>3. bin * (2 * p) \in Nat /\ bin * B \in Nat
        BY <1>0, <2>5
      <3>4. (2 * num + msb) * B <= bin * B
        BY <2>4, <2>10, <3>1, <3>2, <3>3
      <3>5. 2 * num + msb <= bin
        BY <1>0, <2>5, <3>2, <3>4, Cancel
      <3> QED BY <1>0, <2>7, <3>2, <3>5
    <2>12. Five(top) = 0
      <3>1. SUFFICES ASSUME top >= 5 PROVE FALSE
        BY <2>8 DEF Five
      <3>2. top * TenTo[Digits - 1] >= 5 * TenTo[Digits - 1]
        BY <2>7, <2>8, <3>1
      <3>3. top * TenTo[Digits - 1] \in Nat
        BY <2>7, <2>8
      <3> QED BY <2>4, <2>7, <2>11, <3>2, <3>3
    <2>13. new = 2 * num + msb
      BY <2>3, <2>4, <2>7, <2>12
    <2>14. bin * TwoTo[n] = new * TwoTo[Width] + t.bin
      BY <2>5, <2>10, <2>13 DEF B
    <2> QED BY <2>14 DEF S, new, t
  <1>3. \A n \in 0 .. Width : n \in S
    <2> HIDE DEF S
    <2> QED BY <1>1, <1>2, InductionOnRange, WidthFact
  <1> QED BY <1>3

\* What is left in the binary part after the last stage is less than 2^Width, and
\* the rest is divisible by it: the digits are those of the number.
LEMMA Converted ==
    ASSUME NEW bin \in Bins, bin < TenTo[Digits]
    PROVE  /\ Bcd(bin) \in [Places -> 0 .. 9]
           /\ Number(Bcd(bin))[Digits] = bin
  <1> DEFINE s == scratch(bin)[Width]
             num == Number(s.bcd)[Digits]
             B == TwoTo[Width]
  <1>1. Width \in 0 .. Width /\ Digits \in 0 .. Digits
    BY WidthFact
  <1>2. s.bcd \in [Places -> 0 .. 9] /\ s.bin \in Bins
    BY <1>1, ScratchIs DEF Decimal, Scratches
  <1>3. bin * B = num * B + s.bin
    BY <1>1, StagesConvert
  <1>4. num \in Nat
    <2>1. s.bcd \in [Places -> Nat]
      BY <1>2
    <2> QED BY <1>1, <2>1, NumberIs
  <1>5. B \in Nat \ {0} /\ s.bin \in Nat /\ s.bin < B /\ bin \in Nat
    BY <1>1, <1>2, PowersOfTwo DEF Bins
  <1> HIDE DEF num, B
  <1>6. num * B \in Nat /\ bin * B \in Nat /\ (num + 1) * B = num * B + B
    BY <1>4, <1>5
  <1>7. num <= bin
    BY <1>3, <1>4, <1>5, <1>6, Cancel
  <1>8. ~(num + 1 <= bin)
    <2>1. SUFFICES ASSUME num + 1 <= bin PROVE FALSE
      OBVIOUS
    <2>2. bin - (num + 1) \in Nat /\ (bin - (num + 1)) * B \in Nat
          /\ bin * B = (num + 1) * B + (bin - (num + 1)) * B
      BY <1>4, <1>5, <2>1
    <2> QED BY <1>3, <1>5, <1>6, <2>2
  <1>9. num = bin
    BY <1>4, <1>5, <1>7, <1>8
  <1> QED BY <1>2, <1>9 DEF Bcd, num

(* The digits on the display                                               *)

LEMMA Segments ==
    /\ \A d \in 0 .. 9 : SEG_LUT[d + 1] # SEG_BLANK
    /\ \A d, e \in 0 .. 9 : SEG_LUT[d + 1] = SEG_LUT[e + 1] => d = e
  <1>1. /\ SEG_LUT[1] = 64 /\ SEG_LUT[2] = 121 /\ SEG_LUT[3] = 36 /\ SEG_LUT[4] = 48
        /\ SEG_LUT[5] = 25 /\ SEG_LUT[6] = 18 /\ SEG_LUT[7] = 2 /\ SEG_LUT[8] = 120
        /\ SEG_LUT[9] = 0 /\ SEG_LUT[10] = 16
    BY DEF SEG_LUT
  <1>2. \A d \in 0 .. 9 : d \in {0, 1, 2, 3, 4, 5, 6, 7, 8, 9}
    OBVIOUS
  <1> QED BY <1>1, <1>2 DEF SEG_BLANK

LEMMA DigitRead == ASSUME NEW d \in 0 .. 9 PROVE DigitOf(SEG_LUT[d + 1]) = d
  <1>1. \E e \in 0 .. 9 : SEG_LUT[e + 1] = SEG_LUT[d + 1]
    OBVIOUS
  <1>2. \A e \in 0 .. 9 : SEG_LUT[e + 1] = SEG_LUT[d + 1] => e = d
    BY Segments
  <1> QED BY <1>1, <1>2 DEF DigitOf

\* Segments that are blank or show a digit.
Readable(segs) ==
    \A k \in Places : segs[k] = SEG_BLANK \/ \E d \in 0 .. 9 : segs[k] = SEG_LUT[d + 1]

LEMMA ReadingIs ==
    ASSUME NEW segs, Readable(segs)
    PROVE  /\ Reading(segs)[0] = 0
           /\ \A n \in 1 .. Digits :
                 Reading(segs)[n] = IF segs[Digits - n] = SEG_BLANK THEN Reading(segs)[n - 1]
                                    ELSE 10 * Reading(segs)[n - 1] + DigitOf(segs[Digits - n])
           /\ \A n \in 0 .. Digits : Reading(segs)[n] \in Nat
  <1> DEFINE V == Nat
             zero == 0
             E(n, v) == IF segs[Digits - n] = SEG_BLANK THEN v ELSE 10 * v + DigitOf(segs[Digits - n])
             step == [x \in (1 .. Digits) \X V |-> E(x[1], x[2])]
  <1>0. ASSUME NEW n \in 1 .. Digits, NEW v \in Nat PROVE E(n, v) \in Nat
    <2>1. Digits - n \in Places
      BY WidthFact DEF Places
    <2>2. CASE segs[Digits - n] = SEG_BLANK
      BY <2>2
    <2>3. CASE segs[Digits - n] # SEG_BLANK
      <3>1. PICK d \in 0 .. 9 : segs[Digits - n] = SEG_LUT[d + 1]
        BY <2>1, <2>3 DEF Readable
      <3>2. DigitOf(segs[Digits - n]) \in Nat
        BY <3>1, DigitRead
      <3> QED BY <2>3, <3>2
    <2> QED BY <2>2, <2>3
  <1>1. step \in StepOf(Digits, V) /\ zero \in V
    <2>1. ASSUME NEW x \in (1 .. Digits) \X V PROVE E(x[1], x[2]) \in V
      <3>1. x[1] \in 1 .. Digits /\ x[2] \in Nat
        OBVIOUS
      <3> QED BY <1>0, <3>1
    <2> HIDE DEF E
    <2> QED BY <2>1 DEF StepOf
  <1> HIDE DEF E
  <1>2. PICK g : IsRecursion(g, Digits, V, zero, step)
    <2> HIDE DEF step, V, zero
    <2> QED BY <1>1, RecursionExists, WidthFact
  <1>3. g \in [0 .. Digits -> V] /\ g[0] = zero /\ \A n \in 1 .. Digits : g[n] = step[<<n, g[n - 1]>>]
    BY <1>2 DEF IsRecursion
  <1>4. ASSUME NEW n \in 1 .. Digits PROVE g[n] = E(n, g[n - 1])
    <2>1. <<n, g[n - 1]>> \in (1 .. Digits) \X V
      <3>1. n - 1 \in 0 .. Digits
        BY WidthFact
      <3>2. g[n - 1] \in V
        BY <1>3, <3>1
      <3> QED BY <3>2
    <2>2. step[<<n, g[n - 1]>>] = E(n, g[n - 1])
      BY <2>1
    <2> QED BY <1>3, <2>2
  <1> HIDE DEF step
  <1>5. g = [n \in 0 .. Digits |-> IF n = 0 THEN 0 ELSE E(n, g[n - 1])]
    <2>1. ASSUME NEW n \in 0 .. Digits PROVE g[n] = IF n = 0 THEN 0 ELSE E(n, g[n - 1])
      <3>1. n = 0 \/ n \in 1 .. Digits
        BY WidthFact
      <3> QED BY <1>3, <1>4, <3>1
    <2>2. g = [n \in 0 .. Digits |-> g[n]]
      BY <1>3
    <2> QED BY <2>1, <2>2
  <1> DEFINE read == Reading(segs)
  <1>6. read = [n \in 0 .. Digits |-> IF n = 0 THEN 0 ELSE E(n, read[n - 1])]
    BY <1>5 DEF Reading, E
  <1> HIDE DEF read
  <1>7. read[0] = 0 /\ \A n \in 1 .. Digits : read[n] = E(n, read[n - 1])
    <2>1. 0 \in 0 .. Digits /\ \A n \in 1 .. Digits : n \in 0 .. Digits /\ n # 0
      BY WidthFact
    <2> QED BY <1>6, <2>1
  <1>8. \A n \in 0 .. Digits : read[n] \in Nat
    <2> DEFINE S == {n \in 0 .. Digits : read[n] \in Nat}
    <2>1. 0 \in S /\ \A n \in 1 .. Digits : n - 1 \in S => n \in S
      BY <1>0, <1>7, WidthFact
    <2>2. \A n \in 0 .. Digits : n \in S
      <3> HIDE DEF S
      <3> QED BY <2>1, InductionOnRange, WidthFact
    <2> QED BY <2>2
  <1> QED BY <1>7, <1>8 DEF read, E

\* What is read so far, followed by the digits still to be read, is the number.
LEMMA ReadsNumber ==
    ASSUME NEW d \in [Places -> 0 .. 9], NEW segs,
           \A k \in Places : segs[k] = IF LeadingZero(d, k) THEN SEG_BLANK ELSE SEG_LUT[d[k] + 1]
    PROVE  Reading(segs)[Digits] = Number(d)[Digits]
  <1> DEFINE read == Reading(segs)
             num == Number(d)
             S == {n \in 0 .. Digits : read[n] * TenTo[Digits - n] + num[Digits - n] = num[Digits]}
  <1>0. d \in [Places -> Nat] /\ num[Digits] \in Nat /\ num[0] = 0
    <2>1. d \in [Places -> Nat] /\ Digits \in 0 .. Digits
      BY WidthFact
    <2> QED BY <2>1, NumberIs
  <1>1. Readable(segs)
    BY DEF Readable
  <1>2. 0 \in S
    <2>1. read[0] = 0 /\ TenTo[Digits] \in Nat /\ Digits - 0 = Digits
      BY <1>1, ReadingIs, PowersOfTen, WidthFact
    <2> HIDE DEF read, num
    <2> QED BY <1>0, <2>1, WidthFact
  <1>3. ASSUME NEW n \in 1 .. Digits, n - 1 \in S PROVE n \in S
    <2> DEFINE k == Digits - n
               p == TenTo[k]
               r == read[n - 1]
    <2>1. k \in Places /\ k + 1 \in 1 .. Digits /\ (k + 1) - 1 = k /\ Digits - (n - 1) = k + 1
          /\ n - 1 \in 0 .. Digits /\ k \in 0 .. Digits /\ k + 1 \in k .. Digits /\ Digits \in k .. Digits
      BY WidthFact DEF Places
    <2>2. /\ d[k] \in 0 .. 9 /\ p \in Nat \ {0} /\ TenTo[k + 1] = 10 * p
          /\ num[k] \in Nat /\ num[k + 1] = num[k] + d[k] * p /\ d[k] * p \in Nat
      BY <1>0, <2>1, NumberGrowsBy
    <2>3. r \in Nat
      BY <1>1, <2>1, ReadingIs
    <2>4. r * (10 * p) + num[k + 1] = num[Digits]
      BY <1>3, <2>1, <2>2
    <2>5. CASE LeadingZero(d, k)
      <3>1. segs[k] = SEG_BLANK
        BY <2>1, <2>5
      <3>2. read[n] = r
        BY <1>1, <3>1, ReadingIs
      <3>3. num[k + 1] = num[k] /\ num[Digits] = num[k]
        BY <1>0, <2>1, <2>5, NumberStays DEF LeadingZero
      <3> HIDE DEF r, p, num, read, k
      <3>4. r * (10 * p) = 0
        <4>1. r * (10 * p) \in Nat
          BY <2>2, <2>3
        <4> QED BY <2>2, <2>4, <3>3, <4>1
      <3>5. r = 0
        BY <2>2, <2>3, <3>4
      <3>6. read[n] * p + num[k] = num[Digits]
        BY <2>2, <3>2, <3>3, <3>5
      <3> QED BY <3>6 DEF p, k
    <2>6. CASE ~LeadingZero(d, k)
      <3>1. segs[k] = SEG_LUT[d[k] + 1]
        BY <2>1, <2>6
      <3>2. segs[k] # SEG_BLANK /\ DigitOf(segs[k]) = d[k]
        BY <2>2, <3>1, Segments, DigitRead
      <3>3. read[n] = 10 * r + d[k]
        BY <1>1, <3>2, ReadingIs
      <3> HIDE DEF r, p, num, read, k
      <3>4. (10 * r + d[k]) * p = r * (10 * p) + d[k] * p
        BY <2>2, <2>3
      <3>5. r * (10 * p) \in Nat
        BY <2>2, <2>3
      <3>6. read[n] * p + num[k] = num[Digits]
        BY <1>0, <2>2, <2>4, <3>3, <3>4, <3>5
      <3> QED BY <3>6 DEF p, k
    <2> QED BY <2>5, <2>6
  <1>4. \A n \in 0 .. Digits : n \in S
    <2> HIDE DEF S
    <2> QED BY <1>2, <1>3, InductionOnRange, WidthFact
  <1>5. Digits \in 0 .. Digits /\ Digits - Digits = 0 /\ TenTo[0] = 1 /\ read[Digits] \in Nat
    BY <1>1, ReadingIs, PowersOfTen, WidthFact
  <1>6. read[Digits] * TenTo[Digits - Digits] + num[Digits - Digits] = num[Digits]
    BY <1>4, <1>5
  <1> HIDE DEF read, num, S
  <1>7. read[Digits] = num[Digits]
    BY <1>0, <1>5, <1>6
  <1> QED BY <1>7 DEF read, num

\* Whatever is in the register, it is shown.
LEMMA RegisterShown == ASSUME ctrl \in Ctrls PROVE DisplayShowsValue
  <1> DEFINE value == ctrl.value
             bcd == Bcd(value)
  <1>1. CASE ~ctrl.enabled
    BY <1>1 DEF DisplayShowsValue, hex_n
  <1>2. CASE ctrl.enabled /\ overflow
    BY <1>2 DEF DisplayShowsValue, hex_n
  <1>3. CASE ctrl.enabled /\ ~overflow
    <2>1. value \in Bins /\ value \in Nat /\ TenTo[Digits] \in Nat
      BY PowersOfTwo, PowersOfTen, WidthFact DEF Ctrls, Bins
    <2>2. value < TenTo[Digits]
      BY <1>3, <2>1 DEF overflow
    <2>3. bcd \in [Places -> 0 .. 9] /\ Number(bcd)[Digits] = value
      BY <2>1, <2>2, Converted
    <2>4. \A k \in Places : hex_n[k] = IF LeadingZero(bcd, k) THEN SEG_BLANK ELSE SEG_LUT[bcd[k] + 1]
      BY <1>3 DEF hex_n
    <2> HIDE DEF bcd, value
    <2>5. Reading(hex_n)[Digits] = value
      BY <2>3, <2>4, ReadsNumber
    <2>6. ASSUME NEW k \in Places PROVE hex_n[k] = SEG_BLANK <=> k > 0 /\ value < TenTo[k]
      <3>1. hex_n[k] = SEG_BLANK <=> LeadingZero(bcd, k)
        BY <2>3, <2>4, Segments
      <3> QED BY <2>3, <3>1, LeadingZeros DEF LeadingZero
    <2>7. \A k \in Places : bcd[k] \in 0 .. 9
      BY <2>3
    <2> QED BY <1>3, <2>5, <2>6, <2>7 DEF DisplayShowsValue, bcd, value
  <1> QED BY <1>1, <1>2, <1>3

-----------------------------------------------------------------------------
(* The daemon                                                              *)

\* What the handlers do to the display, and what main() has left behind.
HandlersOK ==
    /\ daemonPc = "start" => hex_reg = "null"
    /\ \A k \in 1 .. Len(handlers) :
          handlers[k].at # "off" /\ hex_reg # "null" => ~ctrl.enabled
    /\ hex_reg = "unmapped" => ~ctrl.enabled /\ handlers # << >>
    /\ daemonPc = "exited" /\ hex_reg # "null" => ~ctrl.enabled
    /\ daemonPc = "crashed" => hex_reg = "unmapped"

\* Where main() is in a sweep.
Sweeping == {"octet", "hold", "blank", "dash"}

SweepOK ==
    /\ daemonPc \in Sweeping => has_ip
    /\ has_ip => oct \in Addresses
    /\ daemonPc \in {"octet", "hold", "blank"} => i \in 1 .. 4
    /\ daemonPc = "dash" => i = 5
    /\ daemonPc \in Sweeping =>
          /\ Len(shown) = IF daemonPc \in {"hold", "blank"} THEN i ELSE i - 1
          /\ \A k \in 1 .. Len(shown) : shown[k] = oct[k]
    /\ daemonPc \in {"start", "blink"} => ~has_ip

\* Seconds that have passed since the sweep began, if the clock was not stepped.
Slept == IF daemonPc = "blank" THEN i ELSE i - 1

FreshOK ==
    steps = 0 =>
       /\ daemonPc \in Sweeping => oct = began /\ (age >= Slept \/ age >= IP_POLL_SEC)
       /\ daemonPc \in {"rest", "poll"} /\ has_ip => age >= IP_POLL_SEC

DaemonInv == DaemonTypeOK /\ HandlersOK /\ SweepOK /\ FreshOK

LEMMA DaemonFact ==
    /\ \A a \in Addresses : a \in [1 .. 4 -> 0 .. 255]
    /\ None \notin Addresses
    /\ Pokes \subseteq Ctrls
    /\ Back \in Nat /\ MaxSteps \in Nat
    /\ 255 \in Bins /\ TenTo[Digits] \in Bins
  BY DaemonAssumption

\* What the daemon writes to the register is a word.
LEMMA Words ==
    /\ CTRL_OFF \in Ctrls /\ ~CTRL_OFF.enabled
    /\ CTRL_DASH \in Ctrls
    /\ \A n \in 0 .. 255 : Octet(n) \in Ctrls
  <1>1. TwoTo[Width] \in Nat \ {0}
    BY PowersOfTwo, WidthFact
  <1>2. 0 \in Bins /\ \A n \in 0 .. 255 : n \in Bins
    BY <1>1, DaemonFact DEF Bins
  <1> QED BY <1>2, DaemonFact DEF CTRL_OFF, CTRL_DASH, Octet, Ctrls

LEMMA DaemonStarts == DaemonInit => DaemonInv
  <1> SUFFICES ASSUME DaemonInit PROVE DaemonInv
    OBVIOUS
  <1> USE DEF DaemonInit, DisplayInit
  <1>1. ctrl \in Ctrls
    BY Words DEF CTRL_OFF
  <1>2. oct \in [1 .. 4 -> 0 .. 255]
    OBVIOUS
  <1>3. DaemonTypeOK
    <2>1. age \in -Back .. IP_POLL_SEC /\ steps \in 0 .. MaxSteps /\ i \in 1 .. 5
      BY DaemonFact DEF IP_POLL_SEC
    <2>2. handlers \in Seq([sig : Signals, at : {"off", "unmap", "exit"}]) /\ shown \in Seq(0 .. 255)
      BY EmptySeq
    <2>3. iface \in Addresses \cup {None} /\ began \in Addresses \cup {None}
          /\ daemonPc = "start" /\ hex_reg = "null" /\ has_ip \in BOOLEAN /\ blink_on \in BOOLEAN
      OBVIOUS
    <2> HIDE DEF DaemonInit, DisplayInit
    <2> QED BY <1>1, <1>2, <2>1, <2>2, <2>3 DEF DaemonTypeOK
  <1>4. HandlersOK /\ SweepOK /\ FreshOK
    BY DEF HandlersOK, SweepOK, FreshOK, Sweeping
  <1> QED BY <1>3, <1>4 DEF DaemonInv

\* What main() does keeps the types.
LEMMA MainType == DaemonInv /\ DaemonStep => DaemonTypeOK'
  <1> SUFFICES ASSUME DaemonInv, DaemonStep PROVE DaemonTypeOK'
    OBVIOUS
  <1> USE DEF DaemonInv, At, Goto
  <1>1. CASE MapDisplay
    BY <1>1 DEF MapDisplay, DaemonTypeOK, history
  <1>2. CASE Poll
    <2>1. 0 \in -Back .. IP_POLL_SEC
      BY DaemonFact DEF IP_POLL_SEC
    <2>2. has_ip' \in BOOLEAN /\ oct' \in [1 .. 4 -> 0 .. 255] /\ age' \in -Back .. IP_POLL_SEC
      BY <1>2, <2>1, DaemonFact DEF Poll, DaemonTypeOK
    <2>3. daemonPc' \in {"octet", "blink"} /\ i' = 1 /\ shown' = << >> /\ began' = iface
      BY <1>2 DEF Poll
    <2> QED BY <1>2, <2>2, <2>3 DEF Poll, DaemonTypeOK
  <1>3. CASE ShowOctet
    <2>1. i \in 1 .. 4
      BY <1>3 DEF ShowOctet, SweepOK
    <2>2. oct[i] \in 0 .. 255
      BY <2>1 DEF DaemonTypeOK
    <2>3. ctrl' \in Ctrls
      BY <1>3, <2>2, Words DEF ShowOctet, WriteCtrl
    <2>4. shown' \in Seq(0 .. 255)
      BY <1>3, <2>2, AppendProperties DEF ShowOctet, DaemonTypeOK
    <2> QED BY <1>3, <2>3, <2>4 DEF ShowOctet, DaemonTypeOK
  <1>4. CASE Blank
    <2>1. i \in 1 .. 4
      BY <1>4 DEF Blank, SweepOK
    <2>2. ctrl' \in Ctrls /\ i' \in 1 .. 5 /\ daemonPc' \in {"dash", "octet"}
      BY <1>4, <2>1, Words DEF Blank, WriteCtrl
    <2> QED BY <1>4, <2>2 DEF Blank, DaemonTypeOK, history
  <1>5. CASE Dash
    <2>1. ctrl' \in Ctrls
      BY <1>5, Words DEF Dash, WriteCtrl
    <2> QED BY <1>5, <2>1 DEF Dash, DaemonTypeOK, history
  <1>6. CASE Blink
    <2>1. ctrl' \in Ctrls
      BY <1>6, Words DEF Blink, WriteCtrl
    <2> QED BY <1>6, <2>1 DEF Blink, DaemonTypeOK, history
  <1>7. CASE Sleep
    <2>1. age' \in -Back .. IP_POLL_SEC
      BY <1>7, DaemonFact DEF Sleep, DaemonTypeOK, IP_POLL_SEC
    <2> QED BY <1>7, <2>1 DEF Sleep, DaemonTypeOK, history
  <1> QED BY <1>1, <1>2, <1>3, <1>4, <1>5, <1>6, <1>7 DEF DaemonStep

\* A step of main() runs while no handler does.
LEMMA MainHandlers == DaemonInv /\ DaemonStep => HandlersOK'
  <1> SUFFICES ASSUME DaemonInv, DaemonStep PROVE HandlersOK'
    OBVIOUS
  <1>1. handlers = << >> /\ handlers' = << >> /\ hex_reg # "unmapped"
        /\ (daemonPc = "start" => hex_reg = "null")
    BY DEF DaemonInv, HandlersOK, DaemonStep, MapDisplay, Poll, ShowOctet, Blank, Dash, Blink,
           Sleep, At, Goto
  <1>2. /\ hex_reg' # "unmapped" /\ daemonPc' \notin {"start", "crashed"}
        /\ daemonPc' = "exited" => hex_reg' = "null"
    BY <1>1 DEF DaemonStep, MapDisplay, Poll, ShowOctet, Blank, Dash, Blink, Sleep, At, Goto
  <1> QED BY <1>1, <1>2 DEF HandlersOK

\* An octet shown is one of the address, and a second goes by with each.
LEMMA MainSweeps == DaemonInv /\ DaemonStep => SweepOK' /\ FreshOK'
  <1> SUFFICES ASSUME DaemonInv, DaemonStep PROVE SweepOK' /\ FreshOK'
    OBVIOUS
  <1> USE DEF DaemonInv, At, Goto, Sweeping, IP_POLL_SEC
  <1>0. i \in 1 .. 5 /\ age \in Int /\ age <= IP_POLL_SEC /\ steps \in Nat /\ shown \in Seq(0 .. 255)
    BY DaemonFact DEF DaemonTypeOK
  <1>1. CASE MapDisplay
    <2>1. daemonPc' \in {"poll", "exited"} /\ ~has_ip' /\ ~has_ip
      BY <1>1 DEF MapDisplay, SweepOK
    <2> QED BY <2>1 DEF SweepOK, FreshOK
  <1>2. CASE Poll
    <2>1. CASE PollDue
      <3>1. CASE iface # None
        <4>1. iface \in Addresses
          BY <3>1 DEF DaemonTypeOK
        <4>2. has_ip' /\ oct' = iface /\ age' = 0 /\ daemonPc' = "octet" /\ i' = 1
              /\ began' = iface /\ shown' = << >> /\ steps' = steps
          BY <1>2, <2>1, <3>1 DEF Poll
        <4> QED BY <4>1, <4>2 DEF SweepOK, FreshOK, Slept
      <3>2. CASE iface = None
        <4>1. ~has_ip' /\ daemonPc' = "blink"
          BY <1>2, <2>1, <3>2 DEF Poll
        <4> QED BY <4>1 DEF SweepOK, FreshOK
      <3> QED BY <3>1, <3>2
    <2>2. CASE ~PollDue
      <3>1. has_ip' = has_ip /\ oct' = oct /\ age' = age /\ steps' = steps /\ i' = 1 /\ shown' = << >>
            /\ daemonPc' = (IF has_ip THEN "octet" ELSE "blink")
        BY <1>2, <2>2 DEF Poll
      <3>2. steps = 0 => ~has_ip
        BY <1>0, <1>2, <2>2 DEF Poll, PollDue, FreshOK
      <3> QED BY <1>2, <3>1, <3>2 DEF SweepOK, FreshOK
    <2> QED BY <2>1, <2>2
  <1>3. CASE ShowOctet
    <2>1. daemonPc = "octet" /\ daemonPc' = "hold" /\ i \in 1 .. 4 /\ Len(shown) = i - 1
          /\ shown' = Append(shown, oct[i])
          /\ UNCHANGED <<has_ip, oct, i, age, began, steps>>
      BY <1>3 DEF ShowOctet, SweepOK
    <2>2. oct[i] \in 0 .. 255
      BY <2>1 DEF DaemonTypeOK
    <2>3. Len(shown') = i /\ \A k \in 1 .. Len(shown') : shown'[k] = oct[k]
      <3>1. Len(shown') = Len(shown) + 1 /\ shown'[Len(shown) + 1] = oct[i]
            /\ \A k \in 1 .. Len(shown) : shown'[k] = shown[k]
        BY <1>0, <2>1, <2>2, AppendProperties
      <3> QED BY <2>1, <3>1 DEF SweepOK
    <2>4. SweepOK'
      BY <2>1, <2>3 DEF SweepOK
    <2>5. FreshOK'
      BY <2>1 DEF FreshOK, Slept
    <2> QED BY <2>4, <2>5
  <1>4. CASE Blank
    <2>1. daemonPc = "blank" /\ i \in 1 .. 4 /\ i' = i + 1 /\ Len(shown) = i
          /\ daemonPc' = (IF i = 4 THEN "dash" ELSE "octet")
          /\ UNCHANGED <<has_ip, oct, age, began, shown, steps>>
      BY <1>4 DEF Blank, SweepOK, history
    <2>2. SweepOK'
      BY <2>1 DEF SweepOK
    <2>3. FreshOK'
      BY <2>1 DEF FreshOK, Slept
    <2> QED BY <2>2, <2>3
  <1>5. CASE Dash
    <2>1. daemonPc = "dash" /\ daemonPc' = "rest" /\ i = 5
          /\ UNCHANGED <<has_ip, oct, age, began, shown, i, steps>>
      BY <1>5 DEF Dash, SweepOK, history
    <2>2. SweepOK'
      BY <2>1 DEF SweepOK
    <2>3. FreshOK'
      BY <1>0, <2>1 DEF FreshOK, Slept
    <2> QED BY <2>2, <2>3
  <1>6. CASE Blink
    BY <1>6 DEF Blink, SweepOK, FreshOK, history
  <1>7. CASE Sleep
    <2>1. CASE At("hold")
      <3>1. daemonPc = "hold" /\ daemonPc' = "blank"
            /\ UNCHANGED <<has_ip, oct, began, shown, i, steps>>
        BY <1>7, <2>1 DEF Sleep, history
      <3>2. age' \in Int /\ age' >= age /\ (age' >= age + 1 \/ age' >= IP_POLL_SEC)
        <4>1. age' \in {IF age < IP_POLL_SEC THEN age + 1 ELSE age, IP_POLL_SEC}
          BY <1>7 DEF Sleep
        <4> QED BY <1>0, <4>1
      <3>3. SweepOK'
        BY <3>1 DEF SweepOK
      <3>4. FreshOK'
        BY <1>0, <3>1, <3>2 DEF FreshOK, Slept
      <3> QED BY <3>3, <3>4
    <2>2. CASE At("rest")
      <3>1. daemonPc = "rest" /\ daemonPc' = "poll"
            /\ UNCHANGED <<has_ip, oct, began, shown, i, steps>>
        BY <1>7, <2>2 DEF Sleep, history
      <3>2. SweepOK'
        BY <3>1 DEF SweepOK
      <3>3. FreshOK'
        BY <1>0, <1>7, <3>1 DEF FreshOK, Sleep
      <3> QED BY <3>2, <3>3
    <2> QED BY <1>7, <2>1, <2>2 DEF Sleep
  <1> QED BY <1>1, <1>2, <1>3, <1>4, <1>5, <1>6, <1>7 DEF DaemonStep

\* Neither signals nor what is around the daemon move main() on.
LEMMA OthersKeepSweep ==
    ASSUME DaemonInv,
           daemonPc' = daemonPc \/ daemonPc' \in {"exited", "crashed"},
           UNCHANGED <<has_ip, oct, i, began, shown>>,
           (steps' = steps /\ age' = age) \/ steps' # 0
    PROVE  SweepOK' /\ FreshOK'
  BY DEF DaemonInv, SweepOK, FreshOK, Sweeping, Slept

\* Before a handler unmaps, it has switched the display off; one that finds the
\* display unmapped dies of it.
LEMMA HandlerStepKeeps == DaemonInv /\ HandlerStep => DaemonInv'
  <1> SUFFICES ASSUME DaemonInv, HandlerStep PROVE DaemonInv'
    OBVIOUS
  <1> USE DEF DaemonInv
  <1> DEFINE H == [sig : Signals, at : {"off", "unmap", "exit"}]
  <1>1. handlers \in Seq(H) /\ handlers # << >>
    BY DEF DaemonTypeOK, HandlerStep, SwitchOff, Unmap, Exit, HandlerAt
  <1>2. Len(handlers) \in 1 .. Len(handlers) /\ Top \in H
    <2>1. Len(handlers) \in Nat /\ Len(handlers) # 0
      <3> HIDE DEF H
      <3> QED BY <1>1, EmptySeq, LenProperties
    <2>2. Len(handlers) \in 1 .. Len(handlers)
      BY <2>1
    <2>3. \A k \in 1 .. Len(handlers) : handlers[k] \in H
      <3> HIDE DEF H
      <3> QED BY <1>1, ElementOfSeq
    <2> QED BY <2>2, <2>3 DEF Top
  <1>3. ASSUME NEW at \in {"unmap", "exit"}, HandlerGoto(at)
        PROVE  /\ handlers' \in Seq(H) /\ handlers' # << >> /\ Len(handlers') = Len(handlers)
               /\ \A k \in 1 .. Len(handlers) :
                     handlers'[k].at = IF k = Len(handlers) THEN at ELSE handlers[k].at
    <2>1. handlers' = [handlers EXCEPT ![Len(handlers)] = [Top EXCEPT !.at = at]]
      BY <1>3 DEF HandlerGoto, Top
    <2>2. [Top EXCEPT !.at = at] \in H /\ [Top EXCEPT !.at = at].at = at
      BY <1>2
    <2>3. handlers' \in Seq(H) /\ Len(handlers') = Len(handlers)
      BY <1>1, <1>2, <2>1, <2>2, ExceptSeq
    <2>4. \A k \in 1 .. Len(handlers) :
             handlers'[k] = IF k = Len(handlers) THEN [Top EXCEPT !.at = at] ELSE handlers[k]
      BY <1>1, <1>2, <2>1, <2>2, ExceptSeq
    <2>5. handlers' # << >>
      BY <1>1, <1>2, <2>3, EmptySeq
    <2> QED BY <2>2, <2>3, <2>4, <2>5
  <1>4. SweepOK' /\ FreshOK'
    BY OthersKeepSweep DEF HandlerStep, SwitchOff, Unmap, Exit, OnlyHandlers, history
  <1>5. CASE SwitchOff
    <2>1. CASE hex_reg = "unmapped"
      <3>1. ctrl' = ctrl /\ daemonPc' = "crashed" /\ handlers' = handlers /\ hex_reg' = hex_reg
        BY <1>5, <2>1 DEF SwitchOff
      <3>2. DaemonTypeOK'
        BY <1>5, <3>1 DEF SwitchOff, OnlyHandlers, history, DaemonTypeOK
      <3>3. HandlersOK'
        BY <2>1, <3>1 DEF HandlersOK
      <3> QED BY <1>4, <3>2, <3>3
    <2>2. CASE hex_reg # "unmapped"
      <3>1. /\ ctrl' = IF hex_reg = "mapped" THEN CTRL_OFF ELSE ctrl
            /\ daemonPc' = daemonPc /\ hex_reg' = hex_reg /\ HandlerGoto("unmap")
        BY <1>5, <2>2 DEF SwitchOff, WriteCtrl
      <3>2. DaemonTypeOK'
        BY <1>3, <1>5, <3>1, Words DEF SwitchOff, OnlyHandlers, history, DaemonTypeOK
      <3>3. hex_reg # "null" => ~ctrl'.enabled
        BY <2>2, <3>1, Words DEF DaemonTypeOK
      <3>4. HandlersOK'
        BY <1>3, <2>2, <3>1, <3>3 DEF HandlersOK
      <3> QED BY <1>4, <3>2, <3>4
    <2> QED BY <2>1, <2>2
  <1>6. CASE Unmap
    <2>1. /\ hex_reg' = (IF hex_reg = "mapped" THEN "unmapped" ELSE hex_reg)
          /\ HandlerGoto("exit") /\ ctrl' = ctrl /\ daemonPc' = daemonPc
          /\ Top.at = "unmap" /\ ~Ended
      BY <1>6 DEF Unmap, HandlerAt
    <2>2. DaemonTypeOK'
      BY <1>3, <1>6, <2>1 DEF Unmap, OnlyHandlers, history, DaemonTypeOK
    <2>3. hex_reg # "null" => ~ctrl.enabled
      BY <1>2, <2>1 DEF HandlersOK, Top
    <2>4. HandlersOK'
      BY <1>1, <1>3, <2>1, <2>3 DEF HandlersOK, Ended, DaemonTypeOK
    <2> QED BY <1>4, <2>2, <2>4
  <1>7. CASE Exit
    <2>1. daemonPc' = "exited" /\ UNCHANGED <<ctrl, hex_reg, handlers>> /\ Top.at = "exit"
      BY <1>7 DEF Exit, HandlerAt
    <2>2. DaemonTypeOK'
      BY <1>7, <2>1 DEF Exit, OnlyHandlers, history, DaemonTypeOK
    <2>3. hex_reg # "null" => ~ctrl.enabled
      BY <1>2, <2>1 DEF HandlersOK, Top
    <2>4. HandlersOK'
      BY <2>1, <2>3 DEF HandlersOK
    <2> QED BY <1>4, <2>2, <2>4
  <1> QED BY <1>5, <1>6, <1>7 DEF HandlerStep

LEMMA SignalKeeps ==
    ASSUME DaemonInv, NEW sig \in Signals, Signal(sig)
    PROVE  DaemonInv'
  <1> USE DEF DaemonInv
  <1> DEFINE H == [sig : Signals, at : {"off", "unmap", "exit"}]
             h == [sig |-> sig, at |-> "off"]
  <1>1. SweepOK' /\ FreshOK'
    BY OthersKeepSweep DEF Signal, OnlyHandlers, history
  <1>2. h \in H /\ h.at = "off" /\ handlers' = Append(handlers, h) /\ handlers \in Seq(H)
    BY DEF Signal, DaemonTypeOK
  <1> HIDE DEF h
  <1>3. /\ handlers' \in Seq(H) /\ Len(handlers') = Len(handlers) + 1 /\ handlers' # << >>
        /\ \A k \in 1 .. Len(handlers) : handlers'[k] = handlers[k]
        /\ handlers'[Len(handlers) + 1] = h
    BY <1>2, AppendProperties
  <1>4. DaemonTypeOK'
    BY <1>3 DEF Signal, OnlyHandlers, history, DaemonTypeOK
  <1>5. Len(handlers) \in Nat /\ \A k \in 1 .. Len(handlers') : k \in 1 .. Len(handlers) \/ k = Len(handlers) + 1
    BY <1>2, <1>3, LenProperties
  <1>6. HandlersOK'
    BY <1>2, <1>3, <1>5 DEF Signal, HandlersOK
  <1> QED BY <1>1, <1>4, <1>6

LEMMA OthersKeep ==
    ASSUME DaemonInv, Interface \/ ClockStep \/ Poke \/ SystemReset
    PROVE  DaemonInv'
  <1> USE DEF DaemonInv
  <1>1. SweepOK' /\ FreshOK'
    BY DaemonFact, OthersKeepSweep DEF Interface, ClockStep, Poke, SystemReset, processVars, history,
       DaemonTypeOK
  <1>2. CASE Interface
    BY <1>1, <1>2 DEF Interface, processVars, history, DaemonTypeOK, HandlersOK
  <1>3. CASE ClockStep
    <2>1. age' \in -Back .. IP_POLL_SEC /\ steps' \in 0 .. MaxSteps
      BY <1>3, DaemonFact DEF ClockStep, DaemonTypeOK, IP_POLL_SEC
    <2> QED BY <1>1, <1>3, <2>1 DEF ClockStep, history, DaemonTypeOK, HandlersOK
  <1>4. CASE Poke
    <2>1. ctrl' \in Ctrls
      BY <1>4, DaemonFact DEF Poke, WriteCtrl
    <2> QED BY <1>1, <1>4, <2>1 DEF Poke, processVars, history, DaemonTypeOK, HandlersOK
  <1>5. CASE SystemReset
    <2>1. ctrl' \in Ctrls /\ ~ctrl'.enabled
      BY <1>5, Words DEF SystemReset, ResetCtrl, CTRL_OFF
    <2> QED BY <1>1, <1>5, <2>1 DEF SystemReset, processVars, history, DaemonTypeOK, HandlersOK
  <1> QED BY <1>2, <1>3, <1>4, <1>5

LEMMA DaemonGoesOn == DaemonInv /\ [DaemonNext]_daemonVars => DaemonInv'
  <1> SUFFICES ASSUME DaemonInv, [DaemonNext]_daemonVars PROVE DaemonInv'
    OBVIOUS
  <1>1. CASE DaemonStep
    BY <1>1, MainType, MainHandlers, MainSweeps DEF DaemonInv
  <1>2. CASE HandlerStep
    BY <1>2, HandlerStepKeeps
  <1>3. CASE \E sig \in Signals : Signal(sig)
    BY <1>3, SignalKeeps
  <1>4. CASE Interface \/ ClockStep \/ Poke \/ SystemReset
    BY <1>4, OthersKeep
  <1>5. CASE UNCHANGED daemonVars
    BY <1>5 DEF daemonVars, processVars, history, DaemonInv, DaemonTypeOK, HandlersOK, SweepOK,
       FreshOK, Slept
  <1> QED BY <1>1, <1>2, <1>3, <1>4, <1>5 DEF DaemonNext

(***************************************************************************)
(* Of the daemon: what its handlers have left of the display, where main() *)
(* is in the sweep of which address, and how much time this has taken.     *)
(***************************************************************************)
THEOREM DaemonInvariance == DaemonSpec => []DaemonInv
  BY DaemonStarts, DaemonGoesOn, PTL DEF DaemonSpec

(***************************************************************************)
(* The display shows what is in the register, at any time and for any      *)
(* number of bits and digits: double dabble is right.                      *)
(***************************************************************************)
THEOREM DisplayIsRight == DaemonSpec => []DisplayShowsValue
  <1>1. DaemonInv => DisplayShowsValue
    BY RegisterShown DEF DaemonInv, DaemonTypeOK
  <1> QED BY <1>1, DaemonInvariance, PTL

(***************************************************************************)
(* However the handlers of the two signals meet, the daemon leaves the     *)
(* display dark.                                                           *)
(***************************************************************************)
THEOREM DarkAfterExit == DaemonSpec => []OffAfterExit
  <1>1. DaemonInv => OffAfterExit
    BY DEF DaemonInv, HandlersOK, DaemonTypeOK, OffAfterExit, Ended
  <1> QED BY <1>1, DaemonInvariance, PTL

(***************************************************************************)
(* A sweep shows the octets of the address the interface had when the      *)
(* sweep began, as long as the clock was not stepped.                      *)
(***************************************************************************)
THEOREM NoStaleSweep == DaemonSpec => SweepsAreFresh
  <1>1. DaemonInv /\ [DaemonNext]_daemonVars
          => [At("dash") /\ Dash /\ steps = 0 => shown = began]_daemonVars
    <2> SUFFICES ASSUME DaemonInv, At("dash"), steps = 0 PROVE shown = began
      OBVIOUS
    <2>1. oct = began /\ oct \in [1 .. 4 -> 0 .. 255] /\ shown \in Seq(0 .. 255) /\ Len(shown) = 4
          /\ \A k \in 1 .. 4 : shown[k] = oct[k]
      BY DEF DaemonInv, DaemonTypeOK, SweepOK, FreshOK, Sweeping, At
    <2>2. shown \in [1 .. 4 -> 0 .. 255]
      BY <2>1, LenProperties
    <2> QED BY <2>1, <2>2
  <1> QED BY <1>1, DaemonInvariance, PTL DEF SweepsAreFresh, DaemonSpec
=============================================================================
