--------------------------------- MODULE Bench ---------------------------------
(***************************************************************************)
(* The bench on which the way from the FPGA to memory was checked: a test  *)
(* generator (PixelGenerator) in the place of the camera, and the module   *)
(* that captures frames (FrameCapture) in the place of its driver.         *)
(* Between them, external: the FIFO and the mSGDMA, which takes a beat     *)
(* only for a descriptor and ends a descriptor with a packet or when its   *)
(* buffer is full.                                                         *)
(***************************************************************************)
EXTENDS PixelGenerator, FrameCapture, Sequences

CONSTANTS
    FrameLen,    \* FRAME_LEN of the module, in bytes
    WordBytes,   \* bytes of a beat of the qword generators, 8
    Depth,       \* places of the FIFO
    MaxLoads     \* bound on the times the module is loaded

ASSUME BenchAssumption == Depth \in Nat \ {0} /\ MaxLoads \in Nat
ASSUME BytesAssumption == FrameLen \in Nat /\ WordBytes \in Nat \ {0}

VARIABLES
    fifo,        \* beats between the generator and the DMA
    memory,      \* the beats written to each buffer since it was allocated
    loads,       \* times the module was loaded
    aligned      \* history: the load began between two frames, with no reset since

benchVars == <<fifo, memory, loads, aligned>>
vars == <<genVars, captureVars, benchVars>>

Init ==
    /\ GenInit
    /\ CaptureInit
    /\ fifo = << >>
    /\ memory = [k \in Frames |-> << >>]
    /\ loads = 0
    /\ aligned = FALSE

\* What the DMA gets next begins a frame.
BetweenFrames ==
    \/ fifo # << >> /\ Head(fifo).sop
    \/ fifo = << >> /\ (source.valid => source.sop)

Clock ==
    LET ready == Len(fifo) < Depth
    IN  /\ GenClock(ready)
        /\ fifo' = IF Taken(ready) THEN Append(fifo, source) ELSE fifo
        /\ UNCHANGED <<captureVars, memory, loads, aligned>>

BeatBytes == IF kind = "byte" THEN 1 ELSE WordBytes

Full(beats) == Len(beats) * BeatBytes >= FrameLen

\* The DMA may also leave out what belongs to no packet.
OutOfPacket(beat) == beat.data = Ones

DmaTakes ==
    /\ transfer.at = "running"
    /\ fifo # << >>
    /\ fifo' = Tail(fifo)
    /\ LET k    == transfer.buf
           beat == Head(fifo)
       IN  \/ /\ memory' = [memory EXCEPT ![k] = Append(@, beat)]
              /\ transfer' = IF beat.eop \/ Full(Append(memory[k], beat))
                             THEN [transfer EXCEPT !.at = "done"] ELSE transfer
           \/ OutOfPacket(beat) /\ UNCHANGED <<memory, transfer>>
    /\ UNCHANGED <<genVars, initPc, frame, bufs, dma_done, loads, aligned>>

LoadModule ==
    /\ loads < MaxLoads
    /\ Load
    /\ loads' = loads + 1
    /\ memory' = [k \in Frames |-> << >>]
    /\ aligned' = BetweenFrames
    /\ UNCHANGED <<genVars, fifo>>

ModuleStep == (InitStep \/ Callback \/ Unload) /\ UNCHANGED <<genVars, benchVars>>

\* The reset of the FPGA side, after which the descriptor never completes.
Reset ==
    /\ GenReset
    /\ fifo' = << >>
    /\ transfer' = IF transfer.at = "running" THEN NoTransfer ELSE transfer
    /\ aligned' = FALSE
    /\ UNCHANGED <<initPc, frame, bufs, dma_done, memory, loads>>

Next == Clock \/ DmaTakes \/ LoadModule \/ ModuleStep \/ Reset

Spec == Init /\ [][Next]_vars

-----------------------------------------------------------------------------
TypeOK ==
    /\ GenTypeOK
    /\ CaptureTypeOK
    /\ loads \in 0 .. MaxLoads
    /\ aligned \in BOOLEAN

WholeFrame == [n \in 1 .. Pixels |-> BeatAt(n - 1)]

\* A frame of the generator is as long as the buffers.
Fits == Pixels * BeatBytes = FrameLen

(***************************************************************************)
(* "Captures three complete frames", "three consecutive frame captures"    *)
(* (frame_capture.c:3-5): the buffers that are saved hold one whole frame  *)
(* each, whatever the FIFO kept while no descriptor was there and also in  *)
(* a load that follows another.  Only if no load before it stopped within  *)
(* a frame, for nothing looks at the length of what was received; and only *)
(* with a generator whose frames fit, which of those in the repository     *)
(* only the one with beats of a byte does: a buffer is full after an       *)
(* eighth of a frame of 64-bit beats.                                      *)
(***************************************************************************)
CapturedFramesWhole ==
    initPc = "save" /\ aligned /\ kind # "garbage" /\ Fits => \A k \in Frames : memory[k] = WholeFrame

\* The same, as the comment has it, without the condition on earlier loads.
SavedFramesComplete ==
    initPc = "save" /\ kind # "garbage" /\ Fits => \A k \in Frames : Len(memory[k]) = Pixels

\* And for every generator.
SavedFromAnySource ==
    initPc = "save" /\ aligned /\ kind # "garbage" => \A k \in Frames : memory[k] = WholeFrame
=============================================================================
