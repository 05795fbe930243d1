----------------------------- MODULE FrameCapture -----------------------------
(***************************************************************************)
(* sw/unstable/frame_capture/frame_capture.c, the kernel module that       *)
(* checked the way from a pixel source to memory before there was a camera *)
(* driver: its init function captures NUM_FRAMES frames one after another, *)
(* saves them and frees their buffers.  The DMA channel is external; what  *)
(* it writes is for the composing module to say.                           *)
(***************************************************************************)
EXTENDS Integers

CONSTANT NumFrames

ASSUME FramesAssumption == NumFrames \in Nat \ {0}

VARIABLES
    initPc,      \* where frame_capture_init() is, or that it has not been called
    frame,       \* its local variable i, from 1
    bufs,        \* what each entry of bufs[] points to
    dma_done,    \* the completion
    transfer     \* external: the descriptor of the channel and its buffer

captureVars == <<initPc, frame, bufs, dma_done, transfer>>

Frames == 1 .. NumFrames
NoTransfer == [at |-> "idle", buf |-> 0]

CaptureInit ==
    /\ initPc = "unloaded"
    /\ frame = 1
    /\ bufs = [k \in Frames |-> "unassigned"]
    /\ dma_done = FALSE
    /\ transfer = NoTransfer

To(pc, k) == initPc' = pc /\ frame' = k

\* Each of a loop's iterations is a step; the last one goes to pc.
NextFrame(pc) == IF frame = NumFrames THEN To(pc, 1) ELSE To(initPc, frame + 1)

\* insmod, a second time only after an rmmod or a failure: data is as new.
Load ==
    /\ initPc = "unloaded"
    /\ To("alloc", 1)
    /\ bufs' = [k \in Frames |-> "unassigned"]
    /\ dma_done' = FALSE
    /\ UNCHANGED transfer

Allocate ==
    /\ initPc = "alloc"
    /\ \/ bufs' = [bufs EXCEPT ![frame] = "allocated"] /\ NextFrame("config")
       \/ bufs' = [bufs EXCEPT ![frame] = "null"] /\ To("fail", 1)
    /\ UNCHANGED <<dma_done, transfer>>

Configure ==
    /\ initPc = "config"
    /\ To("start", 1) \/ To("fail", 1)
    /\ UNCHANGED <<bufs, dma_done, transfer>>

\* capture_frame() up to dma_async_issue_pending(), or one of its failures.
StartCapture ==
    /\ initPc = "start"
    /\ \/ /\ dma_done' = FALSE
          /\ transfer' = [at |-> "running", buf |-> frame]
          /\ To("wait", frame)
       \/ /\ dma_done' \in {FALSE, dma_done}
          /\ To("fail", 1)
          /\ UNCHANGED transfer
    /\ UNCHANGED bufs

\* dma_callback(), called by the channel's tasklet.
Callback ==
    /\ transfer.at = "done"
    /\ dma_done' = TRUE
    /\ transfer' = NoTransfer
    /\ UNCHANGED <<initPc, frame, bufs>>

\* Mutant of Captured: the wait is not for the completion.
CapturedEarly ==
    /\ initPc = "wait"
    /\ IF frame = NumFrames THEN To("save", 1) ELSE To("start", frame + 1)
    /\ UNCHANGED <<bufs, dma_done, transfer>>

Captured ==
    /\ initPc = "wait" /\ dma_done
    /\ dma_done' = FALSE
    /\ IF frame = NumFrames THEN To("save", 1) ELSE To("start", frame + 1)
    /\ UNCHANGED <<bufs, transfer>>

\* Mutant of TimedOut: the channel is not stopped.
TimedOutRunning ==
    /\ initPc = "wait" /\ ~dma_done
    /\ To("fail", 1)
    /\ UNCHANGED <<bufs, dma_done, transfer>>

\* After dmaengine_terminate_sync() the channel neither writes nor calls back.
TimedOut ==
    /\ initPc = "wait" /\ ~dma_done
    /\ transfer' = NoTransfer
    /\ dma_done' \in {FALSE, transfer.at = "done"}
    /\ To("fail", 1)
    /\ UNCHANGED bufs

\* A dump that cannot be written is only reported.
Save ==
    /\ initPc = "save"
    /\ NextFrame("succeed")
    /\ UNCHANGED <<bufs, dma_done, transfer>>

\* err_free, which a success reaches as well.
Free ==
    /\ initPc \in {"succeed", "fail"}
    /\ bufs' = [k \in Frames |-> "freed"]
    /\ To(IF initPc = "succeed" THEN "loaded" ELSE "unloaded", 1)
    /\ UNCHANGED <<dma_done, transfer>>

Unload ==
    /\ initPc = "loaded"
    /\ To("unloaded", 1)
    /\ UNCHANGED <<bufs, dma_done, transfer>>

InitStep ==
    \/ Allocate \/ Configure \/ StartCapture \/ Captured
    \/ TimedOut \/ Save \/ Free

CaptureTypeOK ==
    /\ initPc \in {"unloaded", "alloc", "config", "start", "wait", "save",
                   "succeed", "fail", "loaded"}
    /\ frame \in Frames
    /\ bufs \in [Frames -> {"unassigned", "null", "allocated", "freed"}]
    /\ dma_done \in BOOLEAN
    /\ transfer \in [at : {"idle", "running", "done"}, buf : {0} \cup Frames]

(***************************************************************************)
(* The DMA never writes into a buffer that has been freed, and a callback  *)
(* is never still to come when its buffer is: whichever way and whenever   *)
(* capture_frame() ends, and above all if it times out while the frame is  *)
(* coming in, the channel has been stopped.                                *)
(***************************************************************************)
NoDmaIntoFreed == transfer.at # "idle" => bufs[transfer.buf] = "allocated"

(***************************************************************************)
(* Every pointer that is freed has been assigned.  frame_capture.c:186     *)
(* frees all entries of bufs[], of which those behind a failed kmalloc()   *)
(* have never been written.                                                *)
(***************************************************************************)
FreesOnlyAssigned == [][Free => \A k \in Frames : bufs[k] # "unassigned"]_captureVars
=============================================================================
