------------------------------ MODULE Capturer ------------------------------
(***************************************************************************)
(* sw/vision_core/src/Capturer.cpp: the capture thread, which takes filled *)
(* V4L2 buffers from the driver, copies one image in Decimation + 1 into a *)
(* frame of the input buffer and hands every buffer back, and start(),     *)
(* openDevice() and stop() around it.                                      *)
(*                                                                         *)
(* The V4L2 queue of the driver is external: QBUF gives a buffer to the    *)
(* driver, DQBUF takes the oldest filled one, STREAMOFF takes all back.    *)
(* After vb2_queue_error(), which the camera driver calls when no frame    *)
(* has come for long, select() reports the device ready at once and QBUF   *)
(* and DQBUF fail, until STREAMOFF.                                        *)
(***************************************************************************)
EXTENDS Naturals, Sequences, FiniteSets

CONSTANTS
    Buffers,       \* m_inputBuffer: the mmap'ed V4L2 buffers
    InPool,        \* frames of m_outputBuffer (Main.cpp's inputBuffer)
    NoFrame,       \* a null Frame pointer
    NoBuffer,      \* no buffer dequeued
    Decimation,    \* m_decimation
    DeviceMayFail  \* openDevice(), STREAMON, select() and the queue may fail

ASSUME CapturerAssumption ==
    /\ IsFiniteSet(Buffers) /\ NoBuffer \notin Buffers /\ NoFrame \notin InPool
    /\ Decimation \in Nat
    /\ DeviceMayFail \in BOOLEAN

Tags == {"blank", "plain", "first", "second"}     \* images, as in Processor

VARIABLES
    input, inImage,   \* m_outputBuffer and the image in each of its frames
    device,           \* m_v4l2DeviceDescriptor: how far its setup got, whether its
                      \* queue is in error, whether stop() has given up the drain
    vb,               \* where every V4L2 buffer is: "app", "driver", "done"
    done,             \* filled buffers, oldest first
    vbImage,          \* the image in every V4L2 buffer
    capturing,        \* m_running
    capPc,            \* where captureThread() is
    capBuf, capFrame, \* its local variables buf and frame
    skipCount,        \* m_skipCount
    drained           \* loop counter i of stop()

deviceVars  == <<device, vb, done, vbImage>>
captureVars == <<capturing, capPc, capBuf, capFrame, skipCount, drained>>
capVars     == <<input, inImage, deviceVars, captureVars>>

In == INSTANCE FrameChannel WITH Pool <- InPool, chan <- input

CapTypeOK ==
    /\ input \in In!Channels
    /\ inImage \in [InPool -> Tags]
    /\ device \in {"closed", "halfopen", "open", "streaming", "error", "abandoned"}
    /\ vb \in [Buffers -> {"app", "driver", "done"}]
    /\ done \in Seq(Buffers)
    /\ vbImage \in [Buffers -> Tags]
    /\ capturing \in BOOLEAN
    /\ capPc \in {"off", "head", "select", "borrow", "copy", "push",
                  "requeue", "exited"}
    /\ capBuf \in Buffers \cup {NoBuffer}
    /\ capFrame \in InPool \cup {NoFrame}
    /\ skipCount \in 0 .. Decimation
    /\ drained \in 0 .. Cardinality(Buffers)

CapInit ==
    /\ input = In!NewChannel
    /\ inImage = [f \in InPool |-> "blank"]
    /\ device = "closed"
    /\ vb = [b \in Buffers |-> "app"]
    /\ done = << >>
    /\ vbImage = [b \in Buffers |-> "blank"]
    /\ capturing = FALSE
    /\ capPc = "off"
    /\ capBuf = NoBuffer
    /\ capFrame = NoFrame
    /\ skipCount = 0
    /\ drained = 0

-----------------------------------------------------------------------------
(* openDevice() and start()                                                *)

\* Mutant of OpenDevice: the buffers are mapped and not queued.
OpenDeviceEmpty ==
    /\ device = "closed" /\ capPc = "off"
    /\ device' = "open"
    /\ UNCHANGED <<input, inImage, vb, done, vbImage, captureVars>>

\* Every buffer is mapped and queued to the driver.
OpenDevice ==
    /\ device = "closed" /\ capPc = "off"
    /\ device' = "open"
    /\ vb' = [b \in Buffers |-> "driver"]
    /\ UNCHANGED <<input, inImage, done, vbImage, captureVars>>

\* It throws half way; the descriptor stays open until stop().
OpenFails ==
    /\ DeviceMayFail
    /\ device = "closed" /\ capPc = "off"
    /\ device' = "halfopen"
    /\ UNCHANGED <<input, inImage, vb, done, vbImage, captureVars>>

\* STREAMON fails and start() throws.
StartFails ==
    /\ DeviceMayFail
    /\ device = "open" /\ capPc = "off"
    /\ device' = "halfopen"
    /\ UNCHANGED <<input, inImage, vb, done, vbImage, captureVars>>

StartCapture ==
    /\ device = "open" /\ capPc = "off"
    /\ device' = "streaming"
    /\ capturing' = TRUE
    /\ capPc' = "head"
    /\ UNCHANGED <<input, inImage, vb, done, vbImage, capBuf, capFrame, skipCount, drained>>

-----------------------------------------------------------------------------
(* captureThread()                                                         *)

CapHead ==
    /\ capPc = "head"
    /\ capPc' = IF capturing THEN "select" ELSE "exited"
    /\ UNCHANGED <<input, inImage, deviceVars, capturing, capBuf, capFrame, skipCount, drained>>

\* Two seconds without a filled buffer: look at m_running again.
SelectTimeout ==
    /\ capPc = "select" /\ device # "error"
    /\ done = << >>
    /\ capPc' = "head"
    /\ UNCHANGED <<input, inImage, deviceVars, capturing, capBuf, capFrame, skipCount, drained>>

\* select() is interrupted by a signal, or DQBUF fails: the thread ends, and
\* nobody is told.
CaptureBreaks ==
    /\ DeviceMayFail
    /\ capPc = "select"
    /\ capPc' = "exited"
    /\ UNCHANGED <<input, inImage, deviceVars, capturing, capBuf, capFrame, skipCount, drained>>

TakeDone ==
    /\ vb' = [vb EXCEPT ![Head(done)] = "app"]
    /\ done' = Tail(done)

\* select() reports a filled buffer and DQBUF takes it; decimation lets only
\* one image in m_decimation + 1 go on.
Dequeue ==
    /\ capPc = "select" /\ device # "error"
    /\ done # << >>
    /\ TakeDone
    /\ capBuf' = Head(done)
    /\ IF skipCount < Decimation
       THEN skipCount' = skipCount + 1 /\ capPc' = "requeue"
       ELSE skipCount' = 0 /\ capPc' = "borrow"
    /\ UNCHANGED <<input, inImage, device, vbImage, capturing, capFrame, drained>>

BorrowInput ==
    /\ capPc = "borrow"
    /\ \E f \in In!At(input, "free") : capFrame' = f /\ input' = In!Borrowed(input, f)
    /\ capPc' = "copy"
    /\ UNCHANGED <<inImage, deviceVars, capturing, capBuf, skipCount, drained>>

\* Mutant of DropImage: `continue` without the QBUF.
DropImageAndBuffer ==
    /\ capPc = "borrow"
    /\ ~In!CanBorrow(input)
    /\ capBuf' = NoBuffer
    /\ capPc' = "head"
    /\ UNCHANGED <<input, inImage, deviceVars, capturing, capFrame, skipCount, drained>>

\* Mutant of DropImage: borrow again until a frame is free.
DropImageNever ==
    /\ capPc = "borrow"
    /\ ~In!CanBorrow(input)
    /\ UNCHANGED capVars

\* Pool exhausted: the image is dropped.
DropImage ==
    /\ capPc = "borrow"
    /\ ~In!CanBorrow(input)
    /\ capPc' = "requeue"
    /\ UNCHANGED <<input, inImage, deviceVars, capturing, capBuf, capFrame, skipCount, drained>>

\* Mutant of Copy: only a frame never used before is written.
CopyOnlyOnce ==
    /\ capPc = "copy"
    /\ inImage' = [inImage EXCEPT ![capFrame] =
                      IF @ = "blank" THEN vbImage[capBuf] ELSE @]
    /\ capPc' = "push"
    /\ UNCHANGED <<input, deviceVars, capturing, capBuf, capFrame, skipCount, drained>>

Copy ==
    /\ capPc = "copy"
    /\ inImage' = [inImage EXCEPT ![capFrame] = vbImage[capBuf]]
    /\ capPc' = "push"
    /\ UNCHANGED <<input, deviceVars, capturing, capBuf, capFrame, skipCount, drained>>

PushInput ==
    /\ capPc = "push"
    /\ input' = In!Pushed(input, capFrame)
    /\ capFrame' = NoFrame
    /\ capPc' = "requeue"
    /\ UNCHANGED <<inImage, deviceVars, capturing, capBuf, skipCount, drained>>

\* Nobody looks at the result of QBUF: in error the buffer stays where it is.
Requeue ==
    /\ capPc = "requeue"
    /\ vb' = IF device = "error" THEN vb ELSE [vb EXCEPT ![capBuf] = "driver"]
    /\ capBuf' = NoBuffer
    /\ capPc' = "head"
    /\ UNCHANGED <<input, inImage, device, done, vbImage, capturing, capFrame, skipCount, drained>>

CapStep ==
    \/ CapHead \/ SelectTimeout \/ CaptureBreaks \/ Dequeue
    \/ BorrowInput \/ DropImage \/ Copy \/ PushInput \/ Requeue

-----------------------------------------------------------------------------
(* The driver fills a buffer with the next image, even after it gave up    *)
(* waiting for one.                                                        *)

Complete(tag) ==
    /\ device \in {"streaming", "error", "abandoned"}
    /\ \E b \in Buffers :
          /\ vb[b] = "driver"
          /\ vb' = [vb EXCEPT ![b] = "done"]
          /\ done' = Append(done, b)
          /\ vbImage' = [vbImage EXCEPT ![b] = tag]
    /\ UNCHANGED <<input, inImage, device, captureVars>>

QueueError ==
    /\ DeviceMayFail
    /\ device = "streaming"
    /\ device' = "error"
    /\ UNCHANGED <<input, inImage, vb, done, vbImage, captureVars>>

-----------------------------------------------------------------------------
(* stop(): join the thread, then take the buffers back before STREAMOFF.   *)

StopCapture ==
    /\ capturing' = FALSE
    /\ UNCHANGED <<input, inImage, deviceVars, capPc, capBuf, capFrame, skipCount, drained>>

Joined  == ~capturing /\ capPc \in {"off", "exited"}
AtDriver == {b \in Buffers : vb[b] = "driver"}

\* select() reports the device ready: DQBUF takes a filled buffer, or fails,
\* as it does in error and without STREAMON.  The turn counts either way.
DrainTurn ==
    /\ Joined /\ device \in {"halfopen", "streaming", "error"}
    /\ drained < Cardinality(Buffers)
    /\ \/ device = "streaming" /\ done # << >> /\ TakeDone
       \/ device # "streaming" /\ UNCHANGED <<vb, done>>
    /\ drained' = drained + 1
    /\ UNCHANGED <<input, inImage, device, vbImage, capturing, capPc, capBuf, capFrame, skipCount>>

\* select() <= 0: 100 ms without a filled buffer, or a signal.
DrainBreaks ==
    /\ Joined /\ device = "streaming"
    /\ drained < Cardinality(Buffers)
    /\ done = << >> \/ DeviceMayFail
    /\ device' = "abandoned"
    /\ UNCHANGED <<input, inImage, vb, done, vbImage, captureVars>>

\* Mutant of DrainEnds: one turn too few.
DrainEndsEarly ==
    drained + 1 = Cardinality(Buffers) \/ device \in {"halfopen", "abandoned"}

\* The loop is over: as many turns as there are buffers, or break.  A device
\* that is half open need not have any.
DrainEnds ==
    drained = Cardinality(Buffers) \/ device \in {"halfopen", "abandoned"}

StreamOff ==
    /\ Joined /\ device # "closed"
    /\ DrainEnds
    /\ device' = "closed"
    /\ vb' = [b \in Buffers |-> "app"]
    /\ done' = << >>
    /\ drained' = 0
    /\ UNCHANGED <<input, inImage, vbImage, capturing, capPc, capBuf, capFrame, skipCount>>

StopStep == DrainTurn \/ DrainBreaks \/ StreamOff
-----------------------------------------------------------------------------
Held == {capBuf} \ {NoBuffer}

(***************************************************************************)
(* While the capture thread lives, every buffer is with the driver or is   *)
(* the one the thread is busy with: no path through the loop (decimation,  *)
(* pool exhausted, normal) forgets to queue it again, which would starve   *)
(* the driver after a few frames.  In error no QBUF is accepted, but then  *)
(* the thread ends with its next DQBUF.                                    *)
(***************************************************************************)
NoBufferForgotten ==
    device = "streaming" /\ capPc # "exited" =>
        {b \in Buffers : vb[b] = "app"} = Held

\* The thread copies between memory that nobody else writes or reads: the
\* driver does not have the buffer, the processor does not have the frame.
CopyIsPrivate ==
    capPc = "copy" => vb[capBuf] = "app" /\ input.place[capFrame] = "filling"

(***************************************************************************)
(* Capturer.cpp stop(): "Drain buffers still owned by the driver before    *)
(* STREAMOFF", because STREAMOFF during a DMA transfer can crash the       *)
(* mSGDMA driver.  It does, also if the capture thread has ended before,   *)
(* as long as the queue is not in error and no select() of the drain ends  *)
(* without a buffer: no turn is spent on anything but a buffer, and there  *)
(* are as many turns as buffers not yet taken.                             *)
(***************************************************************************)
DrainedBeforeStreamoff ==
    [][device = "streaming" /\ device' = "closed" => AtDriver = {}]_capVars

\* The comment without these conditions.
NeverOffWhileOwned == [][device' = "closed" => AtDriver = {}]_capVars
=============================================================================
