----------------------------- MODULE CameraDriver -----------------------------
(***************************************************************************)
(* sw/camera_driver_2/src/camera.c: the V4L2 driver.  Its code runs in     *)
(* four places: loading and unloading the module; the ioctls, one at a     *)
(* time under mlock; the callback, in the ordered workqueue of msgdma.c;   *)
(* and the watchdog's delayed work.  Every critical section of cam->lock   *)
(* is one step.                                                            *)
(*                                                                         *)
(* External: videobuf2, which keeps a buffer's state and decides when the  *)
(* driver's operations are called, and the user, who queues and dequeues   *)
(* buffers and starts and stops the stream in any order vb2 lets pass.     *)
(***************************************************************************)
EXTENDS MsgDma, FiniteSets

CONSTANT MinBuffers     \* FPGALIX_MIN_BUFFERS

ASSUME MinBuffersAssumption == MinBuffers \in Nat

VARIABLES
    \* Fields of the driver.
    streaming,      \* cam->streaming
    streamSeq,      \* cam->stream_seq
    parked,         \* cam->buf_queue
    active,         \* cam->active_list
    queued, bufSeq, \* queued and stream_seq of every buffer
    armed,          \* timeout_work is pending
    registered,     \* what FPGAlix_camera_init() has set up
    \* Where its code is.
    modulePc,            \* loading and unloading
    teardown,            \* the level FPGAlix_camera_teardown() has still to undo
    ioctlPc, ioctlBuf,   \* the ioctl that has mlock, and its local buf
    cbPc, cbWork,        \* FPGAlix_dma_work() and the callback, and its item
    watchdogPc,          \* FPGAlix_timeout_work()
    \* videobuf2.
    owner,          \* where every buffer is
    vbQueue,        \* buffers queued before the stream starts
    started,        \* start_streaming() was called and stop_streaming() not yet
    queueError,     \* vb2_queue_error()
    \* History.
    rejected        \* buffers on active_list that FPGAlix_dma_submit() refused

listVars  == <<parked, active, queued, bufSeq, rejected>>
camVars   == <<streaming, streamSeq, listVars>>
timerVars == <<armed, watchdogPc>>
modVars   == <<registered, modulePc, teardown>>
ioctlVars == <<ioctlPc, ioctlBuf>>
cbVars    == <<cbPc, cbWork>>
vbVars    == <<owner, vbQueue, started, queueError>>
vars      == <<dmaVars, camVars, timerVars, modVars, ioctlVars, cbVars, vbVars>>

\* LEVEL_DMA .. LEVEL_FULL, in the order of FPGAlix_camera_init()
Parts == <<"dma", "sensor", "v4l2", "vb2", "device">>

NoWork == [buf |-> NoBuffer, seq |-> 0, ok |-> FALSE]

TypeOK ==
    /\ DmaTypeOK
    /\ streaming \in BOOLEAN
    /\ streamSeq \in Sessions
    /\ parked \in Seq(Buffers)
    /\ active \in Seq(Buffers)
    /\ queued \in [Buffers -> BOOLEAN]
    /\ bufSeq \in [Buffers -> Sessions]
    /\ armed \in BOOLEAN
    /\ registered \subseteq {Parts[k] : k \in 1 .. Len(Parts)}
    /\ modulePc \in {"out", "init", "in", "teardown"}
    /\ teardown \in 0 .. Len(Parts)
    /\ ioctlPc \in {"idle", "qbuf submit", "start", "start loop", "start submit",
                    "stop", "stop wait", "stop flag", "release", "terminate", "destroy",
                    "return", "cancel"}
    /\ ioctlBuf \in Buffers \cup {NoBuffer}
    /\ cbPc \in {"idle", "check", "arm", "resubmit", "take", "done"}
    /\ cbWork \in Completions \cup {NoWork}
    /\ watchdogPc \in {"idle", "check", "error"}
    /\ owner \in [Buffers -> {"user", "queued", "driver", "done", "failed"}]
    /\ vbQueue \in Seq(Buffers)
    /\ started \in BOOLEAN
    /\ queueError \in BOOLEAN
    /\ rejected \subseteq Buffers

Init ==
    /\ DmaInit
    /\ streaming = FALSE
    /\ streamSeq = 0
    /\ parked = << >>
    /\ active = << >>
    /\ queued = [b \in Buffers |-> FALSE]
    /\ bufSeq = [b \in Buffers |-> 0]
    /\ armed = FALSE
    /\ registered = {}
    /\ modulePc = "out"
    /\ teardown = 0
    /\ ioctlPc = "idle"
    /\ ioctlBuf = NoBuffer
    /\ cbPc = "idle"
    /\ cbWork = NoWork
    /\ watchdogPc = "idle"
    /\ owner = [b \in Buffers |-> "user"]
    /\ vbQueue = << >>
    /\ started = FALSE
    /\ queueError = FALSE
    /\ rejected = {}

Elements(s)    == {s[k] : k \in 1 .. Len(s)}

\* list_del_init() of a buffer that is on the list.
Without(s, b) ==
    LET at == CHOOSE k \in 1 .. Len(s) : s[k] = b
    IN  [k \in 1 .. Len(s) - 1 |-> IF k < at THEN s[k] ELSE s[k + 1]]

Hand(bufs, to) == owner' = [b \in Buffers |-> IF b \in bufs THEN to ELSE owner[b]]
Ioctl(from, to) == ioctlPc = from /\ ioctlPc' = to

\* FPGAlix_dma_submit() by a caller that does not look at the result.
SubmitOrNot(b) ==
    \/ Submit(b, bufSeq[b]) /\ UNCHANGED rejected
    \/ SubmitFails /\ rejected' = rejected \cup {b}

-----------------------------------------------------------------------------
(* insmod and rmmod                                                        *)

\* kzalloc() starts from nothing.  A timeout of the last module that outlived
\* it (see WatchdogCancelled) would run on freed memory, and is not followed.
Insmod ==
    /\ modulePc = "out"
    /\ modulePc' = "init"
    /\ streamSeq' = 0
    /\ bufSeq' = [b \in Buffers |-> 0]
    /\ armed' = FALSE
    /\ watchdogPc' = "idle"
    /\ stopping' = FALSE
    /\ UNCHANGED <<chan, dispatching, engine, workqueue, image, streaming, parked, active, queued,
                   rejected, registered, teardown, ioctlVars, cbVars, vbVars>>

Setup == Cardinality(registered) + 1     \* the part that is set up next

Register ==
    /\ modulePc = "init" /\ registered' = registered \cup {Parts[Setup]}
    /\ IF Parts[Setup] = "dma" THEN Acquire ELSE UNCHANGED dmaVars
    /\ modulePc' = IF Parts[Setup] = "device" THEN "in" ELSE "init"
    /\ UNCHANGED <<camVars, timerVars, teardown, ioctlVars, cbVars, vbVars>>

\* One part fails: those before it are torn down.  The sensor's part is empty.
RegisterFails ==
    /\ modulePc = "init"
    /\ Parts[Setup] # "sensor"
    /\ SubmitFails
    /\ modulePc' = "teardown"
    /\ teardown' = Setup - 1
    /\ UNCHANGED <<camVars, timerVars, registered, ioctlVars, cbVars, vbVars>>

\* The module can go when no file is open: the last close() has ended the
\* stream and freed the buffers.
Rmmod ==
    /\ modulePc = "in"
    /\ ioctlPc = "idle" /\ ~started /\ \A b \in Buffers : owner[b] = "user"
    /\ modulePc' = "teardown"
    /\ teardown' = Len(Parts)
    /\ UNCHANGED <<dmaVars, camVars, timerVars, registered, ioctlVars, cbVars, vbVars>>

\* FPGAlix_camera_teardown(): from the level down, then kfree().
Teardown ==
    /\ modulePc = "teardown"
    /\ IF teardown = 0
       THEN /\ modulePc' = "out"
            /\ UNCHANGED <<dmaVars, registered, teardown>>
       ELSE /\ registered' = registered \ {Parts[teardown]}
            /\ IF Parts[teardown] = "dma" THEN ReleaseIdle ELSE UNCHANGED dmaVars
            /\ teardown' = teardown - 1
            /\ UNCHANGED modulePc
    /\ UNCHANGED <<camVars, timerVars, ioctlVars, cbVars, vbVars>>

ModuleStep == Insmod \/ Register \/ RegisterFails \/ Rmmod \/ Teardown

-----------------------------------------------------------------------------
(* QBUF and DQBUF                                                          *)

\* Before the stream starts, vb2 keeps the buffer.
QueueEarly(b) ==
    /\ ioctlPc = "idle" /\ ~started /\ owner[b] = "user"
    /\ Hand({b}, "queued")
    /\ vbQueue' = Append(vbQueue, b)
    /\ UNCHANGED <<dmaVars, camVars, timerVars, ioctlVars, cbVars, started, queueError>>

\* FPGAlix_buf_queue() while streaming: onto active_list under the lock ...
QueueActive(b) ==
    /\ Ioctl("idle", "qbuf submit")
    /\ started /\ ~queueError /\ streaming /\ owner[b] = "user"
    /\ Hand({b}, "driver")
    /\ active' = Append(active, b)
    /\ queued' = [queued EXCEPT ![b] = TRUE]
    /\ bufSeq' = [bufSeq EXCEPT ![b] = streamSeq]
    /\ ioctlBuf' = b
    /\ UNCHANGED <<dmaVars, streaming, streamSeq, parked, rejected, timerVars, cbVars,
                   vbQueue, started, queueError>>

\* ... then to the DMA, after it.
QueueSubmit ==
    /\ Ioctl("qbuf submit", "idle")
    /\ SubmitOrNot(ioctlBuf)
    /\ ioctlBuf' = NoBuffer
    /\ UNCHANGED <<streaming, streamSeq, parked, active, queued, bufSeq, timerVars, cbVars, vbVars>>

Dequeue(b) ==
    /\ ioctlPc = "idle" /\ started /\ ~queueError
    /\ owner[b] \in {"done", "failed"}
    /\ Hand({b}, "user")
    /\ UNCHANGED <<dmaVars, camVars, timerVars, ioctlVars, cbVars,
                   vbQueue, started, queueError>>

-----------------------------------------------------------------------------
(* STREAMON                                                                *)

\* vb2 passes its buffers to FPGAlix_buf_queue(), which parks them because the
\* stream has not started, and calls FPGAlix_start_streaming().
StreamOn ==
    /\ Ioctl("idle", "start")
    /\ ~started /\ streamSeq < MaxSessions
    /\ Len(vbQueue) >= MinBuffers
    /\ parked' = parked \o vbQueue
    /\ Hand(Elements(vbQueue), "driver")
    /\ queued' = [b \in Buffers |-> queued[b] \/ b \in Elements(vbQueue)]
    /\ bufSeq' = [b \in Buffers |-> IF b \in Elements(vbQueue) THEN streamSeq ELSE bufSeq[b]]
    /\ vbQueue' = << >>
    /\ started' = TRUE
    /\ UNCHANGED <<dmaVars, streaming, streamSeq, active, rejected, timerVars, ioctlBuf, cbVars, queueError>>

Reacquire ==
    /\ Ioctl("start", "start")
    /\ ~chan
    /\ Acquire
    /\ UNCHANGED <<camVars, timerVars, ioctlBuf, cbVars, vbVars>>

\* FPGAlix_dma_init() fails: every buffer goes back, the stream is not started.
ReacquireFails ==
    /\ Ioctl("start", "idle")
    /\ ~chan
    /\ SubmitFails
    /\ parked' = << >>
    /\ queued' = [b \in Buffers |-> queued[b] /\ b \notin Elements(parked)]
    /\ Hand(Elements(parked), "failed")
    /\ started' = FALSE
    /\ UNCHANGED <<streaming, streamSeq, active, bufSeq, rejected, timerVars, ioctlBuf, cbVars,
                   vbQueue, queueError>>

\* schedule_delayed_work() leaves a timeout that is already pending alone.
BeginStreaming ==
    /\ Ioctl("start", "start loop")
    /\ chan
    /\ streaming' = TRUE
    /\ streamSeq' = streamSeq + 1
    /\ armed' = TRUE
    /\ UNCHANGED <<dmaVars, listVars, watchdogPc, ioctlBuf, cbVars, vbVars>>

StartMove ==
    /\ Ioctl("start loop", "start submit")
    /\ parked # << >>
    /\ ioctlBuf' = Head(parked)
    /\ bufSeq' = [bufSeq EXCEPT ![Head(parked)] = streamSeq]
    /\ parked' = Tail(parked)
    /\ active' = Append(active, Head(parked))
    /\ UNCHANGED <<dmaVars, streaming, streamSeq, queued, rejected, timerVars, cbVars, vbVars>>

StartSubmit ==
    /\ Ioctl("start submit", "start loop")
    /\ Submit(ioctlBuf, bufSeq[ioctlBuf])
    /\ ioctlBuf' = NoBuffer
    /\ UNCHANGED <<camVars, timerVars, cbVars, vbVars>>

StartSubmitFails ==
    /\ Ioctl("start submit", "start loop")
    /\ SubmitFails
    /\ active' = Without(active, ioctlBuf)
    /\ queued' = [queued EXCEPT ![ioctlBuf] = FALSE]
    /\ Hand({ioctlBuf}, "failed")
    /\ ioctlBuf' = NoBuffer
    /\ UNCHANGED <<streaming, streamSeq, parked, bufSeq, rejected, timerVars, cbVars,
                   vbQueue, started, queueError>>

Started ==
    /\ Ioctl("start loop", "idle")
    /\ parked = << >>
    /\ UNCHANGED <<dmaVars, camVars, timerVars, ioctlBuf, cbVars, vbVars>>
-----------------------------------------------------------------------------
(* STREAMOFF, or the last close(): FPGAlix_stop_streaming() and then vb2,  *)
(* which takes every buffer back.                                          *)

StreamOff ==
    /\ Ioctl("idle", IF started THEN "stop" ELSE "cancel")
    /\ UNCHANGED <<dmaVars, camVars, timerVars, ioctlBuf, cbVars, vbVars>>

\* cancel_delayed_work_sync() takes a pending timeout back, lets no one arm
\* it meanwhile, and waits for a timeout_work that runs.
CancelWatchdog ==
    /\ \/ Ioctl("stop", "stop wait") /\ armed' = FALSE
       \/ Ioctl("stop wait", "stop flag") /\ watchdogPc = "idle" /\ UNCHANGED armed
    /\ UNCHANGED <<dmaVars, camVars, watchdogPc, ioctlBuf, cbVars, vbVars>>

ClearStreaming ==
    /\ Ioctl("stop flag", "release")
    /\ streaming' = FALSE
    /\ UNCHANGED <<dmaVars, streamSeq, listVars, timerVars, ioctlBuf, cbVars, vbVars>>

\* Mutant of ReleaseDma: the callback that runs is not waited for.
ReleaseDmaEarly ==
    /\ \/ Ioctl("release", "terminate") /\ MarkStopping
       \/ Ioctl("terminate", "destroy") /\ Terminate
       \/ Ioctl("destroy", "return")    /\ ReleaseChannel
    /\ UNCHANGED <<camVars, timerVars, ioctlBuf, cbVars, vbVars>>

\* FPGAlix_dma_release(): the dispatcher is stopped, the work items still in
\* the queue are waited for, and the channel goes.
ReleaseDma ==
    /\ \/ Ioctl("release", "terminate") /\ MarkStopping
       \/ Ioctl("terminate", "destroy") /\ Terminate
       \/ Ioctl("destroy", "return")    /\ cbPc = "idle" /\ ReleaseChannel
    /\ UNCHANGED <<camVars, timerVars, ioctlBuf, cbVars, vbVars>>

ReturnBuffers ==
    /\ Ioctl("return", "cancel")
    /\ parked' = << >>
    /\ active' = << >>
    /\ queued' = [b \in Buffers |-> queued[b] /\ b \notin Elements(parked \o active)]
    /\ rejected' = {}
    /\ Hand(Elements(parked \o active), "failed")
    /\ UNCHANGED <<dmaVars, streaming, streamSeq, bufSeq, timerVars, ioctlBuf, cbVars,
                   vbQueue, started, queueError>>

\* __vb2_queue_cancel()
CancelQueue ==
    /\ Ioctl("cancel", "idle")
    /\ Hand(Buffers, "user")
    /\ vbQueue' = << >>
    /\ started' = FALSE
    /\ queueError' = FALSE
    /\ UNCHANGED <<dmaVars, camVars, timerVars, ioctlBuf, cbVars>>

-----------------------------------------------------------------------------
(* FPGAlix_dma_work() and FPGAlix_dma_callback()                           *)

\* The work item is dropped if its buffer is not queued for this session or
\* the channel is being released.
Stale(w) == ~queued[w.buf] \/ bufSeq[w.buf] # w.seq \/ stopping

Work ==
    /\ cbPc = "idle"
    /\ workqueue # << >>
    /\ TakeWork
    /\ IF Stale(Head(workqueue))
       THEN UNCHANGED cbVars
       ELSE cbPc' = "check" /\ cbWork' = Head(workqueue)
    /\ UNCHANGED <<camVars, timerVars, ioctlVars, vbVars>>

CallbackEnds == cbPc' = "idle" /\ cbWork' = NoWork

\* Look at cam->streaming under the lock, and let go of the lock.
CheckStreaming ==
    /\ cbPc = "check"
    /\ IF streaming
       THEN cbPc' = "arm" /\ UNCHANGED cbWork
       ELSE CallbackEnds
    /\ UNCHANGED <<dmaVars, camVars, timerVars, ioctlVars, vbVars>>

\* mod_delayed_work(), without effect while the timeout is being cancelled.
ResetWatchdog ==
    /\ cbPc = "arm"
    /\ armed' = (armed \/ ioctlPc # "stop wait")
    /\ cbPc' = IF cbWork.ok THEN "take" ELSE "resubmit"
    /\ UNCHANGED <<dmaVars, camVars, watchdogPc, ioctlVars, cbWork, vbVars>>

\* Mutant of Resubmit: a short frame is only discarded.
ResubmitNot ==
    /\ cbPc = "resubmit"
    /\ CallbackEnds
    /\ UNCHANGED <<dmaVars, camVars, timerVars, ioctlVars, vbVars>>

\* A short frame: the buffer stays on active_list and goes to the DMA again.
Resubmit ==
    /\ cbPc = "resubmit"
    /\ SubmitOrNot(cbWork.buf)
    /\ CallbackEnds
    /\ UNCHANGED <<streaming, streamSeq, parked, active, queued, bufSeq, timerVars, ioctlVars, vbVars>>

\* Mutant of TakeFrame: list_del_init() is missing.
TakeFrameListed ==
    /\ cbPc = "take"
    /\ queued' = [queued EXCEPT ![cbWork.buf] = FALSE]
    /\ cbPc' = "done"
    /\ UNCHANGED <<dmaVars, streaming, streamSeq, parked, active, bufSeq, rejected, timerVars,
                   ioctlVars, cbWork, vbVars>>

TakeFrame ==
    /\ cbPc = "take"
    /\ IF queued[cbWork.buf]
       THEN /\ active' = Without(active, cbWork.buf)
            /\ queued' = [queued EXCEPT ![cbWork.buf] = FALSE]
            /\ cbPc' = "done"
            /\ UNCHANGED cbWork
       ELSE CallbackEnds /\ UNCHANGED <<active, queued>>
    /\ UNCHANGED <<dmaVars, streaming, streamSeq, parked, bufSeq, rejected, timerVars, ioctlVars, vbVars>>

\* vb2_buffer_done()
FrameDone ==
    /\ cbPc = "done"
    /\ Hand({cbWork.buf}, "done")
    /\ CallbackEnds
    /\ UNCHANGED <<dmaVars, camVars, timerVars, ioctlVars, vbQueue, started, queueError>>

WorkStep == Work \/ CheckStreaming \/ ResetWatchdog \/ Resubmit \/ TakeFrame \/ FrameDone

-----------------------------------------------------------------------------
(* The watchdog, and the hardware                                          *)

Timeout ==
    /\ armed /\ watchdogPc = "idle"
    /\ armed' = FALSE
    /\ watchdogPc' = "check"
    /\ UNCHANGED <<dmaVars, camVars, ioctlVars, cbVars, vbVars>>

\* Mutant of CheckTimeout: it waits for a buffer while the stream is on.
CheckTimeoutPolls ==
    /\ watchdogPc = "check"
    /\ watchdogPc' = CASE streaming /\ active # << >> -> "error"
                       [] streaming /\ active = << >> -> "check"
                       [] ~streaming                  -> "idle"
    /\ UNCHANGED <<dmaVars, camVars, armed, ioctlVars, cbVars, vbVars>>

CheckTimeout ==
    /\ watchdogPc = "check"
    /\ watchdogPc' = IF streaming /\ active # << >> THEN "error" ELSE "idle"
    /\ UNCHANGED <<dmaVars, camVars, armed, ioctlVars, cbVars, vbVars>>

\* Mutant of ReportTimeout: it only logs.
ReportTimeoutLogs ==
    /\ watchdogPc = "error"
    /\ watchdogPc' = "idle"
    /\ UNCHANGED <<dmaVars, camVars, armed, ioctlVars, cbVars, vbVars>>

ReportTimeout ==
    /\ watchdogPc = "error"
    /\ queueError' = TRUE
    /\ watchdogPc' = "idle"
    /\ UNCHANGED <<dmaVars, camVars, armed, ioctlVars, cbVars, owner, vbQueue, started>>

WatchdogStep == CheckTimeout \/ ReportTimeout

Hardware ==
    /\ \E got \in {"full", "short"} : Transfer(got)
    /\ UNCHANGED <<camVars, timerVars, ioctlVars, cbVars, vbVars>>

-----------------------------------------------------------------------------
UserStep ==
    \/ \E b \in Buffers : QueueEarly(b) \/ QueueActive(b) \/ Dequeue(b)
    \/ StreamOn
    \/ StreamOff

\* An ioctl that has begun goes on.
IoctlStep ==
    \/ QueueSubmit
    \/ Reacquire \/ ReacquireFails \/ BeginStreaming
    \/ StartMove \/ StartSubmit \/ StartSubmitFails \/ Started
    \/ CancelWatchdog \/ ClearStreaming \/ ReleaseDma \/ ReturnBuffers \/ CancelQueue

\* While the module is in.
Loaded(step) == modulePc = "in" /\ step /\ UNCHANGED modVars

Next ==
    \/ ModuleStep
    \/ Loaded(UserStep)
    \/ Loaded(IoctlStep)
    \/ Loaded(WorkStep)
    \/ Loaded(WatchdogStep)
    \/ Loaded(Timeout)
    \/ Loaded(Hardware)

Spec == Init /\ [][Next]_vars

(***************************************************************************)
(* The kernel runs what it has begun.  The hardware owes nothing: the      *)
(* camera may be held in reset.  The timer, in TimedSpec, does expire.     *)
(***************************************************************************)
FairSpec ==
    /\ Spec
    /\ WF_vars(Loaded(IoctlStep))
    /\ WF_vars(Loaded(WorkStep))
    /\ WF_vars(Loaded(WatchdogStep))

TimedSpec == FairSpec /\ WF_vars(Loaded(Timeout))

-----------------------------------------------------------------------------
Lists     == Elements(parked) \cup Elements(active)
CbHolds   == IF cbPc = "done" THEN {cbWork.buf} ELSE {}
Bufs(s)   == {s[k].buf : k \in 1 .. Len(s)}
InFlight  == Bufs(engine)
Completed == Bufs(workqueue)
InWork    == IF cbPc \in {"check", "arm", "resubmit", "take"} THEN {cbWork.buf} ELSE {}

(***************************************************************************)
(* A buffer the driver owns is on one of its two lists, or is the one the  *)
(* callback is about to report, and on one of them only once: no buffer is *)
(* reported to vb2 twice, and none is forgotten, whichever way an ioctl    *)
(* and the callback interleave.                                            *)
(***************************************************************************)
DriverBuffersAccounted ==
    /\ {b \in Buffers : owner[b] = "driver"} = Lists \cup CbHolds
    /\ Lists \cap CbHolds = {}
    /\ Cardinality(Lists) = Len(parked) + Len(active)

(***************************************************************************)
(* The DMA writes only to buffers that wait on active_list, and has a      *)
(* buffer at most once, also when a short frame is submitted again while   *)
(* the stream is being stopped.                                            *)
(***************************************************************************)
DmaWritesActiveOnly ==
    /\ InFlight \subseteq Elements(active)
    /\ Cardinality(InFlight) = Len(engine)
    /\ InFlight \cap Completed = {}

(***************************************************************************)
(* After FPGAlix_stop_streaming() the driver keeps no buffer, no           *)
(* descriptor and no work item: vb2 frees the memory next.  After the      *)
(* module has gone, or failed to load at any step, nothing it set up is    *)
(* left, whether or not the last stream had released the channel.          *)
(***************************************************************************)
StopLeavesNothing ==
    /\ ioctlPc = "cancel" =>
        /\ \A b \in Buffers : owner[b] # "driver"
        /\ engine = << >> /\ workqueue = << >> /\ cbPc = "idle"
    /\ modulePc = "out" => registered = {} /\ ~chan

(***************************************************************************)
(* camera.c, FPGAlix_stop_streaming(): "1. Cancel watchdog."  With the     *)
(* stream off no timeout is pending: rmmod may free the structure its work *)
(* item lies in.                                                           *)
(***************************************************************************)
WatchdogCancelled == ioctlPc = "idle" /\ ~started => ~armed /\ watchdogPc = "idle"

(***************************************************************************)
(* camera.c: a short frame is submitted again and its buffer "remains on   *)
(* active_list throughout", QBUF submits directly "to keep the FIFO full": *)
(* a buffer on active_list has a transfer or a completion under way,       *)
(* unless the DMA refused it and nobody looked at that.                    *)
(***************************************************************************)
ActiveIsUnderWay ==
    streaming => Elements(active) \subseteq InFlight \cup Completed \cup InWork
                                     \cup {ioctlBuf} \cup rejected

(***************************************************************************)
(* README.md: "short frames are logged and discarded, not passed to        *)
(* userspace".                                                             *)
(***************************************************************************)
ShortFramesDiscarded == \A b \in Buffers : owner[b] = "done" => image[b] = "full"

(***************************************************************************)
(* camera.c: the watchdog "unblocks any userspace thread stuck on DQBUF":  *)
(* with buffers at the DMA and none to dequeue, either one is completed or *)
(* the queue is put in error.                                              *)
(***************************************************************************)
SomeDone   == \E b \in Buffers : owner[b] \in {"done", "failed"}
StuckDqbuf == ioctlPc = "idle" /\ streaming /\ active # << >> /\ ~SomeDone /\ ~queueError

DqbufUnblocked == StuckDqbuf ~> ~StuckDqbuf

(***************************************************************************)
(* That much of it is true: if the timeout is pending when the frames stop *)
(* coming, because the camera is held in reset or because the DMA refused  *)
(* every buffer, userspace is not left in DQBUF.  Only if no more frames   *)
(* come: one that is short postpones the timeout, which the model's timer, *)
(* being fair and no more, does not tell from letting it expire.           *)
(***************************************************************************)
WatchdogUnblocks ==
    WF_vars(Loaded(Timeout)) /\ <>[][~Hardware]_vars
        => (armed /\ StuckDqbuf ~> ~StuckDqbuf)

\* STREAMOFF returns, whatever the callback and the watchdog were doing.
StreamOffReturns == ioctlPc = "stop" ~> ioctlPc = "idle"
=============================================================================
