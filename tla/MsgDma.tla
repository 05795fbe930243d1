-------------------------------- MODULE MsgDma --------------------------------
(***************************************************************************)
(* sw/camera_driver_2/src/msgdma.c: transfers submitted to the mSGDMA, the *)
(* work items that report their completion, and the release of the channel *)
(* at the end of every streaming session.                                  *)
(*                                                                         *)
(* External: the dmaengine, a queue of descriptors that the dispatcher     *)
(* completes in order, and the ordered workqueue, which runs one item at a *)
(* time.  chan_seq is left out: nobody calls FPGAlix_dma_stop(), the only  *)
(* place that bumps it, so the comparison in FPGAlix_dma_work() is 0 # 0.  *)
(* So is inflight, which only FPGAlix_dma_wait_idle() reads, uncalled too. *)
(***************************************************************************)
EXTENDS Naturals, Sequences

CONSTANTS
    Buffers,        \* the vb2 buffers
    NoBuffer,       \* a null buffer pointer
    MaxSessions,    \* bound on stream_seq
    IgnoreResidue,  \* the module parameter ignore_residue
    SubmitMayFail   \* FPGAlix_dma_submit() and FPGAlix_dma_init() may fail

ASSUME DmaAssumption ==
    /\ NoBuffer \notin Buffers
    /\ MaxSessions \in Nat
    /\ IgnoreResidue \in BOOLEAN /\ SubmitMayFail \in BOOLEAN

VARIABLES
    chan,           \* dma->chan (and dma->wq) is set
    dispatching,    \* the dispatcher of the mSGDMA runs
    stopping,       \* dma->stopping
    engine,         \* submitted descriptors, oldest first
    workqueue,      \* completions not yet looked at, oldest first
    image           \* what the DMA has written to every buffer

dmaVars == <<chan, dispatching, stopping, engine, workqueue, image>>

Sessions    == 0 .. MaxSessions
Descriptors == [buf : Buffers, seq : Sessions]
Completions == [buf : Buffers, seq : Sessions, ok : BOOLEAN]

DmaTypeOK ==
    /\ chan \in BOOLEAN
    /\ dispatching \in BOOLEAN
    /\ stopping \in BOOLEAN
    /\ engine \in Seq(Descriptors)
    /\ workqueue \in Seq(Completions)
    /\ image \in [Buffers -> {"none", "full", "short"}]

\* As kzalloc() leaves it.
DmaInit ==
    /\ chan = FALSE
    /\ dispatching = FALSE
    /\ stopping = FALSE
    /\ engine = << >>
    /\ workqueue = << >>
    /\ image = [b \in Buffers |-> "none"]

\* FPGAlix_dma_init(): the channel is reset by alloc_chan_resources().
Acquire ==
    /\ chan' = TRUE
    /\ dispatching' = TRUE
    /\ stopping' = FALSE
    /\ UNCHANGED <<engine, workqueue, image>>

\* FPGAlix_dma_submit()
Submit(buf, seq) ==
    /\ engine' = Append(engine, [buf |-> buf, seq |-> seq])
    /\ UNCHANGED <<chan, dispatching, stopping, workqueue, image>>

SubmitFails == SubmitMayFail /\ UNCHANGED dmaVars

\* Mutant of Transfer: the residue is not looked at.
TransferUnchecked(got) ==
    /\ dispatching
    /\ engine # << >>
    /\ image' = [image EXCEPT ![Head(engine).buf] = got]
    /\ workqueue' = Append(workqueue, [buf |-> Head(engine).buf,
                                       seq |-> Head(engine).seq,
                                       ok  |-> TRUE])
    /\ engine' = Tail(engine)
    /\ UNCHANGED <<chan, dispatching, stopping>>

\* The dispatcher finishes the oldest descriptor, with all bytes or with an
\* early end of packet, and FPGAlix_dma_result_cb() queues the work item.
Transfer(got) ==
    /\ dispatching
    /\ engine # << >>
    /\ image' = [image EXCEPT ![Head(engine).buf] = got]
    /\ workqueue' = Append(workqueue, [buf |-> Head(engine).buf,
                                       seq |-> Head(engine).seq,
                                       ok  |-> got = "full" \/ IgnoreResidue])
    /\ engine' = Tail(engine)
    /\ UNCHANGED <<chan, dispatching, stopping>>

\* FPGAlix_dma_work() takes the next item off the queue.
TakeWork ==
    /\ workqueue' = Tail(workqueue)
    /\ UNCHANGED <<chan, dispatching, stopping, engine, image>>

\* FPGAlix_dma_release(), step by step.
MarkStopping ==
    /\ stopping' = TRUE
    /\ UNCHANGED <<chan, dispatching, engine, workqueue, image>>

\* dmaengine_terminate_sync(): no descriptor is left, the dispatcher stands.
Terminate ==
    /\ engine' = << >>
    /\ dispatching' = FALSE
    /\ UNCHANGED <<chan, stopping, workqueue, image>>

\* FPGAlix_dma_release() when the module goes and no stream is on.
ReleaseIdle ==
    /\ chan' = FALSE
    /\ dispatching' = FALSE
    /\ stopping' = (stopping \/ chan)
    /\ UNCHANGED <<engine, workqueue, image>>

\* Mutant of ReleaseChannel: late descriptors stay with the dispatcher.
ReleaseChannelOnly ==
    /\ workqueue = << >>
    /\ chan' = FALSE
    /\ UNCHANGED <<dispatching, stopping, engine, workqueue, image>>

\* destroy_workqueue() has waited for the work items; dma_release_channel()
\* frees whatever was submitted meanwhile.
ReleaseChannel ==
    /\ workqueue = << >>
    /\ engine' = << >>
    /\ chan' = FALSE
    /\ UNCHANGED <<dispatching, stopping, workqueue, image>>
=============================================================================
