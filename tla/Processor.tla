------------------------------ MODULE Processor ------------------------------
(***************************************************************************)
(* sw/vision_core/src/Processor.cpp: the thread that takes frames from the *)
(* input buffer, runs them through the active filter pipeline and pushes   *)
(* the result into the output buffer, and commit(), with which the UI      *)
(* thread hands it a new pipeline.                                         *)
(*                                                                         *)
(* The two FrameBuffers are channels (FrameChannel.tla), which FrameBuffer *)
(* implements.  Images are tags: a frame memory holds the image last       *)
(* written to it, and the capture side marks at most two images, "first"   *)
(* and later "second", so that order, loss and repetition of any two       *)
(* images can be told without counting them.                               *)
(***************************************************************************)
EXTENDS Naturals, Sequences

CONSTANTS
    InPool,        \* frames of m_inputBuffer
    OutPool,       \* frames of m_outputBuffer
    Pipelines,     \* filter sequences the user may apply
    Faulty,        \* those with a filter that throws on these images
    None,          \* the empty filter sequence
    Partial,       \* m_pending while the UI is still appending filters
    NoFrame        \* a null Frame pointer

ASSUME PipelineAssumption ==
    Faulty \subseteq Pipelines /\ None \notin Faulty /\ Partial \notin Pipelines \cup {None}
ASSUME FrameAssumption == NoFrame \notin InPool \cup OutPool

Images == {"blank", "plain", "first", "second"}

VARIABLES
    input, output,       \* m_inputBuffer, m_outputBuffer
    inImage, outImage,   \* the image in every frame memory
    running,             \* m_running
    procPc,              \* where processingThread() is
    procIn, procOut,     \* its local variables in and out
    pending, active,     \* m_pending, m_active
    dirty,               \* m_dirty
    editor               \* where the thread that edits and commits is

channelVars == <<input, output, inImage, outImage>>
threadVars  == <<running, procPc, procIn, procOut>>
editVars    == <<pending, active, dirty, editor>>
procVars    == <<channelVars, threadVars, editVars>>

In  == INSTANCE FrameChannel WITH Pool <- InPool,  chan <- input
Out == INSTANCE FrameChannel WITH Pool <- OutPool, chan <- output

ProcTypeOK ==
    /\ input \in In!Channels
    /\ output \in Out!Channels
    /\ inImage \in [InPool -> Images]
    /\ outImage \in [OutPool -> Images]
    /\ running \in BOOLEAN
    /\ procPc \in {"off", "head", "pop", "borrow", "swap", "notify", "filter",
                   "push", "return", "exited"}
    /\ procIn \in InPool \cup {NoFrame}
    /\ procOut \in OutPool \cup {NoFrame}
    /\ pending \in Pipelines \cup {None, Partial}
    /\ active \in Pipelines \cup {None, Partial}
    /\ dirty \in BOOLEAN
    /\ editor \in {"idle", "editing", "edited", "waiting", "asleep"}

ProcInit ==
    /\ input = In!NewChannel
    /\ output = Out!NewChannel
    /\ inImage = [f \in InPool |-> "blank"]
    /\ outImage = [f \in OutPool |-> "blank"]
    /\ running = FALSE
    /\ procPc = "off"
    /\ procIn = NoFrame
    /\ procOut = NoFrame
    /\ pending = None
    /\ active = None
    /\ dirty = FALSE
    /\ editor = "idle"

-----------------------------------------------------------------------------
(* start() and stop(): the caller sets m_running, closes the input buffer  *)
(* and joins the thread, which is gone when procPc = "exited".             *)

Start ==
    /\ procPc = "off"
    /\ running' = TRUE
    /\ procPc' = "head"
    /\ UNCHANGED <<channelVars, procIn, procOut, editVars>>

StopRequest ==
    /\ running
    /\ running' = FALSE
    /\ UNCHANGED <<channelVars, procPc, procIn, procOut, editVars>>

StopNotify ==
    /\ procPc # "off" /\ ~running
    /\ input' = In!Closed(input)
    /\ UNCHANGED <<output, inImage, outImage, threadVars, editVars>>

-----------------------------------------------------------------------------
(* processingThread()                                                      *)

LoopHead ==
    /\ procPc = "head"
    /\ procPc' = IF running THEN "pop" ELSE "exited"
    /\ UNCHANGED <<channelVars, running, procIn, procOut, editVars>>

PopInput ==
    /\ procPc = "pop"
    /\ In!CanPop(input)
    /\ procIn' = Head(input.queue)
    /\ input' = In!Popped(input)
    /\ procPc' = "borrow"
    /\ UNCHANGED <<output, inImage, outImage, running, procOut, editVars>>

PopThrows ==
    /\ procPc = "pop"
    /\ input.closed
    /\ procPc' = "exited"
    /\ UNCHANGED <<channelVars, running, procIn, procOut, editVars>>

BorrowOutput ==
    /\ procPc = "borrow"
    /\ \E f \in Out!At(output, "free") :
          procOut' = f /\ output' = Out!Borrowed(output, f)
    /\ procPc' = "swap"
    /\ UNCHANGED <<input, inImage, outImage, running, procIn, editVars>>

\* Pool exhausted: the input frame is given back unprocessed, and a waiting
\* commit() is not looked at.
SkipFrame ==
    /\ procPc = "borrow"
    /\ ~Out!CanBorrow(output)
    /\ input' = In!Returned(input, procIn)
    /\ procIn' = NoFrame
    /\ procPc' = "head"
    /\ UNCHANGED <<output, inImage, outImage, running, procOut, editVars>>

\* Adopt the pending pipeline, under m_mutex.
Swap ==
    /\ procPc = "swap"
    /\ IF dirty
       THEN active' = pending /\ dirty' = FALSE /\ procPc' = "notify"
       ELSE procPc' = "filter" /\ UNCHANGED <<active, dirty>>
    /\ UNCHANGED <<channelVars, running, procIn, procOut, pending, editor>>

\* Mutant of NotifySwap: it notifies a condition nobody waits for.
NotifySwapNobody ==
    /\ procPc = "notify"
    /\ procPc' = "filter"
    /\ UNCHANGED <<channelVars, running, procIn, procOut, editVars>>

\* m_swapDone.notify_one(), after the unlock.
NotifySwap ==
    /\ procPc = "notify"
    /\ editor' = IF editor = "asleep" THEN "waiting" ELSE editor
    /\ procPc' = "filter"
    /\ UNCHANGED <<channelVars, running, procIn, procOut, pending, active, dirty>>

\* Mutant of Filter: the result is written only to a frame never used before.
FilterOnlyOnce ==
    /\ procPc = "filter"
    /\ IF outImage[procOut] # "blank"
       THEN UNCHANGED outImage
       ELSE outImage' = [outImage EXCEPT ![procOut] = inImage[procIn]]
    /\ procPc' = "push"
    /\ UNCHANGED <<input, output, inImage, running, procIn, procOut, editVars>>

\* A filter that throws clears the pipeline and leaves `out` as it was.
Filter ==
    /\ procPc = "filter"
    /\ IF active \in Faulty
       THEN active' = None /\ UNCHANGED outImage
       ELSE outImage' = [outImage EXCEPT ![procOut] = inImage[procIn]] /\ UNCHANGED active
    /\ procPc' = "push"
    /\ UNCHANGED <<input, output, inImage, running, procIn, procOut, pending, dirty, editor>>

PushOutput ==
    /\ procPc = "push"
    /\ output' = Out!Pushed(output, procOut)
    /\ procOut' = NoFrame
    /\ procPc' = "return"
    /\ UNCHANGED <<input, inImage, outImage, running, procIn, editVars>>

ReturnInput ==
    /\ procPc = "return"
    /\ input' = In!Returned(input, procIn)
    /\ procIn' = NoFrame
    /\ procPc' = "head"
    /\ UNCHANGED <<output, inImage, outImage, running, procOut, editVars>>

ProcStep ==
    \/ LoopHead \/ PopInput \/ PopThrows \/ BorrowOutput \/ SkipFrame
    \/ Swap \/ NotifySwap \/ Filter \/ PushOutput \/ ReturnInput

-----------------------------------------------------------------------------
(* Editing and commit(), in the thread of the UI                           *)

\* clearAllFilters() and the appendFilter() calls, one after the other.
BeginEdit ==
    /\ editor = "idle"
    /\ pending' = Partial
    /\ editor' = "editing"
    /\ UNCHANGED <<channelVars, threadVars, active, dirty>>

EndEdit ==
    /\ editor = "editing"
    /\ \E pl \in Pipelines \cup {None} : pending' = pl
    /\ editor' = "edited"
    /\ UNCHANGED <<channelVars, threadVars, active, dirty>>

\* Mutant of Commit: before start() the pending filters are not copied.
CommitBeforeStartIgnored ==
    /\ editor = "edited"
    /\ IF running
       THEN dirty' = TRUE /\ editor' = "waiting"
       ELSE editor' = "idle" /\ UNCHANGED dirty
    /\ UNCHANGED <<channelVars, threadVars, pending, active>>

Commit ==
    /\ editor = "edited"
    /\ IF running
       THEN dirty' = TRUE /\ editor' = "waiting" /\ UNCHANGED active
       ELSE active' = pending /\ editor' = "idle" /\ UNCHANGED dirty
    /\ UNCHANGED <<channelVars, threadVars, pending>>

\* Mutant of CommitWait: commit() does not wait for the swap.
CommitWaitNot ==
    /\ editor = "waiting"
    /\ editor' = "idle"
    /\ UNCHANGED <<channelVars, threadVars, pending, active, dirty>>

\* One turn of m_swapDone.wait(), under m_mutex.  A spurious wakeup would only
\* repeat it, and is left out.
CommitWait ==
    /\ editor = "waiting"
    /\ editor' = IF dirty THEN "asleep" ELSE "idle"
    /\ UNCHANGED <<channelVars, threadVars, pending, active, dirty>>

FinishEdit == EndEdit \/ Commit \/ CommitWait
EditStep   == BeginEdit \/ FinishEdit
=============================================================================
