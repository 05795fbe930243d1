--------------------------- MODULE ProcessorStage ---------------------------
(***************************************************************************)
(* The processor between a capture side that keeps feeding it and a tx     *)
(* side that keeps draining it, reduced to what they do to the buffers.    *)
(***************************************************************************)
EXTENDS Processor

TypeOK == ProcTypeOK

Init == ProcInit

\* The capture thread borrows and fills an input frame ...
Fill ==
    /\ In!At(input, "filling") = {}
    /\ \E f \in In!At(input, "free") :
          /\ input' = In!Borrowed(input, f)
          /\ inImage' = [inImage EXCEPT ![f] = "plain"]
    /\ UNCHANGED <<output, outImage, threadVars, editVars>>

\* ... and pushes it.
Feed ==
    /\ \E f \in In!At(input, "filling") : input' = In!Pushed(input, f)
    /\ UNCHANGED <<output, inImage, outImage, threadVars, editVars>>

\* The tx thread pops an output frame ...
Drain ==
    /\ Out!CanPop(output)
    /\ output' = Out!Popped(output)
    /\ UNCHANGED <<input, inImage, outImage, threadVars, editVars>>

\* ... and it or GStreamer gives it back, in any order and several at once.
Release(frames) ==
    /\ frames # {} /\ frames \subseteq Out!At(output, "reading")
    /\ output' = [output EXCEPT !.place =
                     [f \in OutPool |-> IF f \in frames THEN "free" ELSE @[f]]]
    /\ UNCHANGED <<input, inImage, outImage, threadVars, editVars>>

\* Pipelines are edited before start() and by the UI thread, which has been
\* joined when stop() is called.
Ui      == (procPc = "off" \/ running) /\ EditStep
MayStop == editor = "idle"

Next ==
    \/ ProcStep
    \/ Ui
    \/ MayStop /\ (Start \/ StopRequest \/ StopNotify)
    \/ Fill \/ Feed
    \/ Drain
    \/ \E frames \in SUBSET OutPool : Release(frames)

Spec == Init /\ [][Next]_procVars

(***************************************************************************)
(* The threads run; until stop() the camera goes on delivering images; the *)
(* tx side takes what is queued and every frame it took comes back.  An    *)
(* edit that was begun is finished and a stop() that was begun goes on,    *)
(* but nobody has to begin one.                                            *)
(***************************************************************************)
Fairness ==
    /\ WF_procVars(ProcStep)
    /\ WF_procVars(Ui /\ FinishEdit)
    /\ WF_procVars(MayStop /\ StopNotify)
    /\ WF_procVars(running /\ Fill)
    /\ WF_procVars(running /\ Feed)
    /\ WF_procVars(Drain)
    /\ \A f \in OutPool : WF_procVars(Release({f}))

FairSpec == Spec /\ Fairness

-----------------------------------------------------------------------------
(***************************************************************************)
(* The processing thread never runs a pipeline the UI is still building,   *)
(* although m_pending is edited without the mutex: SimpleUI.hpp promises   *)
(* to "replace the pipeline atomically".                                   *)
(***************************************************************************)
PipelineNeverTorn == active # Partial

(***************************************************************************)
(* Once commit() has returned, the committed pipeline is the one in force  *)
(* (or a filter of it has thrown and the pipeline was cleared), and no     *)
(* swap is outstanding that could pick up the next edit half done.         *)
(***************************************************************************)
CommittedIsActive ==
    editor = "idle" => /\ ~dirty
                       /\ active = pending \/ (pending \in Faulty /\ active = None)

\* The frames the thread holds are its own: what it reads is not refilled by
\* the capture side, what it writes is not being streamed.
HeldFramesAreOwn ==
    /\ procIn  # NoFrame => input.place[procIn] = "reading"
    /\ procOut # NoFrame => output.place[procOut] = "filling"
    /\ procIn = NoFrame  => In!At(input, "reading") = {}
    /\ procOut = NoFrame => Out!At(output, "filling") = {}

\* A commit() made while the processor runs returns, as long as frames keep
\* coming and the output frames come back.
CommitReturns == editor = "waiting" ~> editor = "idle"

\* stop() gets its join(): the thread leaves its loop, also when no image comes
\* any more.
StopEndsThread == (procPc # "off" /\ ~running) ~> procPc = "exited"
=============================================================================
