---------------------------- MODULE StreamerStage ----------------------------
(***************************************************************************)
(* The streamer behind a processor that pushes a frame whenever the pool   *)
(* has one, with RTSP clients that come and go.                            *)
(***************************************************************************)
EXTENDS Streamer

TypeOK == StreamerTypeOK

Init == StreamerInit

\* The processor borrows an output frame ...
Produce ==
    /\ \E f \in Out!At(output, "free") : output' = Out!Borrowed(output, f)
    /\ Out!At(output, "filling") = {}
    /\ UNCHANGED <<txVars, libVars>>

\* ... and pushes it.  Bound: with timestamps, no more frames than MaxPts.
FramesOnTheWay ==
    Len(output.queue) + (IF txPc \in {"off", "head", "pop", "exited"} THEN 0 ELSE 1)

Deliver ==
    /\ MaxPts = 0 \/ timestamp + FramesOnTheWay < MaxPts
    /\ \E f \in Out!At(output, "filling") : output' = Out!Pushed(output, f)
    /\ UNCHANGED <<txVars, libVars>>

StopStep == CloseOutput \/ QuitLoop \/ UnrefAppsrc

Next ==
    \/ TxStep
    \/ LoopStep
    \/ LibraryStep
    \/ StartStreamer \/ StopStreaming \/ StopStep
    \/ Produce \/ Deliver

Spec == Init /\ [][Next]_streamerVars

(***************************************************************************)
(* The threads and the processor run, a connected client plays what is     *)
(* queued for it in m_appsrc, and stop() goes through once it has begun.   *)
(* Clients need not come or leave, nor watch an appsrc that was replaced.  *)
(***************************************************************************)
Fairness ==
    /\ WF_streamerVars(TxStep)
    /\ WF_streamerVars(LoopStep)
    /\ WF_streamerVars(PlayOut)
    /\ WF_streamerVars(Produce)
    /\ WF_streamerVars(Deliver)
    /\ WF_streamerVars(CloseOutput)
    /\ WF_streamerVars(QuitLoop)
    /\ WF_streamerVars(UnrefAppsrc)

FairSpec == Spec /\ Fairness

-----------------------------------------------------------------------------
(***************************************************************************)
(* Every popped frame is with the tx thread or with GStreamer, and with    *)
(* one of them only; GStreamer has no frame twice.  A frame that both had  *)
(* would be given back while it is still being sent, and one that neither  *)
(* had would be lost to the pool.  It stays so when a second media takes   *)
(* the place of m_appsrc under the tx thread's hand, which then sends to   *)
(* the appsrc before, or flushes it; stop(), at least, drops no appsrc     *)
(* that the tx thread is using without the mutex.                          *)
(***************************************************************************)
PoppedFramesAccounted ==
    /\ Out!At(output, "reading") = Lent(gst) \cup oldGst \cup ({txFrame} \ {NoFrame})
    /\ txFrame \notin Lent(gst) \cup oldGst
    /\ Lent(gst) \cap oldGst = {}
    /\ \A j, k \in 1 .. Len(gst) :
          j # k /\ gst[j].frame # NoFrame => gst[j].frame # gst[k].frame
    /\ txAppsrc # "none" => appsrc

(***************************************************************************)
(* The buffers m_appsrc holds carry increasing timestamps, and the next    *)
(* one continues after them, although m_timestamp starts again from 0      *)
(* after a flush.                                                          *)
(***************************************************************************)
TimestampsIncrease ==
    /\ \A k \in 1 .. Len(gst) - 1 : gst[k].pts < gst[k + 1].pts
    /\ gst # << >> => gst[Len(gst)].pts < timestamp

(***************************************************************************)
(* Streamer.cpp: once the last client has disconnected a flush discards    *)
(* what is queued, and "zero-copy frames are returned to the pool".        *)
(***************************************************************************)
LentFramesComeBack ==
    (clientCount = 0 /\ Lent(gst) # {} /\ streaming)
        ~> (Lent(gst) = {} \/ clientCount > 0 \/ ~streaming)

(***************************************************************************)
(* With a client connected the pool does not stay empty, unless an appsrc  *)
(* that m_appsrc has been before keeps frames: nothing flushes that one.   *)
(***************************************************************************)
PoolRecovers ==
    (clientCount > 0 /\ ~Out!CanBorrow(output) /\ streaming)
        ~> (clientCount = 0 \/ Out!CanBorrow(output) \/ ~streaming \/ oldGst # {})

(***************************************************************************)
(* stop() ends both threads, whatever they were doing.  The one exception  *)
(* is a loop whose thread had not come to g_main_loop_run() yet: the quit  *)
(* is lost on it, and stop() waits for that thread for ever.               *)
(***************************************************************************)
StopReturns ==
    (txPc # "off" /\ ~streaming) ~> (txPc = "exited" /\ loop \in {"ended", "deaf"})

\* Streamer.hpp: stop() "stops both threads and joins them".
StopJoins == (txPc # "off" /\ ~streaming) ~> (txPc = "exited" /\ loop = "ended")
=============================================================================
