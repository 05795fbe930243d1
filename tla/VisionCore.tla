----------------------------- MODULE VisionCore -----------------------------
(***************************************************************************)
(* sw/vision_core/Main.cpp: the capture thread, the processor, the tx      *)
(* thread and the UI over the two frame buffers, started by the main       *)
(* thread, which then sleeps in pause() until a signal and stops them one  *)
(* after the other.                                                        *)
(*                                                                         *)
(* Every action is an action of one component, or of the main thread, that *)
(* leaves the variables of the other components alone.                     *)
(***************************************************************************)
EXTENDS Capturer

CONSTANTS
    OutPool,
    Pipelines, Faulty, None, Partial,
    Encodings, MaxClients, MaxQueued, MaxPts,
    Marking,     \* the camera marks two images, or all are "plain"
    User         \* what the user may do: "type" filter sequences, "signal"

ASSUME EnvironmentAssumption ==
    Marking \in BOOLEAN /\ User \subseteq {"type", "signal"} /\ MaxClients \in Nat
ASSUME PipelineAssumption ==
    Faulty \subseteq Pipelines /\ None \notin Faulty /\ Partial \notin Pipelines \cup {None}
ASSUME NoneAssumption == NoFrame \notin OutPool

VARIABLES
    output, outImage,
    \* Processor and SimpleUI
    running, procPc, procIn, procOut, pending, active, dirty, editor,
    uiStop, uiPc,
    \* Streamer
    encoding, streaming, txPc, txFrame, txAppsrc, prevHadClients, timestamp,
    appsrc, loop, clientCount, gst, oldGst,
    \* Main
    gStop,       \* g_stop
    mainPc,      \* where main() is
    \* History
    tagged,      \* the images the camera has marked so far
    streamed     \* the marked images handed to GStreamer so far

UI  == INSTANCE SimpleUI
Tx  == INSTANCE Streamer

capOwn  == <<device, vb, done, vbImage, capturing, capPc, capBuf, capFrame, skipCount, drained>>
procOwn == <<running, procPc, procIn, procOut, pending, active, dirty, editor>>
uiOwn   == <<uiStop, uiPc>>
txOwn   == <<encoding, streaming, txPc, txFrame, txAppsrc, prevHadClients, timestamp,
             appsrc, loop, clientCount, gst, oldGst>>
mainOwn == <<gStop, mainPc>>
history == <<tagged, streamed>>
vars    == <<input, output, inImage, outImage, capOwn, procOwn, uiOwn, txOwn, mainOwn, history>>

CapAct(a)  == a /\ UNCHANGED <<output, outImage, procOwn, uiOwn, txOwn>>
ProcAct(a) == a /\ UNCHANGED <<capOwn, uiOwn, txOwn>>
UiAct(a)   == a /\ UNCHANGED <<capOwn, txOwn>>
TxAct(a)   == a /\ UNCHANGED <<input, inImage, outImage, capOwn, procOwn, uiOwn>>

TypeOK ==
    /\ CapTypeOK
    /\ UI!ProcTypeOK
    /\ UI!UiTypeOK
    /\ Tx!StreamerTypeOK
    /\ gStop \in BOOLEAN
    /\ mainPc \in {"configure", "open", "start capture", "start processor", "start streamer",
                   "start ui", "check", "call pause", "pause",
                   "stop ui", "join ui", "stop tx", "close output", "quit loop", "join tx",
                   "stop processor", "close input", "join processor",
                   "stop capture", "join capture", "exited"}
    /\ tagged \subseteq {"first", "second"}
    /\ streamed \subseteq {"first", "second"}

Init ==
    /\ CapInit
    /\ UI!ProcInit
    /\ UI!UiInit
    /\ Tx!StreamerInit
    /\ gStop = FALSE
    /\ mainPc = "configure"
    /\ tagged = {}
    /\ streamed = {}

-----------------------------------------------------------------------------
(* The threads                                                             *)

CaptureThread   == CapAct(CapStep) /\ UNCHANGED <<mainOwn, history>>
ProcessorThread == ProcAct(UI!ProcStep) /\ UNCHANGED <<mainOwn, history>>

UiThread ==
    /\ \/ UiAct(UI!UiHead \/ UI!UiNothing \/ UI!UiApplying)
       \/ "type" \in User /\ UiAct(UI!UiError \/ UI!UiEof \/ UI!UiApply)
    /\ UNCHANGED <<mainOwn, history>>

TxThread ==
    /\ TxAct(Tx!TxStep)
    /\ streamed' = IF txPc = "wrap"
                   THEN streamed \cup ({outImage[txFrame]} \cap {"first", "second"})
                   ELSE streamed
    /\ UNCHANGED <<mainOwn, tagged>>

LoopThread     == TxAct(Tx!LoopStep) /\ UNCHANGED <<mainOwn, history>>
LibraryThreads == TxAct(Tx!LibraryStep) /\ UNCHANGED <<mainOwn, history>>
PlayOut        == TxAct(Tx!PlayOut) /\ UNCHANGED <<mainOwn, history>>

NextTag == {"plain"} \cup (IF Marking /\ tagged = {} THEN {"first"} ELSE {})
                     \cup (IF tagged = {"first"} THEN {"second"} ELSE {})

Camera ==
    \E tag \in NextTag :
        /\ CapAct(Complete(tag))
        /\ tagged' = tagged \cup ({tag} \ {"plain"})
        /\ UNCHANGED <<mainOwn, streamed>>

CameraFails == CapAct(QueueError) /\ UNCHANGED <<mainOwn, history>>

-----------------------------------------------------------------------------
(* main()                                                                  *)

OthersUnchanged ==
    UNCHANGED <<input, output, inImage, outImage, capOwn, procOwn, uiOwn, txOwn>>

Main(from, to) == mainPc = from /\ mainPc' = to /\ UNCHANGED <<gStop, history>>

\* The questions at the start: an answer main() does not understand ends the
\* program before any thread has started.
Configure ==
    /\ \E to \in {"open", "exited"} : Main("configure", to)
    /\ OthersUnchanged

StartAll ==
    \/ Main("open", "start capture")             /\ CapAct(OpenDevice)
    \/ Main("start capture", "start processor")  /\ CapAct(StartCapture)
    \/ Main("start processor", "start streamer") /\ ProcAct(UI!Start)
    \/ Main("start streamer", "start ui")        /\ TxAct(Tx!StartStreamer)
    \/ Main("start ui", "check")                 /\ UiAct(UI!StartUi)

\* while (!g_stop) pause();  reading g_stop and entering pause() are two steps.
CheckStop ==
    \/ Main("check", IF gStop THEN "stop ui" ELSE "call pause") /\ OthersUnchanged
    \/ Main("call pause", "pause") /\ OthersUnchanged

\* SIGINT or SIGTERM: the handler sets g_stop, and a pause() that has already
\* begun returns.
Signal ==
    /\ "signal" \in User
    /\ mainPc \in {"configure", "open", "start capture", "start processor",
                  "start streamer", "start ui", "check", "call pause", "pause"}
    /\ gStop' = TRUE
    /\ mainPc' = IF mainPc = "pause" THEN "check" ELSE mainPc
    /\ OthersUnchanged /\ UNCHANGED history

\* Mutant of Joins: detach() instead of join().
JoinsNot(from, to, ended) == Main(from, to) /\ OthersUnchanged

Joins(from, to, ended) ==
    /\ ended
    /\ Main(from, to)
    /\ OthersUnchanged

\* ui.stop(), streamer.stop(), processor.stop() and capPtr->stop().
StopAll ==
    \/ Main("stop ui", "join ui")               /\ UiAct(UI!StopUi)
    \/ Joins("join ui", "stop tx", uiPc = "exited")
    \/ Main("stop tx", "close output")          /\ TxAct(Tx!StopStreaming)
    \/ Main("close output", "quit loop")        /\ TxAct(Tx!CloseOutput)
    \/ Main("quit loop", "join tx")             /\ TxAct(Tx!QuitLoop)
    \/ Main("join tx", "stop processor")        /\ TxAct(Tx!UnrefAppsrc)
    \/ Main("stop processor", "close input")    /\ ProcAct(UI!StopRequest)
    \/ Main("close input", "join processor")    /\ ProcAct(UI!StopNotify)
    \/ Joins("join processor", "stop capture", procPc = "exited")
    \/ Main("stop capture", "join capture")     /\ CapAct(StopCapture)
    \/ Main("join capture", "join capture")     /\ CapAct(DrainTurn \/ DrainBreaks)
    \/ Main("join capture", "exited")           /\ CapAct(StreamOff)

MainThread == Configure \/ StartAll \/ CheckStop \/ StopAll

\* The process is gone.
Terminated == mainPc = "exited" /\ UNCHANGED vars

Next ==
    \/ mainPc # "exited" /\ \/ CaptureThread
                            \/ ProcessorThread
                            \/ UiThread
                            \/ TxThread
                            \/ LoopThread
                            \/ LibraryThreads
                            \/ Camera
                            \/ CameraFails
                            \/ MainThread
                            \/ Signal
    \/ Terminated

Spec == Init /\ [][Next]_vars

(***************************************************************************)
(* Every thread of the process runs and a connected client plays what is   *)
(* queued.  The camera is fair only in CameraSpec: the OV7670 may be       *)
(* unplugged or held in reset while the program runs.  Nobody has to type, *)
(* connect or send a signal.                                               *)
(***************************************************************************)
ThreadFairness ==
    /\ WF_vars(CaptureThread)
    /\ WF_vars(ProcessorThread)
    /\ WF_vars(UiThread)
    /\ WF_vars(TxThread)
    /\ WF_vars(LoopThread)
    /\ WF_vars(MainThread)
    /\ WF_vars(PlayOut)

FairSpec   == Spec /\ ThreadFairness
CameraSpec == FairSpec /\ WF_vars(Camera)

-----------------------------------------------------------------------------
(***************************************************************************)
(* End to end: the images handed to GStreamer are in the order they were   *)
(* taken, each at most once, although V4L2 buffers, input frames and       *)
(* output frames are reused while they travel.  It holds as long as no     *)
(* filter throws: the processor then pushes the output frame with what it  *)
(* held before, which may be an image that has been streamed already.      *)
(***************************************************************************)
StreamedInOrder ==
    [][txPc = "wrap" /\ txPc' = "send" /\ outImage[txFrame] \in {"first", "second"}
         => /\ outImage[txFrame] \notin streamed
            /\ outImage[txFrame] = "first" => "second" \notin streamed]_vars

InGStreamer == Tx!Lent(gst) \cup oldGst

(***************************************************************************)
(* No frame of either buffer has two users: the output frame that is being *)
(* filled is neither queued nor in GStreamer's hands, and the input frame  *)
(* being filtered is not being refilled by the capture thread.             *)
(***************************************************************************)
FramesHaveOneUser ==
    /\ procOut # NoFrame => procOut # txFrame /\ procOut \notin InGStreamer
    /\ txFrame # NoFrame => txFrame \notin InGStreamer
    /\ procIn # NoFrame => procIn # capFrame
    /\ \A f \in InGStreamer : output.place[f] = "reading"

(***************************************************************************)
(* When main() returns and destroys the objects, every thread that uses    *)
(* them has been joined; and while a thread can still run, what it uses    *)
(* has not been torn down: the pipeline outlives the UI that commits to    *)
(* it, the device outlives the capture thread.                             *)
(***************************************************************************)
ThreadsOutlived ==
    /\ mainPc = "exited" => /\ {uiPc, txPc, procPc, capPc} \subseteq {"off", "exited"}
                            /\ loop \in {"off", "ended"}
    /\ uiPc = "apply" => running
    /\ capPc \notin {"off", "exited"} => device \in {"streaming", "error"}

\* g_main_loop_quit() came too early, and stop() joins a loop that goes on.
QuitLost == mainPc = "join tx" /\ loop = "deaf"

(***************************************************************************)
(* SimpleUI.cpp polls stdin with a timeout "so stop() is never blocked     *)
(* long".                                                                  *)
(***************************************************************************)
UiStopReturns == mainPc = "join ui" ~> mainPc # "join ui"

\* Main.cpp prints "Ctrl+C to stop": a signal ends the pause() loop.
SignalStops == gStop ~> mainPc \notin {"check", "call pause", "pause"}

(***************************************************************************)
(* That much of it is true: a signal that came between the test and        *)
(* pause() is not remembered, but Ctrl+C pressed once more ends the        *)
(* program, whatever the threads are doing, as long as images keep coming  *)
(* and GStreamer does not keep the whole pool for good.  The exception is  *)
(* a quit that gets lost: then main() waits for the loop for ever.         *)
(***************************************************************************)
SignalAgainStops ==
    /\ WF_vars(mainPc = "pause" /\ Signal)
    /\ []<>(InGStreamer # OutPool)
    => (gStop ~> (mainPc = "exited" \/ QuitLost))
-----------------------------------------------------------------------------
(***************************************************************************)
(* Each component was also modelled between neighbours that are reduced to *)
(* what they do to its buffers.  The neighbours it has in the program do   *)
(* nothing else, so what is shown there of the safety of a component holds *)
(* of it here.                                                             *)
(***************************************************************************)
TxStage == INSTANCE StreamerStage

StreamerInPlace == TxStage!Spec

(***************************************************************************)
(* The processor sees images without marks, in a frame that is being       *)
(* filled already the one it will hold, and it does not see stop() close   *)
(* its output buffer.                                                      *)
(***************************************************************************)
Unmarked(image) == IF image = "blank" THEN "blank" ELSE "plain"
SeenInImage  == [f \in InPool |-> IF input.place[f] = "filling" THEN "plain" ELSE Unmarked(inImage[f])]
SeenOutput   == [output EXCEPT !.closed = FALSE]
SeenOutImage == [f \in OutPool |-> Unmarked(outImage[f])]

ProcStage == INSTANCE ProcessorStage
                WITH inImage <- SeenInImage, output <- SeenOutput, outImage <- SeenOutImage

ProcessorInPlace == ProcStage!Spec
=============================================================================
