------------------------------ MODULE Streamer ------------------------------
(***************************************************************************)
(* sw/vision_core/src/Streamer.cpp: the tx thread that takes frames from   *)
(* the output buffer and pushes them into GStreamer's appsrc, the          *)
(* callbacks of the RTSP server, which run in threads of the library, and  *)
(* stop().                                                                 *)
(*                                                                         *)
(* GStreamer itself is external: a queue of buffers that it plays out      *)
(* while some client is connected, that a flush empties, and that refuses  *)
(* a buffer when the pipeline is not running.  Its factory makes a media   *)
(* with an appsrc of its own for every URL it has not seen; media are      *)
(* reusable and shared, so the factory keeps all of them.                  *)
(***************************************************************************)
EXTENDS Naturals, Sequences

CONSTANTS
    OutPool,       \* frames of m_inputBuffer (Main.cpp's outputBuffer)
    NoFrame,       \* a null Frame pointer
    Encodings,     \* what m_encoding may be
    MaxClients,    \* bound on simultaneously connected clients
    MaxQueued,     \* bound on the buffers GStreamer queues
    MaxPts         \* bound on m_timestamp; 0 leaves timestamps out

ASSUME StreamerAssumption ==
    /\ NoFrame \notin OutPool
    /\ Encodings \subseteq {"mjpeg", "raw"}     \* H264 behaves as "raw"
    /\ MaxClients \in Nat /\ MaxQueued \in Nat /\ MaxPts \in Nat

VARIABLES
    encoding,        \* m_encoding
    output,          \* the buffer txThread() pops from
    streaming,       \* m_running
    txPc,            \* where txThread() is
    txFrame,         \* its local variable frame
    txAppsrc,        \* its local copy of m_appsrc, which may be replaced meanwhile
    prevHadClients,  \* its local variable
    timestamp,       \* m_timestamp, in frame durations
    appsrc,          \* m_appsrc is set, and the reference to it is held
    loop,            \* where the thread of the GMainLoop is, and stop() with it
    clientCount,     \* m_clientCount
    gst,             \* what m_appsrc holds: [frame, pts] in play-out order
    oldGst           \* the frames that appsrcs m_appsrc has been before hold

txVars       == <<streaming, txPc, txFrame, txAppsrc, prevHadClients, timestamp>>
libVars      == <<encoding, appsrc, loop, clientCount, gst, oldGst>>
streamerVars == <<output, txVars, libVars>>

Out == INSTANCE FrameChannel WITH Pool <- OutPool, chan <- output

GstBuffers == [frame : OutPool \cup {NoFrame}, pts : 0 .. MaxPts]

StreamerTypeOK ==
    /\ encoding \in Encodings
    /\ output \in Out!Channels
    /\ streaming \in BOOLEAN
    /\ txPc \in {"off", "head", "pop", "appsrc", "clients", "flush", "return",
                 "wrap", "send", "exited"}
    /\ txFrame \in OutPool \cup {NoFrame}
    /\ txAppsrc \in {"none", "current", "replaced"}
    /\ prevHadClients \in BOOLEAN
    /\ timestamp \in 0 .. MaxPts
    /\ appsrc \in BOOLEAN
    /\ loop \in {"off", "starting", "running", "quit", "ended", "deaf"}
    /\ clientCount \in 0 .. MaxClients
    /\ gst \in Seq(GstBuffers)
    /\ oldGst \subseteq OutPool

StreamerInit ==
    /\ encoding \in Encodings
    /\ output = Out!NewChannel
    /\ streaming = FALSE
    /\ txPc = "off"
    /\ txFrame = NoFrame
    /\ txAppsrc = "none"
    /\ prevHadClients = FALSE
    /\ timestamp = 0
    /\ appsrc = FALSE
    /\ loop = "off"
    /\ clientCount = 0
    /\ gst = << >>
    /\ oldGst = {}

ZeroCopy      == encoding # "mjpeg"
Lent(q)       == {q[k].frame : k \in 1 .. Len(q)} \ {NoFrame}
ReturnAll(ch, frames) ==
    [ch EXCEPT !.place = [f \in OutPool |-> IF f \in frames THEN "free" ELSE @[f]]]

-----------------------------------------------------------------------------
(* start() and stop()                                                      *)

StartStreamer ==
    /\ txPc = "off"
    /\ streaming' = TRUE
    /\ loop' = "starting"
    /\ txPc' = "head"
    /\ UNCHANGED <<encoding, output, txFrame, txAppsrc, prevHadClients, timestamp,
                   appsrc, clientCount, gst, oldGst>>

StopStreaming ==
    /\ streaming
    /\ streaming' = FALSE
    /\ UNCHANGED <<output, txPc, txFrame, txAppsrc, prevHadClients, timestamp, libVars>>

CloseOutput ==
    /\ txPc # "off" /\ ~streaming
    /\ output' = Out!Closed(output)
    /\ UNCHANGED <<txVars, libVars>>

\* The new thread reaches g_main_loop_run(), and later returns from it.  A
\* quit that came before it has no effect: the loop is deaf to it.
LoopRuns ==
    /\ loop = "starting"
    /\ loop' = "running"
    /\ UNCHANGED <<encoding, output, txVars, appsrc, clientCount, gst, oldGst>>

LoopEnds ==
    /\ loop = "quit"
    /\ loop' = "ended"
    /\ UNCHANGED <<encoding, output, txVars, appsrc, clientCount, gst, oldGst>>

LoopStep == LoopRuns \/ LoopEnds

\* Mutant of QuitLoop: g_main_loop_quit() is missing.
QuitLoopNot ==
    /\ output.closed /\ loop \in {"starting", "running"}
    /\ UNCHANGED streamerVars

\* g_main_loop_quit(), called once.
QuitLoop ==
    /\ output.closed /\ loop \in {"starting", "running"}
    /\ loop' = IF loop = "running" THEN "quit" ELSE "deaf"
    /\ UNCHANGED <<encoding, output, txVars, appsrc, clientCount, gst, oldGst>>

\* Both threads have been joined: drop the reference to appsrc.
UnrefAppsrc ==
    /\ loop = "ended" /\ txPc = "exited"
    /\ appsrc' = FALSE
    /\ UNCHANGED <<encoding, output, txVars, loop, clientCount, gst, oldGst>>

-----------------------------------------------------------------------------
(* txThread()                                                              *)

TxHead ==
    /\ txPc = "head"
    /\ txPc' = IF streaming THEN "pop" ELSE "exited"
    /\ UNCHANGED <<output, streaming, txFrame, txAppsrc, prevHadClients, timestamp, libVars>>

TxPop ==
    /\ txPc = "pop"
    /\ Out!CanPop(output)
    /\ txFrame' = Head(output.queue)
    /\ output' = Out!Popped(output)
    /\ txPc' = "appsrc"
    /\ UNCHANGED <<streaming, txAppsrc, prevHadClients, timestamp, libVars>>

TxPopThrows ==
    /\ txPc = "pop"
    /\ output.closed
    /\ txPc' = "exited"
    /\ UNCHANGED <<output, streaming, txFrame, txAppsrc, prevHadClients, timestamp, libVars>>

\* Copy m_appsrc under m_appsrcMtx; the lock is gone before it is used.
TxReadAppsrc ==
    /\ txPc = "appsrc"
    /\ txAppsrc' = IF appsrc THEN "current" ELSE "none"
    /\ txPc' = "clients"
    /\ UNCHANGED <<output, streaming, txFrame, prevHadClients, timestamp, libVars>>

TxHasClients == txAppsrc # "none" /\ clientCount > 0

TxReadClients ==
    /\ txPc = "clients"
    /\ txPc' = CASE TxHasClients                              -> "wrap"
                 [] clientCount = 0 /\ txAppsrc # "none" /\ prevHadClients -> "flush"
                 [] OTHER                                     -> "return"
    /\ prevHadClients' = TxHasClients
    /\ UNCHANGED <<output, streaming, txFrame, txAppsrc, timestamp, libVars>>

\* Mutant of TxFlush: the timestamps start again, the queue is not flushed.
TxFlushNot ==
    /\ txPc = "flush"
    /\ timestamp' = 0
    /\ txPc' = "return"
    /\ UNCHANGED <<output, streaming, txFrame, txAppsrc, prevHadClients, libVars>>

\* flush-start and flush-stop: the appsrc drops every buffer, and the destroy
\* callbacks give zero-copy frames back to the pool.  A replaced appsrc is one
\* of those that hold oldGst.
TxFlush ==
    /\ txPc = "flush"
    /\ \/ /\ txAppsrc # "replaced"
          /\ gst' = << >>
          /\ output' = ReturnAll(output, Lent(gst))
          /\ UNCHANGED oldGst
       \/ /\ txAppsrc = "replaced"
          /\ \E frames \in SUBSET oldGst :
                oldGst' = oldGst \ frames /\ output' = ReturnAll(output, frames)
          /\ UNCHANGED gst
    /\ timestamp' = 0
    /\ txPc' = "return"
    /\ UNCHANGED <<encoding, streaming, txFrame, txAppsrc, prevHadClients, appsrc, loop, clientCount>>

TxReturn ==
    /\ txPc = "return"
    /\ output' = Out!Returned(output, txFrame)
    /\ txFrame' = NoFrame
    /\ txAppsrc' = "none"
    /\ txPc' = "head"
    /\ UNCHANGED <<streaming, prevHadClients, timestamp, libVars>>

\* Mutant of TxWrap: a zero-copy frame is given back as well.
TxWrapGivesBack ==
    /\ txPc = "wrap"
    /\ output' = Out!Returned(output, txFrame)
    /\ txPc' = "send"
    /\ UNCHANGED <<streaming, txFrame, txAppsrc, prevHadClients, timestamp, libVars>>

\* MJPEG encodes into memory of its own and gives the frame back at once.
TxWrap ==
    /\ txPc = "wrap"
    /\ IF ZeroCopy
       THEN UNCHANGED <<output, txFrame>>
       ELSE output' = Out!Returned(output, txFrame) /\ txFrame' = NoFrame
    /\ txPc' = "send"
    /\ UNCHANGED <<streaming, txAppsrc, prevHadClients, timestamp, libVars>>

Tick == timestamp' = IF MaxPts = 0 THEN 0 ELSE timestamp + 1

\* gst_app_src_push_buffer(): GStreamer queues the buffer ...
TxSend ==
    /\ txPc = "send"
    /\ Len(gst) < MaxQueued
    /\ IF txAppsrc = "replaced"
       THEN oldGst' = oldGst \cup ({txFrame} \ {NoFrame}) /\ UNCHANGED gst
       ELSE gst' = Append(gst, [frame |-> txFrame, pts |-> timestamp]) /\ UNCHANGED oldGst
    /\ Tick
    /\ txFrame' = NoFrame
    /\ txAppsrc' = "none"
    /\ txPc' = "head"
    /\ UNCHANGED <<encoding, output, streaming, prevHadClients, appsrc, loop, clientCount>>

\* Mutant of TxSendRefused: a refused buffer has no destroy callback.
TxSendRefusedLeaks ==
    /\ txPc = "send"
    /\ Tick
    /\ txFrame' = NoFrame
    /\ txAppsrc' = "none"
    /\ txPc' = "head"
    /\ UNCHANGED <<output, streaming, prevHadClients, libVars>>

\* ... or refuses it and runs its destroy callback.
TxSendRefused ==
    /\ txPc = "send"
    /\ output' = ReturnAll(output, {txFrame})
    /\ Tick
    /\ txFrame' = NoFrame
    /\ txAppsrc' = "none"
    /\ txPc' = "head"
    /\ UNCHANGED <<streaming, prevHadClients, libVars>>

TxStep ==
    \/ TxHead \/ TxPop \/ TxPopThrows \/ TxReadAppsrc \/ TxReadClients
    \/ TxFlush \/ TxReturn \/ TxWrap \/ TxSend \/ TxSendRefused

-----------------------------------------------------------------------------
(* Callbacks of the RTSP server and the play-out of GStreamer.  Connections*)
(* are accepted in the GMainLoop thread, clients live in threads of the    *)
(* library that go on after it.                                            *)

OnClientConnected ==
    /\ loop \in {"running", "quit", "deaf"}
    /\ clientCount < MaxClients
    /\ clientCount' = clientCount + 1
    /\ UNCHANGED <<encoding, output, txVars, appsrc, loop, gst, oldGst>>

\* A client asks for a URL that has no media yet.  The new appsrc, still empty,
\* takes the place of m_appsrc; the tx thread may have a copy of the one before.
OnMediaConfigure ==
    /\ clientCount > 0
    /\ appsrc' = TRUE
    /\ gst' = << >>
    /\ oldGst' = oldGst \cup Lent(gst)
    /\ txAppsrc' = IF txAppsrc = "current" THEN "replaced" ELSE txAppsrc
    /\ UNCHANGED <<encoding, output, streaming, txPc, txFrame, prevHadClients, timestamp,
                   loop, clientCount>>

OnClientClosed ==
    /\ clientCount > 0
    /\ clientCount' = clientCount - 1
    /\ UNCHANGED <<encoding, output, txVars, appsrc, loop, gst, oldGst>>

\* Mutant of PlayOut: the destroy callback does not give the frame back.
PlayOutLeaks ==
    /\ gst # << >>
    /\ clientCount > 0
    /\ gst' = Tail(gst)
    /\ UNCHANGED <<encoding, output, txVars, appsrc, loop, clientCount, oldGst>>

\* GStreamer has played the oldest buffer out and destroys it.
PlayOut ==
    /\ gst # << >>
    /\ clientCount > 0
    /\ gst' = Tail(gst)
    /\ output' = ReturnAll(output, Lent(<<Head(gst)>>))
    /\ UNCHANGED <<encoding, txVars, appsrc, loop, clientCount, oldGst>>

\* So does a pipeline that somebody still watches under its old URL.
PlayOutOld ==
    /\ clientCount > 0
    /\ \E f \in oldGst : oldGst' = oldGst \ {f} /\ output' = ReturnAll(output, {f})
    /\ UNCHANGED <<encoding, txVars, appsrc, loop, clientCount, gst>>

LibraryStep ==
    \/ OnClientConnected \/ OnMediaConfigure \/ OnClientClosed
    \/ PlayOut \/ PlayOutOld
=============================================================================
