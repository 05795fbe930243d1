---------------------------- MODULE VisionCore_proofs ----------------------------
(***************************************************************************)
(* Proofs about all threads of vision_core together, for buffers of any    *)
(* size, any set of pipelines, any encoding and any number of clients:     *)
(* lifetimes, owners of frames and buffers, the drain, the order of the    *)
(* images, that streamer and processor do here what they do in their       *)
(* stages, and that they keep what they promise there.  The capturer's     *)
(* stage has a device that may fail, which the whole program has not: its  *)
(* theorems are proved with the same lemmas.                               *)
(***************************************************************************)
EXTENDS VisionCore, CommonLemmas, FiniteSetTheorems

-----------------------------------------------------------------------------
(* What main() has started and what it has joined                          *)

Opening      == {"configure", "open", "start capture"}
NoProcessor  == Opening \cup {"start processor"}
NoStreamer   == NoProcessor \cup {"start streamer"}
NoUi         == NoStreamer \cup {"start ui"}
CaptureLast  == {"stop capture", "join capture", "exited"}
TxJoined     == {"stop processor", "close input", "join processor"} \cup CaptureLast
UiJoined     == {"stop tx", "close output", "quit loop", "join tx"} \cup TxJoined
Gone         == {"off", "exited"}

\* Each thread is there from its start to its join, and what the others use
\* of it is taken down only after theirs.
Lifetimes ==
    /\ mainPc \in Opening => capPc = "off"
    /\ mainPc = "exited" => capPc \in Gone
    /\ mainPc \notin Opening \cup {"join capture", "exited"} => device \in {"streaming", "error"}
    /\ mainPc = "join capture" => device \in {"streaming", "error"}
                                  \/ (device = "abandoned" /\ capPc \in Gone)
    /\ mainPc \in NoProcessor => procPc = "off"
    /\ mainPc \in CaptureLast => procPc \in Gone
    /\ mainPc \notin NoProcessor \cup {"close input", "join processor"} \cup CaptureLast => running
    /\ mainPc \in NoStreamer => txPc = "off" /\ loop = "off"
    /\ mainPc \in TxJoined => txPc \in Gone /\ loop \in {"off", "ended"}
    /\ mainPc \in NoUi => uiPc = "off"
    /\ mainPc \in UiJoined => uiPc \in Gone

LEMMA LifetimesInit == Init => Lifetimes
  BY DEF Init, CapInit, UI!ProcInit, UI!UiInit, Tx!StreamerInit, Lifetimes, Gone,
         Opening, NoProcessor, NoStreamer, NoUi, CaptureLast, TxJoined, UiJoined

\* What the threads do to what main() knows of them.
LEMMA CapturePcs ==
    ASSUME CaptureThread
    PROVE  /\ UNCHANGED <<mainPc, device, procPc, running, txPc, loop, uiPc>>
           /\ capPc \notin Gone
  BY DEF CaptureThread, CapAct, procOwn, uiOwn, txOwn, mainOwn, Gone, CapStep, CapHead,
         SelectTimeout, CaptureBreaks, Dequeue, BorrowInput, DropImage,
         Copy, PushInput, Requeue, deviceVars, captureVars

LEMMA ProcessorPcs ==
    ASSUME ProcessorThread
    PROVE  /\ UNCHANGED <<mainPc, device, capPc, running, txPc, loop, uiPc>>
           /\ procPc \notin Gone
  BY DEF ProcessorThread, ProcAct, capOwn, uiOwn, txOwn, mainOwn, Gone, UI!ProcStep, UI!LoopHead,
         UI!PopInput, UI!PopThrows, UI!BorrowOutput, UI!SkipFrame, UI!Swap, UI!NotifySwap,
         UI!Filter, UI!PushOutput, UI!ReturnInput, UI!channelVars, UI!threadVars, UI!editVars

LEMMA UiPcs ==
    ASSUME UiThread
    PROVE  /\ UNCHANGED <<mainPc, device, capPc, running, procPc, txPc, loop>>
           /\ uiPc \notin Gone
  BY DEF UiThread, UiAct, capOwn, txOwn, mainOwn, Gone, UI!UiHead, UI!UiNothing, UI!UiApplying,
         UI!UiError, UI!UiEof, UI!UiApply, UI!BeginEdit, UI!FinishEdit, UI!EndEdit, UI!Commit,
         UI!CommitWait, UI!procVars, UI!channelVars, UI!threadVars, UI!editVars

LEMMA TxPcs ==
    ASSUME TxThread
    PROVE  /\ UNCHANGED <<mainPc, device, capPc, running, procPc, loop, uiPc>>
           /\ txPc \notin Gone
  BY DEF TxThread, TxAct, capOwn, procOwn, uiOwn, mainOwn, Gone, Tx!TxStep, Tx!TxHead, Tx!TxPop,
         Tx!TxPopThrows, Tx!TxReadAppsrc, Tx!TxReadClients, Tx!TxFlush, Tx!TxReturn, Tx!TxWrap,
         Tx!TxSend, Tx!TxSendRefused, Tx!libVars

LEMMA LoopPcs ==
    ASSUME LoopThread
    PROVE  /\ UNCHANGED <<mainPc, device, capPc, running, procPc, txPc, uiPc>>
           /\ loop \notin {"off", "ended"}
  BY DEF LoopThread, TxAct, capOwn, procOwn, uiOwn, mainOwn, Tx!LoopStep, Tx!LoopRuns, Tx!LoopEnds,
         Tx!txVars

LEMMA CameraFailsPcs ==
    ASSUME CameraFails
    PROVE  /\ UNCHANGED <<mainPc, capPc, running, procPc, txPc, loop, uiPc>>
           /\ device = "streaming" /\ device' = "error"
  BY DEF CameraFails, CapAct, procOwn, uiOwn, txOwn, mainOwn, QueueError, captureVars

LEMMA OtherPcs ==
    ASSUME LibraryThreads \/ Camera
    PROVE  UNCHANGED <<mainPc, device, capPc, running, procPc, uiPc, txPc, loop>>
  BY DEF LibraryThreads, Camera, CapAct, TxAct, capOwn, procOwn, uiOwn, txOwn, mainOwn,
         Complete, captureVars, Tx!LibraryStep, Tx!OnClientConnected, Tx!OnMediaConfigure,
         Tx!OnClientClosed, Tx!PlayOut, Tx!PlayOutOld, Tx!txVars

LEMMA LifetimesStep == Lifetimes /\ [Next]_vars => Lifetimes'
  <1> SUFFICES ASSUME Lifetimes, [Next]_vars PROVE Lifetimes'
    OBVIOUS
  <1> USE DEF Lifetimes, Gone, Opening, NoProcessor, NoStreamer, NoUi, CaptureLast, TxJoined, UiJoined
  <1>1. CASE UNCHANGED vars
    BY <1>1 DEF vars, capOwn, procOwn, uiOwn, txOwn, mainOwn
  <1>2. CASE CaptureThread /\ mainPc # "exited"
    BY <1>2, CapturePcs
  <1>3. CASE ProcessorThread
    BY <1>3, ProcessorPcs
  <1>4. CASE UiThread
    BY <1>4, UiPcs
  <1>5. CASE TxThread \/ LoopThread
    BY <1>5, TxPcs, LoopPcs
  <1>6. CASE LibraryThreads \/ Camera \/ CameraFails
    BY <1>6, OtherPcs, CameraFailsPcs
  <1>7. CASE Signal \/ CheckStop \/ Configure
    <2>1. UNCHANGED <<device, capPc, running, procPc, uiPc, txPc, loop>>
      BY <1>7 DEF Signal, CheckStop, Configure, OthersUnchanged, capOwn, procOwn, uiOwn, txOwn
    <2>2. CASE Signal
      BY <2>1, <2>2 DEF Signal
    <2>3. CASE CheckStop
      BY <2>1, <2>3 DEF CheckStop, Main
    <2>4. CASE Configure
      BY <2>1, <2>4 DEF Configure, Main
    <2> QED
      BY <1>7, <2>2, <2>3, <2>4
  <1>8. CASE StartAll
    <2>1. UNCHANGED <<gStop, history>>
      BY <1>8 DEF StartAll, Main
    <2>2. CASE Main("open", "start capture") /\ CapAct(OpenDevice)
      BY <2>2 DEF Main, CapAct, OpenDevice, captureVars, procOwn, uiOwn, txOwn
    <2>3. CASE Main("start capture", "start processor") /\ CapAct(StartCapture)
      BY <2>3 DEF Main, CapAct, StartCapture, procOwn, uiOwn, txOwn
    <2>4. CASE Main("start processor", "start streamer") /\ ProcAct(UI!Start)
      BY <2>4 DEF Main, ProcAct, UI!Start, capOwn, uiOwn, txOwn
    <2>5. CASE Main("start streamer", "start ui") /\ TxAct(Tx!StartStreamer)
      BY <2>5 DEF Main, TxAct, Tx!StartStreamer, capOwn, procOwn, uiOwn
    <2>6. CASE Main("start ui", "check") /\ UiAct(UI!StartUi)
      BY <2>6 DEF Main, UiAct, UI!StartUi, UI!procVars, UI!threadVars, capOwn, txOwn
    <2> QED
      BY <1>8, <2>2, <2>3, <2>4, <2>5, <2>6 DEF StartAll
  <1>9. CASE StopAll
    <2>1. CASE Main("stop ui", "join ui") /\ UiAct(UI!StopUi)
      BY <2>1 DEF Main, UiAct, UI!StopUi, UI!procVars, UI!threadVars, capOwn, txOwn
    <2>2. CASE \/ Joins("join ui", "stop tx", uiPc = "exited")
               \/ Joins("join processor", "stop capture", procPc = "exited")
      BY <2>2 DEF Joins, Main, OthersUnchanged, capOwn, procOwn, uiOwn, txOwn
    <2>3. CASE \/ Main("stop tx", "close output") /\ TxAct(Tx!StopStreaming)
               \/ Main("close output", "quit loop") /\ TxAct(Tx!CloseOutput)
               \/ Main("quit loop", "join tx") /\ TxAct(Tx!QuitLoop)
               \/ Main("join tx", "stop processor") /\ TxAct(Tx!UnrefAppsrc)
      BY <2>3 DEF Main, TxAct, Tx!StopStreaming, Tx!CloseOutput, Tx!QuitLoop, Tx!UnrefAppsrc,
                  Tx!txVars, Tx!libVars, capOwn, procOwn, uiOwn
    <2>4. CASE \/ Main("stop processor", "close input") /\ ProcAct(UI!StopRequest)
               \/ Main("close input", "join processor") /\ ProcAct(UI!StopNotify)
      BY <2>4 DEF Main, ProcAct, UI!StopRequest, UI!StopNotify, UI!threadVars, capOwn, uiOwn, txOwn
    <2>5. CASE \/ Main("stop capture", "join capture") /\ CapAct(StopCapture)
               \/ Main("join capture", "join capture") /\ CapAct(DrainTurn \/ DrainBreaks)
      <3>1. UNCHANGED <<running, procPc, uiPc, txPc, loop>>
        BY <2>5 DEF CapAct, procOwn, uiOwn, txOwn
      <3>2. CASE Main("stop capture", "join capture") /\ CapAct(StopCapture)
        BY <3>1, <3>2 DEF Main, CapAct, StopCapture, deviceVars
      <3>3. CASE Main("join capture", "join capture") /\ CapAct(DrainTurn)
        BY <3>1, <3>3 DEF Main, CapAct, DrainTurn
      <3>4. CASE Main("join capture", "join capture") /\ CapAct(DrainBreaks)
        <4>1. capPc' = capPc /\ device' = "abandoned" /\ capPc \in Gone
          BY <3>4 DEF CapAct, DrainBreaks, Joined, captureVars
        <4> QED
          BY <3>1, <3>4, <4>1 DEF Main
      <3> QED
        BY <2>5, <3>2, <3>3, <3>4 DEF CapAct
    <2>6. CASE Main("join capture", "exited") /\ CapAct(StreamOff)
      BY <2>6 DEF Main, CapAct, StreamOff, Joined, procOwn, uiOwn, txOwn
    <2> QED
      BY <1>9, <2>1, <2>2, <2>3, <2>4, <2>5, <2>6 DEF StopAll
  <1> QED
    BY <1>1, <1>2, <1>3, <1>4, <1>5, <1>6, <1>7, <1>8, <1>9 DEF Next, MainThread, Terminated

LEMMA LifetimesInvariant == Spec => []Lifetimes
  BY LifetimesInit, LifetimesStep, PTL DEF Spec

(***************************************************************************)
(* Whatever the threads do while main() takes them down: the pipeline      *)
(* outlives the UI, the device outlives the capture thread, and every      *)
(* thread has been joined when main() returns.                             *)
(***************************************************************************)
THEOREM EverythingOutlived == Spec => []ThreadsOutlived
  <1>1. Lifetimes => ThreadsOutlived
    BY DEF Lifetimes, ThreadsOutlived, Gone, Opening, NoProcessor, NoStreamer, NoUi,
           CaptureLast, TxJoined, UiJoined
  <1> QED
    BY <1>1, LifetimesInvariant, PTL

-----------------------------------------------------------------------------
(* The frames of the input buffer                                          *)

\* Between borrow() and push() a frame is the capture thread's, between pop()
\* and giveBack() it is the processor's.
InputOwners ==
    /\ Sound(input, InPool)
    /\ capFrame \in InPool \cup {NoFrame} /\ procIn \in InPool \cup {NoFrame}
    /\ capFrame # NoFrame <=> capPc \in {"copy", "push"}
    /\ procIn # NoFrame <=> procPc \in {"borrow", "swap", "notify", "filter", "push", "return"}
    /\ \A f \in InPool : input.place[f] = "filling" <=> f = capFrame
    /\ \A f \in InPool : input.place[f] = "reading" <=> f = procIn

LEMMA InputOwnersInit == Init => InputOwners
  <1> SUFFICES ASSUME Init PROVE InputOwners
    OBVIOUS
  <1>1. input = [place |-> [f \in InPool |-> "free"], queue |-> << >>, closed |-> FALSE]
    BY DEF Init, CapInit, In!NewChannel
  <1>2. Sound(input, InPool)
    BY <1>1 DEF Sound, ChannelsOf, FramePlaces
  <1>3. \A f \in InPool : input.place[f] = "free" /\ f # NoFrame
    BY <1>1, CapturerAssumption
  <1> QED
    BY <1>2, <1>3 DEF Init, InputOwners, CapInit, UI!ProcInit

LEMMA InputPlaces ==
    ASSUME InputOwners
    PROVE  input.place \in [InPool -> FramePlaces] /\ NoFrame \notin InPool
  BY NoneAssumption, CapturerAssumption DEF InputOwners, Sound, ChannelsOf

\* A step that leaves the buffer alone, and each thread with the frame it has.
LEMMA InputKept ==
    ASSUME InputOwners, UNCHANGED <<input, capFrame, procIn>>,
           capPc' \in {"copy", "push"} <=> capPc \in {"copy", "push"},
           procPc' \in {"borrow", "swap", "notify", "filter", "push", "return"}
               <=> procPc \in {"borrow", "swap", "notify", "filter", "push", "return"}
    PROVE  InputOwners'
  BY DEF InputOwners

\* The capture thread's part of it, and a step of the thread.
Filling ==
    /\ Sound(input, InPool)
    /\ capFrame \in InPool \cup {NoFrame}
    /\ capFrame # NoFrame <=> capPc \in {"copy", "push"}
    /\ \A f \in InPool : input.place[f] = "filling" <=> f = capFrame

LEMMA FillingPlaces ==
    ASSUME Filling
    PROVE  input.place \in [InPool -> FramePlaces] /\ NoFrame \notin InPool
  BY CapturerAssumption DEF Filling, Sound, ChannelsOf

LEMMA FillingCapture ==
    ASSUME Filling, CapStep
    PROVE  /\ Filling'
           /\ \A f \in InPool : input'.place[f] = "reading" <=> input.place[f] = "reading"
  <1> USE FillingPlaces
  <1>1. CASE CapHead \/ SelectTimeout \/ CaptureBreaks \/ Dequeue \/ DropImage
             \/ Copy \/ Requeue
    <2>1. UNCHANGED <<input, capFrame>>
      BY <1>1 DEF CapHead, SelectTimeout, CaptureBreaks, Dequeue, DropImage,
                  Copy, Requeue
    <2>2. capPc' \in {"copy", "push"} <=> capPc \in {"copy", "push"}
      BY <1>1 DEF CapHead, SelectTimeout, CaptureBreaks, Dequeue, DropImage,
                  Copy, Requeue
    <2> QED
      BY <2>1, <2>2 DEF Filling
  <1>2. CASE BorrowInput
    <2>1. PICK f \in InPool : /\ input.place[f] = "free" /\ input' = Moved(input, f, "filling")
                              /\ capFrame' = f
      BY <1>2 DEF BorrowInput, In!At, In!Borrowed, Moved
    <2>2. /\ Sound(input', InPool) /\ input'.place = [input.place EXCEPT ![f] = "filling"]
      BY <2>1, Somewhere, MoveSound DEF Filling
    <2>3. capPc = "borrow" /\ capPc' = "copy"
      BY <1>2 DEF BorrowInput
    <2> QED
      BY <2>1, <2>2, <2>3 DEF Filling
  <1>3. CASE PushInput
    <2>1. /\ input' = Put(input, capFrame) /\ capFrame' = NoFrame
          /\ capPc = "push" /\ capPc' = "requeue"
      BY <1>3 DEF PushInput, In!Pushed, Put
    <2>2. capFrame \in InPool /\ input.place[capFrame] = "filling"
      BY <2>1 DEF Filling
    <2>3. Sound(input', InPool) /\ input'.place = [input.place EXCEPT ![capFrame] = "queued"]
      BY <2>1, <2>2, PushSound DEF Filling
    <2> QED
      BY <2>1, <2>2, <2>3 DEF Filling
  <1> QED
    BY <1>1, <1>2, <1>3 DEF CapStep

LEMMA InputCapture ==
    ASSUME InputOwners, CaptureThread
    PROVE  InputOwners'
  <1>1. UNCHANGED <<procIn, procPc>> /\ CapStep
    BY DEF CaptureThread, CapAct, procOwn
  <1>2. Filling
    BY DEF InputOwners, Filling
  <1>3. /\ Filling'
        /\ \A f \in InPool : input'.place[f] = "reading" <=> input.place[f] = "reading"
    BY <1>1, <1>2, FillingCapture
  <1> QED
    BY <1>1, <1>3, InputPlaces DEF InputOwners, Filling

\* pop(), giveBack() and forceNotify() as the processor and main() call them.
LEMMA InputProcessor ==
    ASSUME InputOwners, UNCHANGED <<capPc, capFrame>>, UI!ProcStep \/ UI!StopNotify
    PROVE  InputOwners'
  <1> USE InputPlaces
  <1>1. CASE UI!LoopHead \/ UI!PopThrows \/ UI!BorrowOutput \/ UI!Swap \/ UI!NotifySwap \/ UI!Filter
             \/ UI!PushOutput
    <2>1. UNCHANGED <<input, procIn>>
      BY <1>1 DEF UI!LoopHead, UI!PopThrows, UI!BorrowOutput, UI!Swap, UI!NotifySwap, UI!Filter,
                  UI!PushOutput, UI!channelVars
    <2>2. procPc' \in {"borrow", "swap", "notify", "filter", "push", "return"}
              <=> procPc \in {"borrow", "swap", "notify", "filter", "push", "return"}
      BY <1>1 DEF UI!LoopHead, UI!PopThrows, UI!BorrowOutput, UI!Swap, UI!NotifySwap, UI!Filter,
                  UI!PushOutput
    <2> QED
      BY <2>1, <2>2, InputKept
  <1>2. CASE UI!PopInput
    <2> PICK h : h = Head(input.queue)
      OBVIOUS
    <2>1. /\ input.queue # << >> /\ procIn' = h /\ procPc = "pop" /\ procPc' = "borrow"
          /\ input' = [input EXCEPT !.place[Head(input.queue)] = "reading", !.queue = Tail(@)]
      BY <1>2 DEF UI!PopInput, UI!In!CanPop, UI!In!Popped
    <2>2. /\ Sound(input', InPool) /\ h \in InPool /\ input.place[h] = "queued"
          /\ input'.place = [input.place EXCEPT ![h] = "reading"]
      BY <2>1, PopSound DEF InputOwners
    <2> QED
      BY <2>1, <2>2 DEF InputOwners
  <1>3. CASE UI!SkipFrame \/ UI!ReturnInput
    <2>1. /\ input' = Moved(input, procIn, "free") /\ procIn' = NoFrame
          /\ procPc \in {"borrow", "return"} /\ procPc' = "head"
      BY <1>3 DEF UI!SkipFrame, UI!ReturnInput, UI!In!Returned, Moved
    <2>2. procIn \in InPool /\ input.place[procIn] = "reading"
      BY <2>1 DEF InputOwners
    <2>3. Sound(input', InPool) /\ input'.place = [input.place EXCEPT ![procIn] = "free"]
      BY <2>1, <2>2, Somewhere, MoveSound DEF InputOwners
    <2> QED
      BY <2>1, <2>2, <2>3 DEF InputOwners
  <1>4. CASE UI!StopNotify
    <2>1. input' = [input EXCEPT !.closed = TRUE] /\ UNCHANGED <<procPc, procIn>>
      BY <1>4 DEF UI!StopNotify, UI!In!Closed, UI!threadVars
    <2>2. Sound(input', InPool) /\ input'.place = input.place
      BY <2>1, CloseSound DEF InputOwners
    <2> QED
      BY <2>1, <2>2 DEF InputOwners
  <1> QED
    BY <1>1, <1>2, <1>3, <1>4 DEF UI!ProcStep

LEMMA InputOwnersStep == InputOwners /\ [Next]_vars => InputOwners'
  <1> SUFFICES ASSUME InputOwners, [Next]_vars PROVE InputOwners'
    OBVIOUS
  <1>1. CASE UNCHANGED vars
    BY <1>1, InputKept DEF vars, capOwn, procOwn
  <1>2. CASE CaptureThread
    BY <1>2, InputCapture
  <1>3. CASE ProcessorThread
    BY <1>3, InputProcessor DEF ProcessorThread, ProcAct, capOwn
  <1>4. CASE UiThread
    <2>1. UNCHANGED <<input, procIn, procPc, capPc, capFrame>>
      BY <1>4 DEF UiThread, UiAct, capOwn, UI!UiHead, UI!UiNothing, UI!UiApplying, UI!UiError,
                  UI!UiEof, UI!UiApply, UI!BeginEdit, UI!FinishEdit, UI!EndEdit, UI!Commit,
                  UI!CommitWait, UI!procVars, UI!channelVars, UI!threadVars
    <2> QED
      BY <2>1, InputKept
  <1>5. CASE TxThread \/ LoopThread \/ LibraryThreads
    BY <1>5, InputKept DEF TxThread, LoopThread, LibraryThreads, TxAct, capOwn, procOwn
  <1>6. CASE Camera \/ CameraFails
    BY <1>6, InputKept DEF Camera, CameraFails, CapAct, procOwn, Complete, QueueError, captureVars
  <1>7. CASE Signal \/ CheckStop \/ Configure
    BY <1>7, InputKept DEF Signal, CheckStop, Configure, OthersUnchanged, capOwn, procOwn
  <1>8. CASE StartAll
    <2>1. CASE CapAct(OpenDevice) \/ CapAct(StartCapture)
      BY <2>1, InputKept DEF CapAct, procOwn, OpenDevice, StartCapture, captureVars
    <2>2. CASE ProcAct(UI!Start)
      BY <2>2, InputKept DEF ProcAct, capOwn, UI!Start, UI!channelVars
    <2>3. CASE TxAct(Tx!StartStreamer)
      BY <2>3, InputKept DEF TxAct, capOwn, procOwn
    <2>4. CASE UiAct(UI!StartUi)
      BY <2>4, InputKept DEF UiAct, capOwn, UI!StartUi, UI!procVars, UI!channelVars, UI!threadVars
    <2> QED
      BY <1>8, <2>1, <2>2, <2>3, <2>4 DEF StartAll
  <1>9. CASE StopAll
    <2>1. CASE UiAct(UI!StopUi)
      BY <2>1, InputKept DEF UiAct, capOwn, UI!StopUi, UI!procVars, UI!channelVars, UI!threadVars
    <2>2. CASE OthersUnchanged
      BY <2>2, InputKept DEF OthersUnchanged, capOwn, procOwn
    <2>3. CASE TxAct(Tx!StopStreaming) \/ TxAct(Tx!CloseOutput) \/ TxAct(Tx!QuitLoop)
               \/ TxAct(Tx!UnrefAppsrc)
      BY <2>3, InputKept DEF TxAct, capOwn, procOwn
    <2>4. CASE ProcAct(UI!StopRequest)
      BY <2>4, InputKept DEF ProcAct, capOwn, UI!StopRequest, UI!channelVars
    <2>5. CASE ProcAct(UI!StopNotify)
      BY <2>5, InputProcessor DEF ProcAct, capOwn
    <2>6. CASE CapAct(StopCapture) \/ CapAct(DrainTurn \/ DrainBreaks) \/ CapAct(StreamOff)
      BY <2>6, InputKept DEF CapAct, procOwn, StopCapture, DrainTurn, DrainBreaks, StreamOff,
                                captureVars
    <2> QED
      BY <1>9, <2>1, <2>2, <2>3, <2>4, <2>5, <2>6 DEF StopAll, Joins
  <1> QED
    BY <1>1, <1>2, <1>3, <1>4, <1>5, <1>6, <1>7, <1>8, <1>9 DEF Next, MainThread, Terminated

LEMMA InputOwnersInvariant == Spec => []InputOwners
  BY InputOwnersInit, InputOwnersStep, PTL DEF Spec

-----------------------------------------------------------------------------
(* The frames of the output buffer                                         *)

Beats == [frame : OutPool \cup {NoFrame}, pts : Nat]

\* GStreamer holds frame f, in m_appsrc or in one that was m_appsrc before.
InGst(f)   == \E k \in 1 .. Len(gst) : gst[k].frame = f
HasLent(f) == InGst(f) \/ f \in oldGst

\* What the processor fills is in the filling state; what the tx thread or
\* GStreamer reads is in the reading state, and only one of them has it.
OutputOwners ==
    /\ Sound(output, OutPool)
    /\ procOut \in OutPool \cup {NoFrame} /\ txFrame \in OutPool \cup {NoFrame}
    /\ timestamp \in Nat /\ gst \in Seq(Beats) /\ oldGst \subseteq OutPool
    /\ procOut # NoFrame <=> procPc \in {"swap", "notify", "filter", "push"}
    /\ \A f \in OutPool : output.place[f] = "filling" <=> f = procOut
    /\ txPc \in {"appsrc", "clients", "flush", "return", "wrap"} => txFrame # NoFrame
    /\ txPc \in {"off", "head", "pop", "exited"} => txFrame = NoFrame
    /\ txFrame # NoFrame => output.place[txFrame] = "reading" /\ ~HasLent(txFrame)
    /\ \A f \in OutPool : output.place[f] = "reading" <=> f = txFrame \/ HasLent(f)
    /\ \A f \in oldGst : ~InGst(f)
    /\ \A j, k \in 1 .. Len(gst) :
          j # k /\ gst[j].frame # NoFrame => gst[j].frame # gst[k].frame

LEMMA OutputPlaces ==
    ASSUME OutputOwners
    PROVE  /\ output.place \in [OutPool -> FramePlaces] /\ NoFrame \notin OutPool
           /\ Len(gst) \in Nat
           /\ \A k \in 1 .. Len(gst) : gst[k].frame \in OutPool \cup {NoFrame}
  <1>1. \A k \in 1 .. Len(gst) : gst[k] \in Beats
    BY ElementOfSeq DEF OutputOwners
  <1> QED
    BY <1>1, NoneAssumption, CapturerAssumption, LenProperties DEF OutputOwners, Sound, ChannelsOf, Beats

LEMMA OutputOwnersInit == Init => OutputOwners
  <1> SUFFICES ASSUME Init PROVE OutputOwners
    OBVIOUS
  <1>1. output = [place |-> [f \in OutPool |-> "free"], queue |-> << >>, closed |-> FALSE]
    BY DEF Init, UI!ProcInit, UI!Out!NewChannel
  <1>2. Sound(output, OutPool)
    BY <1>1 DEF Sound, ChannelsOf, FramePlaces
  <1>3. gst = << >> /\ << >> \in Seq(Beats) /\ Len(gst) = 0
    BY EmptySeq DEF Init, Tx!StreamerInit
  <1>4. \A f \in OutPool : output.place[f] = "free" /\ f # NoFrame
    BY <1>1, NoneAssumption
  <1> QED
    BY <1>2, <1>3, <1>4 DEF Init, OutputOwners, InGst, HasLent, UI!ProcInit, Tx!StreamerInit

\* A step that leaves the buffer alone, and everybody with the frame he has.
LEMMA OutputKept ==
    ASSUME OutputOwners, UNCHANGED <<output, procOut, txFrame, timestamp, gst, oldGst>>,
           procPc' \in {"swap", "notify", "filter", "push"}
               <=> procPc \in {"swap", "notify", "filter", "push"},
           \/ txPc' = txPc
           \/ /\ txPc \in {"appsrc", "clients", "flush", "return", "wrap"}
              /\ txPc' \in {"clients", "flush", "return", "wrap", "send"}
           \/ txPc \in {"off", "head", "pop", "exited"} /\ txPc' \in {"head", "pop", "exited"}
    PROVE  OutputOwners'
  BY DEF OutputOwners, InGst, HasLent

LEMMA OutputProcessor ==
    ASSUME OutputOwners, UNCHANGED <<txPc, txFrame, timestamp, gst, oldGst>>, UI!ProcStep
    PROVE  OutputOwners'
  <1> USE OutputPlaces
  <1>1. CASE UI!LoopHead \/ UI!PopInput \/ UI!PopThrows \/ UI!SkipFrame \/ UI!Swap \/ UI!NotifySwap
             \/ UI!Filter \/ UI!ReturnInput
    <2>1. UNCHANGED <<output, procOut>>
      BY <1>1 DEF UI!LoopHead, UI!PopInput, UI!PopThrows, UI!SkipFrame, UI!Swap, UI!NotifySwap,
                  UI!Filter, UI!ReturnInput, UI!channelVars
    <2>2. procPc' \in {"swap", "notify", "filter", "push"}
              <=> procPc \in {"swap", "notify", "filter", "push"}
      BY <1>1 DEF UI!LoopHead, UI!PopInput, UI!PopThrows, UI!SkipFrame, UI!Swap, UI!NotifySwap,
                  UI!Filter, UI!ReturnInput
    <2> QED
      BY <2>1, <2>2, OutputKept
  <1>2. CASE UI!BorrowOutput
    <2>1. PICK f \in OutPool : /\ output.place[f] = "free" /\ output' = Moved(output, f, "filling")
                               /\ procOut' = f
      BY <1>2 DEF UI!BorrowOutput, UI!Out!At, UI!Out!Borrowed, Moved
    <2>2. Sound(output', OutPool) /\ output'.place = [output.place EXCEPT ![f] = "filling"]
      BY <2>1, Somewhere, MoveSound DEF OutputOwners
    <2>3. procPc = "borrow" /\ procPc' = "swap"
      BY <1>2 DEF UI!BorrowOutput
    <2>4. \A g : (InGst(g)' <=> InGst(g)) /\ (HasLent(g)' <=> HasLent(g))
      BY DEF InGst, HasLent
    <2> QED
      BY <2>1, <2>2, <2>3, <2>4 DEF OutputOwners
  <1>3. CASE UI!PushOutput
    <2>1. /\ output' = Put(output, procOut) /\ procOut' = NoFrame
          /\ procPc = "push" /\ procPc' = "return"
      BY <1>3 DEF UI!PushOutput, UI!Out!Pushed, Put
    <2>2. procOut \in OutPool /\ output.place[procOut] = "filling"
      BY <2>1 DEF OutputOwners
    <2>3. Sound(output', OutPool) /\ output'.place = [output.place EXCEPT ![procOut] = "queued"]
      BY <2>1, <2>2, PushSound DEF OutputOwners
    <2>4. \A g : (InGst(g)' <=> InGst(g)) /\ (HasLent(g)' <=> HasLent(g))
      BY DEF InGst, HasLent
    <2> QED
      BY <2>1, <2>2, <2>3, <2>4 DEF OutputOwners
  <1> QED
    BY <1>1, <1>2, <1>3 DEF UI!ProcStep

\* The tx thread pops a frame.
LEMMA OutputPop ==
    ASSUME OutputOwners, UNCHANGED <<procPc, procOut>>, Tx!TxPop
    PROVE  OutputOwners'
  <1> USE OutputPlaces
  <1> PICK h : h = Head(output.queue)
    OBVIOUS
  <1>1. /\ output.queue # << >>
        /\ output' = [output EXCEPT !.place[Head(output.queue)] = "reading", !.queue = Tail(@)]
        /\ txFrame' = h /\ txPc = "pop" /\ txPc' = "appsrc"
        /\ UNCHANGED <<timestamp, gst, oldGst>>
    BY DEF Tx!TxPop, Tx!Out!CanPop, Tx!Out!Popped, Tx!libVars
  <1>2. /\ Sound(output', OutPool) /\ h \in OutPool /\ output.place[h] = "queued"
        /\ output'.place = [output.place EXCEPT ![h] = "reading"]
    BY <1>1, PopSound DEF OutputOwners
  <1>3. \A g : (InGst(g)' <=> InGst(g)) /\ (HasLent(g)' <=> HasLent(g))
    BY <1>1 DEF InGst, HasLent
  <1> QED
    BY <1>1, <1>2, <1>3 DEF OutputOwners

\* Frames that the tx thread or GStreamer had are given back; what GStreamer
\* keeps is part of what it had.
LEMMA OutputFreed ==
    ASSUME OutputOwners, UNCHANGED <<procPc, procOut>>, NEW frames,
           output' = Freed(output, OutPool, frames),
           \A f \in OutPool : f \in frames => f = txFrame \/ HasLent(f),
           txFrame' \in {txFrame, NoFrame}, txFrame' # NoFrame => txFrame' \notin frames,
           txFrame' = NoFrame => txFrame \in frames \cup {NoFrame},
           \A f \in OutPool : HasLent(f)' <=> HasLent(f) /\ f \notin frames,
           oldGst' \subseteq oldGst, \A f \in OutPool : InGst(f)' => InGst(f),
           gst' \in Seq(Beats), timestamp' \in Nat,
           \A j, k \in 1 .. Len(gst') :
               j # k /\ gst'[j].frame # NoFrame => gst'[j].frame # gst'[k].frame,
           txPc' \in {"appsrc", "clients", "flush", "return", "wrap"} => txFrame' # NoFrame,
           txPc' \in {"off", "head", "pop", "exited"} => txFrame' = NoFrame
    PROVE  OutputOwners'
  <1> USE OutputPlaces
  <1>1. \A f \in OutPool : f \in frames => output.place[f] = "reading"
    BY DEF OutputOwners
  <1>2. /\ Sound(output', OutPool)
        /\ output'.place = [f \in OutPool |-> IF f \in frames THEN "free" ELSE output.place[f]]
    BY <1>1, FreeSound DEF OutputOwners
  <1>3. procOut # NoFrame => procOut \in OutPool /\ procOut \notin frames
    BY <1>1 DEF OutputOwners
  <1>4. /\ txFrame' # NoFrame => txFrame' \in OutPool /\ output'.place[txFrame'] = "reading"
        /\ \A f \in OutPool : f = txFrame' => ~HasLent(f)'
    BY <1>2 DEF OutputOwners
  <1>5. \A f \in OutPool : output'.place[f] = "reading" <=> f = txFrame' \/ HasLent(f)'
    BY <1>2 DEF OutputOwners
  <1>6. \A f \in oldGst' : ~InGst(f)'
    BY DEF OutputOwners
  <1> QED
    BY <1>2, <1>3, <1>4, <1>5, <1>6 DEF OutputOwners, HasLent, InGst

LEMMA OutputFlush ==
    ASSUME OutputOwners, UNCHANGED <<procPc, procOut>>, Tx!TxFlush
    PROVE  OutputOwners'
  <1> USE OutputPlaces
  <1>1. /\ timestamp' = 0 /\ txPc = "flush" /\ txPc' = "return" /\ txFrame' = txFrame
        /\ txFrame # NoFrame
    BY DEF Tx!TxFlush, OutputOwners
  <1>2. CASE txAppsrc # "replaced"
    <2>1. /\ output' = Freed(output, OutPool, Tx!Lent(gst)) /\ gst' = << >>
          /\ oldGst' = oldGst
      BY <1>2 DEF Tx!TxFlush, Tx!ReturnAll, Freed
    <2>2. << >> \in Seq(Beats) /\ Len(gst') = 0
      BY <2>1, EmptySeq
    <2>3. \A f : ~InGst(f)' /\ (HasLent(f)' <=> f \in oldGst)
      BY <2>1, <2>2 DEF InGst, HasLent
    <2>4. \A f \in OutPool : f \in Tx!Lent(gst) <=> InGst(f)
      BY DEF Tx!Lent, InGst
    <2>5. txFrame # NoFrame => txFrame \notin Tx!Lent(gst)
      BY DEF OutputOwners, Tx!Lent, InGst, HasLent
    <2>6. /\ \A f \in OutPool : f \in Tx!Lent(gst) => f = txFrame \/ HasLent(f)
          /\ \A f \in OutPool : HasLent(f)' <=> HasLent(f) /\ f \notin Tx!Lent(gst)
      BY <2>3, <2>4 DEF HasLent, OutputOwners
    <2> QED
      BY <1>1, <2>1, <2>2, <2>3, <2>5, <2>6, OutputFreed
  <1>3. CASE txAppsrc = "replaced"
    <2>1. PICK frames \in SUBSET oldGst :
             oldGst' = oldGst \ frames /\ output' = Freed(output, OutPool, frames)
      BY <1>3 DEF Tx!TxFlush, Tx!ReturnAll, Freed
    <2>2. gst' = gst
      BY <1>3 DEF Tx!TxFlush
    <2>3. \A f : InGst(f)' <=> InGst(f)
      BY <2>2 DEF InGst
    <2>4. /\ \A f \in OutPool : f \in frames => f = txFrame \/ HasLent(f)
          /\ \A f \in OutPool : HasLent(f)' <=> HasLent(f) /\ f \notin frames
          /\ txFrame \notin frames
      BY <1>1, <2>1, <2>3 DEF HasLent, OutputOwners
    <2>5. /\ gst' \in Seq(Beats)
          /\ \A j, k \in 1 .. Len(gst') :
                 j # k /\ gst'[j].frame # NoFrame => gst'[j].frame # gst'[k].frame
      BY <2>2 DEF OutputOwners
    <2> QED
      BY <1>1, <2>1, <2>3, <2>4, <2>5, OutputFreed
  <1> QED
    BY <1>2, <1>3

LEMMA OutputTx ==
    ASSUME OutputOwners, UNCHANGED <<procPc, procOut>>, Tx!TxStep
    PROVE  OutputOwners'
  <1> USE OutputPlaces
  <1>1. CASE Tx!TxHead \/ Tx!TxPopThrows \/ Tx!TxReadAppsrc \/ Tx!TxReadClients
    <2>1. UNCHANGED <<output, txFrame, timestamp, gst, oldGst>>
      BY <1>1 DEF Tx!TxHead, Tx!TxPopThrows, Tx!TxReadAppsrc, Tx!TxReadClients, Tx!libVars
    <2>2. \/ /\ txPc \in {"appsrc", "clients", "flush", "return", "wrap"}
             /\ txPc' \in {"clients", "flush", "return", "wrap", "send"}
          \/ txPc \in {"off", "head", "pop", "exited"} /\ txPc' \in {"head", "pop", "exited"}
      BY <1>1 DEF Tx!TxHead, Tx!TxPopThrows, Tx!TxReadAppsrc, Tx!TxReadClients
    <2> QED
      BY <2>1, <2>2, OutputKept
  <1>2. CASE Tx!TxPop
    BY <1>2, OutputPop
  <1>3. CASE Tx!TxFlush
    BY <1>3, OutputFlush
  <1>4. CASE Tx!TxReturn \/ (Tx!TxWrap /\ ~Tx!ZeroCopy)
    <2>1. /\ output' = Tx!Out!Returned(output, txFrame) /\ txFrame' = NoFrame
          /\ UNCHANGED <<timestamp, gst, oldGst>>
          /\ txPc \in {"return", "wrap"} /\ txPc' \in {"head", "send"}
      BY <1>4 DEF Tx!TxReturn, Tx!TxWrap, Tx!libVars
    <2>2. txFrame \in OutPool /\ output.place[txFrame] = "reading" /\ ~HasLent(txFrame)
      BY <2>1 DEF OutputOwners
    <2>3. output' = Moved(output, txFrame, "free")
      BY <2>1 DEF Tx!Out!Returned, Moved
    <2>4. Sound(output', OutPool) /\ output'.place = [output.place EXCEPT ![txFrame] = "free"]
      BY <2>2, <2>3, Somewhere, MoveSound DEF OutputOwners
    <2>5. \A g : (InGst(g)' <=> InGst(g)) /\ (HasLent(g)' <=> HasLent(g))
      BY <2>1 DEF InGst, HasLent
    <2> QED
      BY <2>1, <2>2, <2>4, <2>5 DEF OutputOwners
  <1>5. CASE Tx!TxWrap /\ Tx!ZeroCopy
    BY <1>5, OutputKept DEF Tx!TxWrap, Tx!libVars
  <1>6. CASE Tx!TxSend /\ txAppsrc # "replaced"
    <2> PICK b : b = [frame |-> txFrame, pts |-> timestamp]
      OBVIOUS
    <2>1. /\ gst' = Append(gst, b) /\ txFrame' = NoFrame /\ txPc' = "head" /\ output' = output
          /\ timestamp' \in Nat /\ oldGst' = oldGst
      BY <1>6 DEF Tx!TxSend, Tx!Tick, OutputOwners
    <2>2. b \in Beats /\ b.frame = txFrame
      BY DEF Beats, OutputOwners
    <2>3. /\ gst' \in Seq(Beats) /\ Len(gst') = Len(gst) + 1
          /\ \A k \in 1 .. Len(gst) : gst'[k] = gst[k]
          /\ gst'[Len(gst) + 1] = b
      BY <2>1, <2>2, AppendProperties DEF OutputOwners
    <2>4. \A k \in 1 .. Len(gst') : k \in 1 .. Len(gst) \/ k = Len(gst) + 1
      BY <2>3
    <2>5. \A f : InGst(f)' <=> InGst(f) \/ f = txFrame
      BY <2>2, <2>3, <2>4 DEF InGst
    <2>6. ASSUME NEW j \in 1 .. Len(gst'), NEW k \in 1 .. Len(gst'), j # k, gst'[j].frame # NoFrame
          PROVE  gst'[j].frame # gst'[k].frame
      BY <2>2, <2>3, <2>4, <2>6 DEF OutputOwners, InGst, HasLent
    <2>7. \A f \in OutPool : output'.place[f] = "reading" <=> f = txFrame' \/ HasLent(f)'
      BY <2>1, <2>5 DEF OutputOwners, HasLent
    <2>8. \A f \in oldGst' : ~InGst(f)'
      BY <2>1, <2>5 DEF OutputOwners, HasLent
    <2> QED
      BY <2>1, <2>3, <2>6, <2>7, <2>8 DEF OutputOwners
  <1>7. CASE Tx!TxSend /\ txAppsrc = "replaced"
    <2>1. /\ gst' = gst /\ txFrame' = NoFrame /\ txPc' = "head" /\ output' = output
          /\ timestamp' \in Nat /\ oldGst' = oldGst \cup ({txFrame} \ {NoFrame})
      BY <1>7 DEF Tx!TxSend, Tx!Tick, OutputOwners
    <2>2. \A f : InGst(f)' <=> InGst(f)
      BY <2>1 DEF InGst
    <2>3. \A f \in OutPool : output'.place[f] = "reading" <=> f = txFrame' \/ HasLent(f)'
      BY <2>1, <2>2 DEF OutputOwners, HasLent
    <2>4. \A f \in oldGst' : ~InGst(f)' /\ f \in OutPool
      BY <2>1, <2>2 DEF OutputOwners, HasLent
    <2> QED
      BY <2>1, <2>3, <2>4 DEF OutputOwners
  <1>8. CASE Tx!TxSendRefused
    <2>1. /\ output' = Freed(output, OutPool, {txFrame}) /\ txFrame' = NoFrame /\ gst' = gst
          /\ txPc' = "head" /\ timestamp' \in Nat /\ oldGst' = oldGst
      BY <1>8 DEF Tx!TxSendRefused, Tx!ReturnAll, Freed, Tx!Tick, Tx!libVars, OutputOwners
    <2>2. \A f : (InGst(f)' <=> InGst(f)) /\ (HasLent(f)' <=> HasLent(f))
      BY <2>1 DEF InGst, HasLent
    <2>3. \A f \in OutPool : HasLent(f) => f # txFrame
      BY DEF OutputOwners
    <2>4. /\ gst' \in Seq(Beats)
          /\ \A j, k \in 1 .. Len(gst') :
                 j # k /\ gst'[j].frame # NoFrame => gst'[j].frame # gst'[k].frame
      BY <2>1 DEF OutputOwners
    <2> QED
      BY <2>1, <2>2, <2>3, <2>4, OutputFreed
  <1> QED
    BY <1>1, <1>2, <1>3, <1>4, <1>5, <1>6, <1>7, <1>8 DEF Tx!TxStep

\* GStreamer gives a frame back when it has played the buffer out.
LEMMA OutputPlayed ==
    ASSUME OutputOwners, UNCHANGED <<procPc, procOut>>, Tx!PlayOut
    PROVE  OutputOwners'
  <1> USE OutputPlaces
  <1> PICK b : b = Head(gst)
    OBVIOUS
  <1>1. /\ gst # << >> /\ gst' = Tail(gst)
        /\ output' = Freed(output, OutPool, Tx!Lent(<<b>>))
        /\ UNCHANGED <<txPc, txFrame, timestamp, oldGst>>
    BY DEF Tx!PlayOut, Tx!ReturnAll, Freed, Tx!txVars
  <1>2. /\ Len(gst) # 0 /\ b = gst[1] /\ gst' \in Seq(Beats) /\ Len(gst') = Len(gst) - 1
        /\ \A k \in 1 .. Len(gst') : gst'[k] = gst[k + 1]
    BY <1>1, HeadTailProperties, EmptySeq DEF OutputOwners
  <1>3. \A f : f \in Tx!Lent(<<b>>) <=> f = b.frame /\ f # NoFrame
    BY DEF Tx!Lent
  <1>4. InGst(b.frame)
    BY <1>2 DEF InGst
  <1>5. \A f : InGst(f)' => InGst(f)
    BY <1>2 DEF InGst
  <1>6. b.frame # NoFrame => \A k \in 1 .. Len(gst') : gst'[k].frame # b.frame
    BY <1>2 DEF OutputOwners
  <1>7. \A j, k \in 1 .. Len(gst') :
            j # k /\ gst'[j].frame # NoFrame => gst'[j].frame # gst'[k].frame
    <2> SUFFICES ASSUME NEW j \in 1 .. Len(gst'), NEW k \in 1 .. Len(gst'), j # k,
                        gst'[j].frame # NoFrame
                 PROVE  gst'[j].frame # gst'[k].frame
      OBVIOUS
    <2>1. j + 1 \in 1 .. Len(gst) /\ k + 1 \in 1 .. Len(gst) /\ j + 1 # k + 1
      BY <1>2
    <2>2. gst'[j] = gst[j + 1] /\ gst'[k] = gst[k + 1]
      BY <1>2
    <2> QED
      BY <2>1, <2>2 DEF OutputOwners
  <1>8. \A f \in OutPool : InGst(f)' <=> InGst(f) /\ f \notin Tx!Lent(<<b>>)
    <2>1. \A f \in OutPool : InGst(f)' => f \notin Tx!Lent(<<b>>)
      BY <1>3, <1>6 DEF InGst
    <2>2. ASSUME NEW f \in OutPool, NEW k \in 1 .. Len(gst), gst[k].frame = f, f # b.frame
          PROVE  InGst(f)'
      <3>1. k # 1 /\ k - 1 \in 1 .. Len(gst') /\ gst'[k - 1] = gst[k]
        BY <1>2, <2>2
      <3> QED
        BY <2>2, <3>1 DEF InGst
    <2> QED
      BY <1>3, <1>5, <2>1, <2>2 DEF InGst
  <1>9. /\ txFrame # NoFrame => txFrame \notin Tx!Lent(<<b>>)
        /\ \A f \in OutPool : f \in Tx!Lent(<<b>>) => f = txFrame \/ HasLent(f)
        /\ \A f \in OutPool : HasLent(f)' <=> HasLent(f) /\ f \notin Tx!Lent(<<b>>)
    BY <1>1, <1>3, <1>4, <1>8 DEF OutputOwners, HasLent
  <1>10. /\ timestamp' \in Nat
         /\ txPc' \in {"appsrc", "clients", "flush", "return", "wrap"} => txFrame' # NoFrame
         /\ txPc' \in {"off", "head", "pop", "exited"} => txFrame' = NoFrame
    BY <1>1 DEF OutputOwners
  <1> QED
    BY <1>1, <1>2, <1>5, <1>7, <1>9, <1>10, OutputFreed

\* So does one that was m_appsrc before.
LEMMA OutputPlayedOld ==
    ASSUME OutputOwners, UNCHANGED <<procPc, procOut>>, Tx!PlayOutOld
    PROVE  OutputOwners'
  <1> USE OutputPlaces
  <1>1. PICK h \in oldGst : oldGst' = oldGst \ {h} /\ output' = Freed(output, OutPool, {h})
    BY DEF Tx!PlayOutOld, Tx!ReturnAll, Freed
  <1>2. UNCHANGED <<txPc, txFrame, timestamp, gst>>
    BY DEF Tx!PlayOutOld, Tx!txVars
  <1>3. \A f : InGst(f)' <=> InGst(f)
    BY <1>2 DEF InGst
  <1>4. /\ \A f \in OutPool : f \in {h} => f = txFrame \/ HasLent(f)
        /\ \A f \in OutPool : HasLent(f)' <=> HasLent(f) /\ f \notin {h}
        /\ txFrame \notin {h}
    BY <1>1, <1>3 DEF HasLent, OutputOwners
  <1>5. /\ gst' \in Seq(Beats) /\ timestamp' \in Nat
        /\ \A j, k \in 1 .. Len(gst') :
               j # k /\ gst'[j].frame # NoFrame => gst'[j].frame # gst'[k].frame
        /\ txPc' \in {"appsrc", "clients", "flush", "return", "wrap"} => txFrame' # NoFrame
        /\ txPc' \in {"off", "head", "pop", "exited"} => txFrame' = NoFrame
    BY <1>2 DEF OutputOwners
  <1> QED
    BY <1>1, <1>2, <1>3, <1>4, <1>5, OutputFreed

\* A second media moves what m_appsrc held to the appsrcs before.
LEMMA OutputConfigured ==
    ASSUME OutputOwners, UNCHANGED <<procPc, procOut>>, Tx!OnMediaConfigure
    PROVE  OutputOwners'
  <1> USE OutputPlaces
  <1>1. /\ UNCHANGED <<output, txPc, txFrame, timestamp>>
        /\ gst' = << >> /\ oldGst' = oldGst \cup Tx!Lent(gst)
    BY DEF Tx!OnMediaConfigure
  <1>2. << >> \in Seq(Beats) /\ Len(gst') = 0
    BY <1>1, EmptySeq
  <1>3. /\ \A f \in Tx!Lent(gst) : InGst(f) /\ f \in OutPool
        /\ \A f \in OutPool : InGst(f) => f \in Tx!Lent(gst)
    BY DEF Tx!Lent, InGst
  <1>4. \A f : ~InGst(f)' /\ (f \in OutPool => (HasLent(f)' <=> HasLent(f)))
    BY <1>1, <1>2, <1>3 DEF InGst, HasLent
  <1>5. \A f : f = txFrame /\ f # NoFrame => ~HasLent(f)'
    <2>1. txFrame # NoFrame => txFrame \in OutPool /\ ~HasLent(txFrame)
      BY DEF OutputOwners
    <2> QED
      BY <1>4, <2>1
  <1>6. oldGst' \subseteq OutPool /\ gst' \in Seq(Beats)
    BY <1>1, <1>2, <1>3 DEF OutputOwners
  <1> QED
    BY <1>1, <1>2, <1>4, <1>5, <1>6 DEF OutputOwners, HasLent, InGst

LEMMA OutputOwnersStep == OutputOwners /\ [Next]_vars => OutputOwners'
  <1> SUFFICES ASSUME OutputOwners, [Next]_vars PROVE OutputOwners'
    OBVIOUS
  <1> USE DEF procOwn, txOwn
  <1>1. CASE UNCHANGED vars
    BY <1>1, OutputKept DEF vars
  <1>2. CASE CaptureThread \/ Camera \/ CameraFails
    BY <1>2, OutputKept DEF CaptureThread, Camera, CameraFails, CapAct
  <1>3. CASE ProcessorThread
    BY <1>3, OutputProcessor DEF ProcessorThread, ProcAct
  <1>4. CASE UiThread
    <2>1. UNCHANGED <<output, procOut, procPc>>
      BY <1>4 DEF UiThread, UiAct, UI!UiHead, UI!UiNothing, UI!UiApplying, UI!UiError,
                  UI!UiEof, UI!UiApply, UI!BeginEdit, UI!FinishEdit, UI!EndEdit, UI!Commit,
                  UI!CommitWait, UI!procVars, UI!channelVars, UI!threadVars
    <2>2. UNCHANGED txOwn
      BY <1>4 DEF UiThread, UiAct
    <2> QED
      BY <2>1, <2>2, OutputKept
  <1>5. CASE TxThread \/ LoopThread
    <2>1. CASE TxThread
      BY <2>1, OutputTx DEF TxThread, TxAct
    <2>2. CASE LoopThread
      BY <2>2, OutputKept DEF LoopThread, TxAct, Tx!LoopStep, Tx!LoopRuns, Tx!LoopEnds, Tx!txVars
    <2> QED
      BY <1>5, <2>1, <2>2
  <1>6. CASE LibraryThreads
    <2>1. UNCHANGED <<procPc, procOut>>
      BY <1>6 DEF LibraryThreads, TxAct
    <2>2. CASE Tx!PlayOut
      BY <2>1, <2>2, OutputPlayed
    <2>3. CASE Tx!OnClientConnected \/ Tx!OnClientClosed
      BY <2>1, <2>3, OutputKept DEF Tx!OnClientConnected, Tx!OnClientClosed, Tx!txVars
    <2>4. CASE Tx!PlayOutOld
      BY <2>1, <2>4, OutputPlayedOld
    <2>5. CASE Tx!OnMediaConfigure
      BY <2>1, <2>5, OutputConfigured
    <2> QED
      BY <1>6, <2>2, <2>3, <2>4, <2>5 DEF LibraryThreads, TxAct, Tx!LibraryStep
  <1>7. CASE Signal \/ CheckStop \/ Configure
    BY <1>7, OutputKept DEF Signal, CheckStop, Configure, OthersUnchanged
  <1>8. CASE StartAll
    <2>1. CASE CapAct(OpenDevice) \/ CapAct(StartCapture)
      BY <2>1, OutputKept DEF CapAct
    <2>2. CASE ProcAct(UI!Start)
      BY <2>2, OutputKept DEF ProcAct, UI!Start, UI!channelVars
    <2>3. CASE TxAct(Tx!StartStreamer)
      BY <2>3, OutputKept DEF TxAct, Tx!StartStreamer
    <2>4. CASE UiAct(UI!StartUi)
      BY <2>4, OutputKept DEF UiAct, UI!StartUi, UI!procVars, UI!channelVars, UI!threadVars
    <2> QED
      BY <1>8, <2>1, <2>2, <2>3, <2>4 DEF StartAll
  <1>9. CASE StopAll
    <2>1. CASE UiAct(UI!StopUi)
      BY <2>1, OutputKept DEF UiAct, UI!StopUi, UI!procVars, UI!channelVars, UI!threadVars
    <2>2. CASE OthersUnchanged
      BY <2>2, OutputKept DEF OthersUnchanged
    <2>3. CASE TxAct(Tx!StopStreaming) \/ TxAct(Tx!QuitLoop) \/ TxAct(Tx!UnrefAppsrc)
      BY <2>3, OutputKept DEF TxAct, Tx!StopStreaming, Tx!QuitLoop, Tx!UnrefAppsrc, Tx!txVars, Tx!libVars
    <2>4. CASE TxAct(Tx!CloseOutput)
      <3>1. /\ output' = [output EXCEPT !.closed = TRUE]
            /\ UNCHANGED <<procPc, procOut, txPc, txFrame, timestamp, gst, oldGst>>
        BY <2>4 DEF TxAct, Tx!CloseOutput, Tx!Out!Closed, Tx!txVars, Tx!libVars
      <3>2. Sound(output', OutPool) /\ output'.place = output.place
        BY <3>1, CloseSound DEF OutputOwners
      <3> QED
        BY <3>1, <3>2 DEF OutputOwners, InGst, HasLent
    <2>5. CASE ProcAct(UI!StopRequest) \/ ProcAct(UI!StopNotify)
      BY <2>5, OutputKept DEF ProcAct, UI!StopRequest, UI!StopNotify, UI!channelVars, UI!threadVars
    <2>6. CASE CapAct(StopCapture) \/ CapAct(DrainTurn \/ DrainBreaks) \/ CapAct(StreamOff)
      BY <2>6, OutputKept DEF CapAct
    <2> QED
      BY <1>9, <2>1, <2>2, <2>3, <2>4, <2>5, <2>6 DEF StopAll, Joins
  <1> QED
    BY <1>1, <1>2, <1>3, <1>4, <1>5, <1>6, <1>7, <1>8, <1>9 DEF Next, MainThread, Terminated

LEMMA OutputOwnersInvariant == Spec => []OutputOwners
  BY OutputOwnersInit, OutputOwnersStep, PTL DEF Spec

(***************************************************************************)
(* Through all threads and both buffers: a frame that is being filled is   *)
(* with nobody else, one that is being streamed is given back only by who  *)
(* has it, and GStreamer has no frame twice.                               *)
(***************************************************************************)
THEOREM OneUserPerFrame == Spec => []FramesHaveOneUser
  <1>1. ASSUME InputOwners, OutputOwners PROVE FramesHaveOneUser
    <2>1. \A f : f \in InGStreamer <=> HasLent(f) /\ f # NoFrame
      BY <1>1, OutputPlaces DEF InGStreamer, Tx!Lent, InGst, HasLent, OutputOwners
    <2>2. \A f : f \in InGStreamer => f \in OutPool
      BY <1>1, <2>1, OutputPlaces DEF HasLent, InGst, OutputOwners
    <2>3. procIn # NoFrame => procIn # capFrame
      BY <1>1 DEF InputOwners
    <2> QED
      BY <1>1, <2>1, <2>2, <2>3 DEF OutputOwners, FramesHaveOneUser
  <1> QED
    BY <1>1, InputOwnersInvariant, OutputOwnersInvariant, PTL

-----------------------------------------------------------------------------
(* The V4L2 buffers                                                        *)

\* Outside the middle of its loop the capture thread has no buffer, a device
\* that has not been switched on has filled none, and what the thread has is
\* not the driver's.  That nothing else is missing holds until an error.
SwitchedOn == {"streaming", "error", "abandoned"}

BufferOwners ==
    /\ vb \in [Buffers -> {"app", "driver", "done"}]
    /\ done \in Seq(Buffers)
    /\ capBuf = NoBuffer <=> capPc \in {"off", "head", "select", "exited"}
    /\ capBuf # NoBuffer => capBuf \in Buffers /\ vb[capBuf] = "app"
    /\ device \in {"open", "streaming"} /\ capPc # "exited"
          => \A b \in Buffers : vb[b] = "app" <=> b = capBuf
    /\ device \in {"closed", "halfopen", "open"} => done = << >>
    /\ device \in SwitchedOn => capPc # "off"

LEMMA BufferOwnersInit == Init => BufferOwners
  BY DEF Init, CapInit, BufferOwners, SwitchedOn

\* One step of a thread, of the driver or of main() that takes, fills or gives
\* back a buffer.
LEMMA BuffersDequeue ==
    ASSUME BufferOwners, device \in {"streaming", "error"}, Dequeue
    PROVE  BufferOwners'
  <1>1. Head(done) \in Buffers /\ Tail(done) \in Seq(Buffers) /\ Head(done) # NoBuffer
    BY NoneAssumption, CapturerAssumption DEF BufferOwners, Dequeue
  <1>2. /\ vb' = [vb EXCEPT ![Head(done)] = "app"] /\ done' = Tail(done)
        /\ capBuf' = Head(done) /\ capPc' \in {"requeue", "borrow"}
        /\ capPc = "select" /\ device' = device /\ device = "streaming"
    BY DEF Dequeue, TakeDone
  <1>3. vb' \in [Buffers -> {"app", "driver", "done"}] /\ done' \in Seq(Buffers)
    BY <1>1, <1>2 DEF BufferOwners
  <1>4. \A b \in Buffers : vb'[b] = "app" <=> b = capBuf'
    <2>1. capBuf = NoBuffer /\ \A b \in Buffers : vb[b] = "app" <=> b = capBuf
      BY <1>2 DEF BufferOwners
    <2>2. \A b \in Buffers : vb'[b] = IF b = Head(done) THEN "app" ELSE vb[b]
      BY <1>2 DEF BufferOwners
    <2> QED
      BY <1>2, <2>1, <2>2, NoneAssumption, CapturerAssumption
  <1> QED
    BY <1>1, <1>2, <1>3, <1>4 DEF BufferOwners, SwitchedOn

LEMMA BuffersCapture ==
    ASSUME device \in {"streaming", "error"}, BufferOwners, CapStep
    PROVE  BufferOwners'
  <1>1. device \in {"streaming", "error"}
    OBVIOUS
  <1>2. CASE Dequeue
    BY <1>1, <1>2, BuffersDequeue
  <1>3. CASE Requeue
    <2>1. /\ vb' = IF device = "error" THEN vb ELSE [vb EXCEPT ![capBuf] = "driver"]
          /\ capBuf' = NoBuffer
          /\ capPc = "requeue" /\ capPc' = "head" /\ UNCHANGED <<done, device>>
      BY <1>3 DEF Requeue
    <2> QED
      BY <1>1, <2>1, NoneAssumption, CapturerAssumption DEF BufferOwners, SwitchedOn
  <1>4. CASE CapHead \/ SelectTimeout \/ CaptureBreaks
    BY <1>1, <1>4 DEF CapHead, SelectTimeout, CaptureBreaks, deviceVars, BufferOwners, SwitchedOn
  <1>5. CASE BorrowInput \/ DropImage \/ Copy \/ PushInput
    BY <1>1, <1>5 DEF BorrowInput, DropImage, Copy, PushInput, deviceVars,
                      BufferOwners, SwitchedOn
  <1> QED
    BY <1>2, <1>3, <1>4, <1>5 DEF CapStep

LEMMA BuffersFilled ==
    ASSUME BufferOwners, NEW tag, Complete(tag)
    PROVE  BufferOwners'
  <1>1. PICK b \in Buffers : /\ vb[b] = "driver"
                             /\ vb' = [vb EXCEPT ![b] = "done"]
                             /\ done' = Append(done, b)
    BY DEF Complete
  <1>2. device \in SwitchedOn /\ UNCHANGED <<device, capPc, capBuf>>
    BY DEF Complete, captureVars, SwitchedOn
  <1> QED
    BY <1>1, <1>2 DEF BufferOwners, SwitchedOn

LEMMA BuffersFail ==
    ASSUME BufferOwners, QueueError
    PROVE  BufferOwners'
  BY DEF QueueError, captureVars, BufferOwners, SwitchedOn

\* What stop() takes back while the stream is on, and without it.
LEMMA BuffersDrain ==
    ASSUME BufferOwners, capPc \in {"off", "exited"}, DrainTurn \/ DrainBreaks
    PROVE  BufferOwners'
  <1>1. UNCHANGED <<capPc, capBuf>>
    BY DEF DrainTurn, DrainBreaks, captureVars
  <1>2. CASE DrainTurn /\ device = "streaming"
    <2>1. done # << >> /\ TakeDone /\ device' = device
      BY <1>2 DEF DrainTurn
    <2>2. Head(done) \in Buffers /\ Tail(done) \in Seq(Buffers)
      BY <2>1 DEF BufferOwners
    <2>3. vb' = [vb EXCEPT ![Head(done)] = "app"] /\ done' = Tail(done)
      BY <2>1 DEF TakeDone
    <2> QED
      BY <1>1, <1>2, <2>1, <2>2, <2>3 DEF BufferOwners, SwitchedOn
  <1>3. CASE DrainTurn /\ device # "streaming"
    BY <1>1, <1>3 DEF DrainTurn, BufferOwners, SwitchedOn
  <1>4. CASE DrainBreaks
    BY <1>1, <1>4 DEF DrainBreaks, BufferOwners, SwitchedOn
  <1> QED
    BY <1>2, <1>3, <1>4

LEMMA BuffersOff ==
    ASSUME BufferOwners, StreamOff
    PROVE  BufferOwners'
  BY DEF StreamOff, Joined, BufferOwners, SwitchedOn

LEMMA BuffersOpen ==
    ASSUME BufferOwners, OpenDevice
    PROVE  BufferOwners'
  BY CapturerAssumption DEF OpenDevice, captureVars, BufferOwners, SwitchedOn

\* The thread does not outlive the stream.
LEMMA CaptureStreams ==
    ASSUME Lifetimes, CaptureThread, mainPc # "exited"
    PROVE  device \in {"streaming", "error"} /\ CapStep
  <1>1. capPc \notin Gone /\ CapStep
    BY CapturePcs DEF CaptureThread, CapAct
  <1> QED
    BY <1>1 DEF Lifetimes, Gone

LEMMA BuffersKept ==
    ASSUME BufferOwners, UNCHANGED <<device, vb, done, capPc, capBuf>>
    PROVE  BufferOwners'
  BY DEF BufferOwners, SwitchedOn

LEMMA BuffersStart ==
    ASSUME BufferOwners, StartAll
    PROVE  BufferOwners'
  <1>1. CASE CapAct(OpenDevice)
    BY <1>1, BuffersOpen DEF CapAct
  <1>2. CASE CapAct(StartCapture)
    BY <1>2 DEF CapAct, StartCapture, BufferOwners, SwitchedOn
  <1>3. CASE ProcAct(UI!Start) \/ TxAct(Tx!StartStreamer) \/ UiAct(UI!StartUi)
    <2>1. UNCHANGED <<device, vb, done, capPc, capBuf>>
      BY <1>3 DEF ProcAct, TxAct, UiAct, capOwn
    <2> QED
      BY <2>1, BuffersKept
  <1> QED
    BY <1>1, <1>2, <1>3 DEF StartAll

LEMMA BuffersStop ==
    ASSUME Lifetimes, BufferOwners, StopAll
    PROVE  BufferOwners'
  <1>1. CASE Main("join capture", "join capture") /\ CapAct(DrainTurn \/ DrainBreaks)
    <2>1. capPc \in {"off", "exited"}
      BY <1>1 DEF CapAct, DrainTurn, DrainBreaks, Joined
    <2> QED
      BY <1>1, <2>1, BuffersDrain DEF CapAct
  <1>2. CASE CapAct(StreamOff)
    BY <1>2, BuffersOff DEF CapAct
  <1>3. CASE CapAct(StopCapture)
    <2>1. UNCHANGED <<device, vb, done, capPc, capBuf>>
      BY <1>3 DEF CapAct, StopCapture, deviceVars
    <2> QED
      BY <2>1, BuffersKept
  <1>4. CASE \/ UiAct(UI!StopUi) \/ TxAct(Tx!StopStreaming) \/ TxAct(Tx!CloseOutput)
             \/ TxAct(Tx!QuitLoop) \/ TxAct(Tx!UnrefAppsrc)
             \/ ProcAct(UI!StopRequest) \/ ProcAct(UI!StopNotify) \/ OthersUnchanged
    <2>1. UNCHANGED <<device, vb, done, capPc, capBuf>>
      BY <1>4 DEF UiAct, TxAct, ProcAct, OthersUnchanged, capOwn
    <2> QED
      BY <2>1, BuffersKept
  <1> QED
    BY <1>1, <1>2, <1>3, <1>4 DEF StopAll, Joins

LEMMA BufferOwnersStep == Lifetimes /\ BufferOwners /\ [Next]_vars => BufferOwners'
  <1> SUFFICES ASSUME Lifetimes, BufferOwners, [Next]_vars PROVE BufferOwners'
    OBVIOUS
  <1>1. CASE mainPc # "exited" /\ CaptureThread
    BY <1>1, CaptureStreams, BuffersCapture
  <1>2. CASE Camera \/ CameraFails
    BY <1>2, BuffersFilled, BuffersFail DEF Camera, CameraFails, CapAct
  <1>3. CASE StartAll
    BY <1>3, BuffersStart
  <1>4. CASE StopAll
    BY <1>4, BuffersStop
  <1>5. CASE \/ ProcessorThread \/ UiThread \/ TxThread \/ LoopThread \/ LibraryThreads
             \/ Signal \/ CheckStop \/ Configure \/ UNCHANGED vars
    <2>1. UNCHANGED <<device, vb, done, capPc, capBuf>>
      BY <1>5 DEF ProcessorThread, UiThread, TxThread, LoopThread, LibraryThreads, Signal, CheckStop,
                  Configure, ProcAct, UiAct, TxAct, OthersUnchanged, vars, capOwn
    <2> QED
      BY <2>1, BuffersKept
  <1> QED
    BY <1>1, <1>2, <1>3, <1>4, <1>5 DEF Next, MainThread, Terminated

LEMMA BufferOwnersInvariant == Spec => []BufferOwners
  BY BufferOwnersInit, BufferOwnersStep, LifetimesInvariant, PTL DEF Spec

(***************************************************************************)
(* No path through the loop of the capture thread forgets to queue its     *)
(* buffer again: while it lives and the queue accepts buffers, every one   *)
(* is with the driver or in its hands, for any number of buffers and every *)
(* decimation.                                                             *)
(***************************************************************************)
THEOREM EveryBufferGoesBack == Spec => []NoBufferForgotten
  <1>1. BufferOwners => NoBufferForgotten
    BY NoneAssumption, CapturerAssumption DEF BufferOwners, NoBufferForgotten, Held
  <1> QED
    BY <1>1, BufferOwnersInvariant, PTL

\* What the capture thread copies from and to is nobody else's meanwhile.
THEOREM CopiesOnlyItsOwn == Spec => []CopyIsPrivate
  <1>1. InputOwners /\ BufferOwners => CopyIsPrivate
    BY NoneAssumption, CapturerAssumption
       DEF InputOwners, BufferOwners, CopyIsPrivate
  <1> QED
    BY <1>1, InputOwnersInvariant, BufferOwnersInvariant, PTL

-----------------------------------------------------------------------------
(* The drain before STREAMOFF                                              *)

Taken == {b \in Buffers : vb[b] = "app"}

FilledOnce ==
    /\ \A i \in 1 .. Len(done) : vb[done[i]] = "done"
    /\ \A i, j \in 1 .. Len(done) : i # j => done[i] # done[j]

\* stop() counts its turns.  As long as the queue is not in error each of them
\* takes a buffer, which nobody queues again.
Draining ==
    /\ FilledOnce
    /\ drained \in Nat
    /\ drained # 0 => capPc = "exited" \/ device = "halfopen"
    /\ device \in {"closed", "open"} => drained = 0
    /\ device = "streaming" => drained <= Cardinality(Taken)

LEMMA TakenCount ==
    ASSUME NEW w
    PROVE  LET T == {b \in Buffers : w[b] = "app"}
           IN  IsFiniteSet(T) /\ Cardinality(T) \in Nat
                   /\ Cardinality(T) <= Cardinality(Buffers)
                   /\ (Cardinality(T) = Cardinality(Buffers) => T = Buffers)
  <1> DEFINE T == {b \in Buffers : w[b] = "app"}
  <1>1. IsFiniteSet(Buffers) /\ T \in SUBSET Buffers
    BY NoneAssumption, CapturerAssumption
  <1> HIDE DEF T
  <1>2. IsFiniteSet(T) /\ Cardinality(T) <= Cardinality(Buffers)
        /\ (Cardinality(Buffers) = Cardinality(T) => Buffers = T)
    BY <1>1, FS_Subset
  <1>3. Cardinality(T) \in Nat
    BY <1>2, FS_CardinalityType
  <1> QED
    BY <1>2, <1>3 DEF T

LEMMA TakeOldest ==
    ASSUME BufferOwners, FilledOnce, done # << >>, TakeDone
    PROVE  /\ FilledOnce'
           /\ Taken' = Taken \cup {Head(done)} /\ Head(done) \notin Taken
  <1>1. /\ vb \in [Buffers -> {"app", "driver", "done"}] /\ done \in Seq(Buffers)
        /\ vb' = [vb EXCEPT ![Head(done)] = "app"] /\ done' = Tail(done)
    BY DEF BufferOwners, TakeDone
  <1>2. /\ Head(done) = done[1] /\ Head(done) \in Buffers /\ Len(done) \in Nat \ {0}
        /\ Len(done') = Len(done) - 1
        /\ \A i \in 1 .. Len(done') : done'[i] = done[i + 1] /\ done'[i] \in Buffers
    BY <1>1
  <1>3. \A i \in 1 .. Len(done) : done[i] \in Buffers
    BY <1>1
  <1>4. FilledOnce'
    <2>1. ASSUME NEW i \in 1 .. Len(done') PROVE vb'[done'[i]] = "done"
      <3>1. i + 1 \in 1 .. Len(done) /\ i + 1 # 1 /\ 1 \in 1 .. Len(done)
        BY <1>2
      <3>2. done[i + 1] # Head(done) /\ vb[done[i + 1]] = "done"
        BY <3>1, <1>2 DEF FilledOnce
      <3> QED
        BY <1>1, <1>2, <3>2
    <2>2. ASSUME NEW i \in 1 .. Len(done'), NEW j \in 1 .. Len(done'), i # j
          PROVE  done'[i] # done'[j]
      <3>1. i + 1 \in 1 .. Len(done) /\ j + 1 \in 1 .. Len(done) /\ i + 1 # j + 1
        BY <2>2, <1>2
      <3> QED
        BY <3>1, <1>2 DEF FilledOnce
    <2> QED
      BY <2>1, <2>2 DEF FilledOnce
  <1>5. vb[Head(done)] = "done"
    BY <1>2 DEF FilledOnce
  <1> QED
    BY <1>1, <1>2, <1>4, <1>5 DEF Taken

LEMMA DrainingInit == Init => Draining
  <1> SUFFICES ASSUME Init PROVE Draining
    OBVIOUS
  <1>1. done = << >> /\ drained = 0
    BY DEF Init, CapInit
  <1>2. Cardinality(Taken) \in Nat
    BY TakenCount DEF Taken
  <1> QED
    BY <1>1, <1>2 DEF Draining, FilledOnce

LEMMA DrainingKept ==
    ASSUME Draining, UNCHANGED <<device, vb, done, drained>>, capPc = "exited" => capPc' = "exited"
    PROVE  Draining'
  BY DEF Draining, FilledOnce, Taken

LEMMA DrainingCapture ==
    ASSUME device \in {"streaming", "error"}, BufferOwners, Draining, CapStep
    PROVE  Draining'
  <1>1. capPc # "exited" /\ drained = 0 /\ drained' = 0 /\ device' = device
    <2>1. capPc # "exited"
      BY DEF CapStep, CapHead, SelectTimeout, CaptureBreaks,
             Dequeue, BorrowInput, DropImage, Copy, PushInput, Requeue
    <2>2. drained' = drained /\ device' = device
      BY DEF CapStep, CapHead, SelectTimeout, CaptureBreaks,
             Dequeue, BorrowInput, DropImage, Copy, PushInput, Requeue, deviceVars
    <2> QED
      BY <2>1, <2>2 DEF Draining
  <1>2. Cardinality(Taken') \in Nat
    BY TakenCount DEF Taken
  <1>3. FilledOnce'
    <2>1. CASE Dequeue
      <3>1. done # << >> /\ TakeDone
        BY <2>1 DEF Dequeue
      <3> QED
        BY <3>1, TakeOldest DEF Draining
    <2>2. CASE Requeue
      <3>1. /\ vb' = [vb EXCEPT ![capBuf] = "driver"] \/ vb' = vb
            /\ done' = done /\ capPc = "requeue"
        BY <2>2 DEF Requeue
      <3>2. \A i \in 1 .. Len(done) : done[i] \in Buffers /\ vb[done[i]] = "done"
        BY DEF BufferOwners, Draining, FilledOnce
      <3>3. capBuf \in Buffers
        BY <3>1 DEF BufferOwners
      <3>4. vb[capBuf] = "app"
        BY <3>1, <3>3 DEF BufferOwners
      <3>5. \A i \in 1 .. Len(done) : done[i] # capBuf /\ vb'[done[i]] = vb[done[i]]
        BY <3>1, <3>2, <3>4 DEF BufferOwners
      <3> QED
        BY <3>1, <3>2, <3>5 DEF Draining, FilledOnce
    <2>3. CASE \/ CapHead \/ SelectTimeout \/ CaptureBreaks \/ BorrowInput
               \/ DropImage \/ Copy \/ PushInput
      <3>1. UNCHANGED <<vb, done>>
        BY <2>3 DEF CapHead, SelectTimeout, CaptureBreaks, BorrowInput,
                    DropImage, Copy, PushInput, deviceVars
      <3> QED
        BY <3>1 DEF Draining, FilledOnce
    <2> QED
      BY <2>1, <2>2, <2>3 DEF CapStep
  <1> QED
    BY <1>1, <1>2, <1>3 DEF Draining

LEMMA DrainingFilled ==
    ASSUME BufferOwners, Draining, NEW tag, Complete(tag)
    PROVE  Draining'
  <1>1. Complete(tag)
    OBVIOUS
  <1>2. PICK b \in Buffers : /\ vb[b] = "driver"
                             /\ vb' = [vb EXCEPT ![b] = "done"]
                             /\ done' = Append(done, b)
    BY <1>1 DEF Complete
  <1>3. UNCHANGED <<device, capPc, drained>>
    BY <1>1 DEF Complete, captureVars
  <1>4. vb \in [Buffers -> {"app", "driver", "done"}] /\ done \in Seq(Buffers)
    BY DEF BufferOwners
  <1>5. Taken' = Taken
    BY <1>2, <1>4 DEF Taken
  <1>6. /\ Len(done) \in Nat /\ Len(done') = Len(done) + 1
        /\ done'[Len(done) + 1] = b
        /\ \A i \in 1 .. Len(done) : done'[i] = done[i] /\ done[i] \in Buffers
    BY <1>2, <1>4
  <1>7. \A i \in 1 .. Len(done) : done[i] # b
    BY <1>2 DEF Draining, FilledOnce
  <1>8. FilledOnce'
    <2>1. \A i \in 1 .. Len(done') : vb'[done'[i]] = "done"
      BY <1>2, <1>4, <1>6 DEF Draining, FilledOnce
    <2>2. \A i, j \in 1 .. Len(done') : i # j => done'[i] # done'[j]
      BY <1>6, <1>7 DEF Draining, FilledOnce
    <2> QED
      BY <2>1, <2>2 DEF FilledOnce
  <1> QED
    BY <1>3, <1>5, <1>8 DEF Draining

LEMMA DrainingFail ==
    ASSUME Draining, QueueError
    PROVE  Draining'
  BY DEF QueueError, captureVars, Draining, FilledOnce

LEMMA DrainingDrain ==
    ASSUME BufferOwners, Draining, DrainTurn \/ DrainBreaks
    PROVE  Draining'
  <1>1. CASE DrainTurn /\ device = "streaming"
    <2>1. /\ done # << >> /\ TakeDone /\ device' = device
          /\ drained' = drained + 1 /\ capPc' = capPc /\ capPc = "exited"
      BY <1>1 DEF DrainTurn, Joined, BufferOwners, SwitchedOn
    <2>2. /\ FilledOnce'
          /\ Taken' = Taken \cup {Head(done)} /\ Head(done) \notin Taken
      BY <2>1, TakeOldest DEF Draining
    <2>3. Cardinality(Taken') = Cardinality(Taken) + 1
      <3>1. IsFiniteSet(Taken)
        BY TakenCount DEF Taken
      <3> QED
        BY <2>2, <3>1, FS_AddElement
    <2>4. Cardinality(Taken) \in Nat
      BY TakenCount DEF Taken
    <2> QED
      BY <1>1, <2>1, <2>2, <2>3, <2>4 DEF Draining
  <1>2. CASE DrainTurn /\ device # "streaming"
    BY <1>2 DEF DrainTurn, Joined, Draining, FilledOnce, BufferOwners, SwitchedOn
  <1>3. CASE DrainBreaks
    BY <1>3 DEF DrainBreaks, captureVars, Draining, FilledOnce
  <1> QED
    BY <1>1, <1>2, <1>3

LEMMA DrainingOff ==
    ASSUME Draining, StreamOff
    PROVE  Draining'
  <1>1. done' = << >> /\ drained' = 0 /\ device' = "closed"
    BY DEF StreamOff
  <1> QED
    BY <1>1 DEF Draining, FilledOnce

LEMMA DrainingOpen ==
    ASSUME BufferOwners, Draining, OpenDevice
    PROVE  Draining'
  <1>1. done' = << >> /\ drained = 0 /\ drained' = 0 /\ device' = "open"
    BY DEF OpenDevice, captureVars, BufferOwners, Draining
  <1> QED
    BY <1>1 DEF Draining, FilledOnce

LEMMA DrainingSwitch ==
    ASSUME Draining, StartCapture
    PROVE  Draining'
  <1>1. UNCHANGED <<vb, done, drained>> /\ device = "open" /\ drained = 0
    BY DEF StartCapture, Draining
  <1>2. Cardinality(Taken) \in Nat /\ Taken' = Taken
    BY <1>1, TakenCount DEF Taken
  <1> QED
    BY <1>1, <1>2 DEF Draining, FilledOnce

LEMMA DrainingStart ==
    ASSUME BufferOwners, Draining, StartAll
    PROVE  Draining'
  <1>1. CASE CapAct(OpenDevice)
    BY <1>1, DrainingOpen DEF CapAct
  <1>2. CASE CapAct(StartCapture)
    BY <1>2, DrainingSwitch DEF CapAct
  <1>3. CASE ProcAct(UI!Start) \/ TxAct(Tx!StartStreamer) \/ UiAct(UI!StartUi)
    <2>1. UNCHANGED <<device, vb, done, drained, capPc>>
      BY <1>3 DEF ProcAct, TxAct, UiAct, capOwn
    <2> QED
      BY <2>1, DrainingKept
  <1> QED
    BY <1>1, <1>2, <1>3 DEF StartAll

LEMMA DrainingStop ==
    ASSUME BufferOwners, Draining, StopAll
    PROVE  Draining'
  <1>1. CASE Main("join capture", "join capture") /\ CapAct(DrainTurn \/ DrainBreaks)
    BY <1>1, DrainingDrain DEF CapAct
  <1>2. CASE CapAct(StreamOff)
    BY <1>2, DrainingOff DEF CapAct
  <1>3. CASE CapAct(StopCapture)
    <2>1. UNCHANGED <<device, vb, done, drained, capPc>>
      BY <1>3 DEF CapAct, StopCapture, deviceVars
    <2> QED
      BY <2>1, DrainingKept
  <1>4. CASE \/ UiAct(UI!StopUi) \/ TxAct(Tx!StopStreaming) \/ TxAct(Tx!CloseOutput)
             \/ TxAct(Tx!QuitLoop) \/ TxAct(Tx!UnrefAppsrc)
             \/ ProcAct(UI!StopRequest) \/ ProcAct(UI!StopNotify) \/ OthersUnchanged
    <2>1. UNCHANGED <<device, vb, done, drained, capPc>>
      BY <1>4 DEF UiAct, TxAct, ProcAct, OthersUnchanged, capOwn
    <2> QED
      BY <2>1, DrainingKept
  <1> QED
    BY <1>1, <1>2, <1>3, <1>4 DEF StopAll, Joins

LEMMA DrainingStep == Lifetimes /\ BufferOwners /\ Draining /\ [Next]_vars => Draining'
  <1> SUFFICES ASSUME Lifetimes, BufferOwners, Draining, [Next]_vars PROVE Draining'
    OBVIOUS
  <1>1. CASE mainPc # "exited" /\ CaptureThread
    BY <1>1, CaptureStreams, DrainingCapture
  <1>2. CASE Camera \/ CameraFails
    BY <1>2, DrainingFilled, DrainingFail DEF Camera, CameraFails, CapAct
  <1>3. CASE StartAll
    BY <1>3, DrainingStart
  <1>4. CASE StopAll
    BY <1>4, DrainingStop
  <1>5. CASE \/ ProcessorThread \/ UiThread \/ TxThread \/ LoopThread \/ LibraryThreads
             \/ Signal \/ CheckStop \/ Configure \/ UNCHANGED vars
    <2>1. UNCHANGED <<device, vb, done, drained, capPc>>
      BY <1>5 DEF ProcessorThread, UiThread, TxThread, LoopThread, LibraryThreads, Signal, CheckStop,
                  Configure, ProcAct, UiAct, TxAct, OthersUnchanged, vars, capOwn
    <2> QED
      BY <2>1, DrainingKept
  <1> QED
    BY <1>1, <1>2, <1>3, <1>4, <1>5 DEF Next, MainThread, Terminated

LEMMA DrainingInvariant == Spec => []Draining
  BY DrainingInit, DrainingStep, LifetimesInvariant, BufferOwnersInvariant, PTL DEF Spec

(***************************************************************************)
(* stop() switches a stream off only when the driver has no buffer left to *)
(* write to, for any number of buffers and however the capture thread has  *)
(* ended, unless the queue is in error or a select() of the drain ends     *)
(* without a buffer: no turn is spent on anything but a buffer, and as     *)
(* many turns as there are buffers are enough, because the thread that     *)
(* would queue them again has been joined.                                 *)
(***************************************************************************)
THEOREM StreamOffIsQuiet == Spec => DrainedBeforeStreamoff
  <1> DEFINE Quiet == device = "streaming" /\ device' = "closed" => AtDriver = {}
  <1>1. ASSUME BufferOwners, Draining, [Next]_vars PROVE [Quiet]_capVars
    <2> SUFFICES ASSUME device = "streaming", device' = "closed" PROVE AtDriver = {}
      OBVIOUS
    <2>1. CapAct(StreamOff)
      <3>1. /\ CaptureThread \/ Camera => device' = device
            /\ CameraFails => device' # "closed"
        BY CapturePcs, OtherPcs, CameraFailsPcs
      <3>2. (\/ ProcessorThread \/ UiThread \/ TxThread \/ LoopThread \/ LibraryThreads
             \/ Signal \/ CheckStop \/ Configure \/ UNCHANGED vars) => device' = device
        BY DEF ProcessorThread, UiThread, TxThread, LoopThread, LibraryThreads, Signal, CheckStop,
               Configure, ProcAct, UiAct, TxAct, OthersUnchanged, vars, capOwn
      <3>3. StartAll => device' # "closed"
        BY DEF StartAll, CapAct, ProcAct, UiAct, TxAct, capOwn, OpenDevice, StartCapture
      <3>4. StopAll => device' = device \/ device' = "abandoned" \/ CapAct(StreamOff)
        BY DEF StopAll, Joins, CapAct, ProcAct, UiAct, TxAct, OthersUnchanged, capOwn,
               StopCapture, DrainTurn, DrainBreaks, deviceVars
      <3> QED
        BY <1>1, <3>1, <3>2, <3>3, <3>4 DEF Next, MainThread, Terminated
    <2>2. drained = Cardinality(Buffers)
      BY <2>1 DEF CapAct, StreamOff, DrainEnds
    <2>3. /\ Cardinality(Taken) \in Nat /\ Cardinality(Taken) <= Cardinality(Buffers)
          /\ Cardinality(Taken) = Cardinality(Buffers) => Taken = Buffers
      BY TakenCount DEF Taken
    <2>4. drained \in Nat /\ drained <= Cardinality(Taken)
      BY <1>1 DEF Draining
    <2>5. Taken = Buffers
      BY <2>2, <2>3, <2>4
    <2> QED
      BY <2>5 DEF Taken, AtDriver
  <1>2. BufferOwners /\ Draining /\ [Next]_vars => [Quiet]_capVars
    BY <1>1
  <1> QED
    BY <1>2, BufferOwnersInvariant, DrainingInvariant, PTL DEF Spec, DrainedBeforeStreamoff

-----------------------------------------------------------------------------
(* The way of the marked images from the camera to GStreamer               *)

\* The stage of the capturer, where streamed stands for the images the other
\* side has popped.
Cap == INSTANCE CapturerStage WITH popped <- streamed

Marks           == {"first", "second"}
Mark(image)     == {image} \cap Marks
QMarks(q, image) == UNION {Mark(image[q[k]]) : k \in 1 .. Len(q)}

\* What A has was taken before what B has, and nothing is in both.
Before(A, B) == A \cap B = {} /\ ~("second" \in A /\ "first" \in B)

QOrder(q, image) ==
    \A j, k \in 1 .. Len(q) : j < k => Before(Mark(image[q[j]]), Mark(image[q[k]]))

Sending   == txPc \in {"appsrc", "clients", "flush", "return", "wrap"}
Filtered  == procPc = "push"
Filtering == procPc \in {"borrow", "swap", "notify", "filter"}
Copied    == capPc = "push"
Copying   == capPc \in {"borrow", "copy"}

\* The stations of the capturer on the way, those behind it first.
Front == [i \in 5 .. 9 |->
    CASE i = 5 -> QMarks(input.queue, inImage)
      [] i = 6 -> IF Copied THEN Mark(inImage[capFrame]) ELSE {}
      [] i = 7 -> IF Copying THEN Mark(vbImage[capBuf]) ELSE {}
      [] i = 8 -> QMarks(done, vbImage)
      [] i = 9 -> Marks \ tagged]

\* All stations, the last one first.
Station == [i \in 0 .. 9 |->
    CASE i = 0 -> streamed
      [] i = 1 -> IF Sending THEN Mark(outImage[txFrame]) ELSE {}
      [] i = 2 -> QMarks(output.queue, outImage)
      [] i = 3 -> IF Filtered THEN Mark(outImage[procOut]) ELSE {}
      [] i = 4 -> IF Filtering THEN Mark(inImage[procIn]) ELSE {}
      [] i \in 5 .. 9 -> Front[i]]

InOrder(st) == \A i, j \in 0 .. 9 : i < j => Before(st[i], st[j])

\* Every frame and buffer on the way holds an image taken before those
\* behind it; what free ones hold is of no interest.
WayInOrder ==
    /\ inImage \in [InPool -> Tags] /\ outImage \in [OutPool -> Tags]
    /\ vbImage \in [Buffers -> Tags]
    /\ QOrder(output.queue, outImage)
    /\ QOrder(input.queue, inImage)
    /\ QOrder(done, vbImage)
    /\ InOrder(Station)

Stations ==
    /\ Station[0] = streamed
    /\ Station[1] = IF Sending THEN Mark(outImage[txFrame]) ELSE {}
    /\ Station[2] = QMarks(output.queue, outImage)
    /\ Station[3] = IF Filtered THEN Mark(outImage[procOut]) ELSE {}
    /\ Station[4] = IF Filtering THEN Mark(inImage[procIn]) ELSE {}
    /\ Station[5] = QMarks(input.queue, inImage)
    /\ Station[6] = IF Copied THEN Mark(inImage[capFrame]) ELSE {}
    /\ Station[7] = IF Copying THEN Mark(vbImage[capBuf]) ELSE {}
    /\ Station[8] = QMarks(done, vbImage)
    /\ Station[9] = Marks \ tagged

LEMMA StationsAre == Stations /\ Stations'
  <1>1. Stations
    BY DEF Stations, Station, Front
  <1>2. Stations'
    BY DEF Stations, Station, Front
  <1> QED
    BY <1>1, <1>2

LEMMA TenStations == \A i \in 0 .. 9 : i \in {0, 1, 2, 3, 4, 5, 6, 7, 8, 9}
  OBVIOUS

\* Nothing moves on, or something from one station to the next.
LEMMA NoAdvance ==
    ASSUME NEW st, NEW new, InOrder(st), \A i \in 0 .. 9 : new[i] \subseteq st[i]
    PROVE  InOrder(new)
  <1> SUFFICES ASSUME NEW i \in 0 .. 9, NEW j \in 0 .. 9, i < j
               PROVE  Before(new[i], new[j])
    BY DEF InOrder
  <1>1. Before(st[i], st[j])
    BY DEF InOrder
  <1> QED
    BY <1>1 DEF Before

LEMMA Advance ==
    ASSUME NEW st, NEW new, InOrder(st), NEW p \in 1 .. 9,
           \A i \in 0 .. 9 : i # p - 1 => new[i] \subseteq st[i],
           new[p - 1] \subseteq st[p - 1] \cup st[p],
           Before(new[p - 1], new[p])
    PROVE  InOrder(new)
  <1> SUFFICES ASSUME NEW i \in 0 .. 9, NEW j \in 0 .. 9, i < j
               PROVE  Before(new[i], new[j])
    BY DEF InOrder
  <1>1. CASE i = p - 1 /\ j = p
    BY <1>1
  <1>2. CASE i = p - 1 /\ j # p
    <2>1. Before(st[p - 1], st[j]) /\ Before(st[p], st[j]) /\ new[j] \subseteq st[j]
      BY <1>2 DEF InOrder
    <2> QED
      BY <1>2, <2>1 DEF Before
  <1>3. CASE j = p - 1
    <2>1. Before(st[i], st[p - 1]) /\ Before(st[i], st[p]) /\ new[i] \subseteq st[i]
      BY <1>3 DEF InOrder
    <2> QED
      BY <1>3, <2>1 DEF Before
  <1>4. CASE i # p - 1 /\ j # p - 1
    <2>1. Before(st[i], st[j]) /\ new[i] \subseteq st[i] /\ new[j] \subseteq st[j]
      BY <1>4 DEF InOrder
    <2> QED
      BY <2>1 DEF Before
  <1> QED
    BY <1>1, <1>2, <1>3, <1>4

\* The three queues on the way.
LEMMA QueueTail ==
    ASSUME NEW S, NEW q \in Seq(S), q # << >>, NEW image, QOrder(q, image)
    PROVE  /\ QOrder(Tail(q), image) /\ QMarks(Tail(q), image) \subseteq QMarks(q, image)
           /\ Mark(image[Head(q)]) \subseteq QMarks(q, image)
           /\ Before(Mark(image[Head(q)]), QMarks(Tail(q), image))
  <1>1. /\ Len(q) \in Nat \ {0} /\ Len(Tail(q)) = Len(q) - 1 /\ Head(q) = q[1]
        /\ \A k \in 1 .. Len(Tail(q)) : Tail(q)[k] = q[k + 1]
    OBVIOUS
  <1>2. \A k \in 1 .. Len(Tail(q)) : k + 1 \in 1 .. Len(q) /\ 1 < k + 1
    BY <1>1
  <1>3. 1 \in 1 .. Len(q)
    BY <1>1
  <1>4. QOrder(Tail(q), image)
    <2> SUFFICES ASSUME NEW j \in 1 .. Len(Tail(q)), NEW k \in 1 .. Len(Tail(q)), j < k
                 PROVE  Before(Mark(image[Tail(q)[j]]), Mark(image[Tail(q)[k]]))
      BY DEF QOrder
    <2>1. j + 1 < k + 1
      BY <1>1
    <2>2. Before(Mark(image[q[j + 1]]), Mark(image[q[k + 1]]))
      BY <1>2, <2>1 DEF QOrder
    <2> QED
      BY <1>1, <2>2
  <1>5. Before(Mark(image[q[1]]), QMarks(Tail(q), image))
    <2>1. \A k \in 1 .. Len(Tail(q)) : Before(Mark(image[q[1]]), Mark(image[Tail(q)[k]]))
      BY <1>1, <1>2, <1>3 DEF QOrder
    <2> QED
      BY <2>1 DEF Before, QMarks
  <1>6. /\ QMarks(Tail(q), image) \subseteq QMarks(q, image)
        /\ Mark(image[q[1]]) \subseteq QMarks(q, image)
    BY <1>1, <1>2, <1>3 DEF QMarks
  <1> QED
    BY <1>1, <1>4, <1>5, <1>6

LEMMA QueueAppend ==
    ASSUME NEW S, NEW q \in Seq(S), NEW x \in S, NEW image, QOrder(q, image),
           Before(QMarks(q, image), Mark(image[x]))
    PROVE  /\ QOrder(Append(q, x), image)
           /\ QMarks(Append(q, x), image) = QMarks(q, image) \cup Mark(image[x])
  <1> DEFINE new == Append(q, x)
  <1>1. /\ Len(q) \in Nat /\ Len(new) = Len(q) + 1 /\ new[Len(q) + 1] = x
        /\ \A k \in 1 .. Len(q) : new[k] = q[k]
    OBVIOUS
  <1> HIDE DEF new
  <1>2. \A k \in 1 .. Len(new) : k \in 1 .. Len(q) \/ k = Len(q) + 1
    BY <1>1
  <1>3. \A k \in 1 .. Len(q) : k \in 1 .. Len(new) /\ Len(q) + 1 \in 1 .. Len(new)
    BY <1>1
  <1>4. Len(q) + 1 \in 1 .. Len(new)
    BY <1>1
  <1>5. QOrder(new, image)
    <2> SUFFICES ASSUME NEW j \in 1 .. Len(new), NEW k \in 1 .. Len(new), j < k
                 PROVE  Before(Mark(image[new[j]]), Mark(image[new[k]]))
      BY DEF QOrder
    <2>1. j \in 1 .. Len(q)
      BY <1>1
    <2>2. CASE k \in 1 .. Len(q)
      BY <1>1, <2>1, <2>2 DEF QOrder
    <2>3. CASE k = Len(q) + 1
      BY <1>1, <2>1, <2>3 DEF QMarks, Before
    <2> QED
      BY <1>2, <2>2, <2>3
  <1>6. QMarks(new, image) = QMarks(q, image) \cup Mark(image[x])
    BY <1>1, <1>2, <1>3, <1>4 DEF QMarks
  <1> QED
    BY <1>5, <1>6 DEF new

\* What is written to memory that is not in the queue does not matter to it.
LEMMA QueueKept ==
    ASSUME NEW q, NEW image, NEW new, \A k \in 1 .. Len(q) : new[q[k]] = image[q[k]]
    PROVE  QMarks(q, new) = QMarks(q, image) /\ (QOrder(q, image) => QOrder(q, new))
  BY DEF QMarks, QOrder

-----------------------------------------------------------------------------

\* A step that moves no image on: threads may give up what they have.
LEMMA WayKept ==
    ASSUME WayInOrder, UNCHANGED <<inImage, outImage, vbImage, done, streamed, tagged>>,
           input'.queue = input.queue, output'.queue = output.queue,
           Sending'   => Sending   /\ txFrame' = txFrame,
           Filtered'  => Filtered  /\ procOut' = procOut,
           Filtering' => Filtering /\ procIn' = procIn,
           Copied'    => Copied    /\ capFrame' = capFrame,
           Copying'   => Copying   /\ capBuf' = capBuf
    PROVE  WayInOrder'
  <1>1. \A i \in 0 .. 9 : Station'[i] \subseteq Station[i]
    BY StationsAre, TenStations DEF Stations
  <1>2. InOrder(Station)'
    BY <1>1, NoAdvance DEF WayInOrder
  <1> QED
    BY <1>2 DEF WayInOrder

LEMMA WayInit == Init => WayInOrder
  <1> SUFFICES ASSUME Init PROVE WayInOrder
    OBVIOUS
  <1>1. /\ input.queue = << >> /\ output.queue = << >> /\ done = << >>
        /\ ~Sending /\ ~Filtered /\ ~Filtering /\ ~Copied /\ ~Copying /\ streamed = {}
    BY DEF Init, CapInit, In!NewChannel, UI!ProcInit, UI!Out!NewChannel, Tx!StreamerInit,
           Sending, Filtered, Filtering, Copied, Copying
  <1>2. Len(<< >>) = 0
    OBVIOUS
  <1>3. \A i \in 0 .. 8 : Station[i] = {}
    BY <1>1, <1>2, StationsAre, TenStations DEF Stations, QMarks
  <1>4. InOrder(Station)
    BY <1>3 DEF InOrder, Before
  <1>5. /\ inImage \in [InPool -> Tags] /\ outImage \in [OutPool -> Tags]
        /\ vbImage \in [Buffers -> Tags]
    BY DEF Init, CapInit, UI!ProcInit, Tags
  <1> QED
    BY <1>1, <1>2, <1>4, <1>5 DEF WayInOrder, QOrder

-----------------------------------------------------------------------------
(* The stations of the capturer, whatever is behind the input queue        *)

FrontOK ==
    /\ inImage \in [InPool -> Tags] /\ vbImage \in [Buffers -> Tags]
    /\ QOrder(input.queue, inImage)
    /\ QOrder(done, vbImage)

Line(back, front) == [i \in 0 .. 9 |-> IF i < 5 THEN back[i] ELSE front[i]]

FrontInOrder(back) == FrontOK /\ InOrder(Line(back, Front))

LEMMA LinesAre ==
    ASSUME NEW back
    PROVE  /\ \A i \in 0 .. 4 : Line(back, Front)[i] = back[i] /\ Line(back, Front')[i] = back[i]
           /\ Line(back, Front)[5] = QMarks(input.queue, inImage)
           /\ Line(back, Front)[6] = IF Copied THEN Mark(inImage[capFrame]) ELSE {}
           /\ Line(back, Front)[7] = IF Copying THEN Mark(vbImage[capBuf]) ELSE {}
           /\ Line(back, Front)[8] = QMarks(done, vbImage)
           /\ Line(back, Front)[9] = Marks \ tagged
           /\ Line(back, Front')[5] = QMarks(input'.queue, inImage')
           /\ Line(back, Front')[6] = IF Copied' THEN Mark(inImage'[capFrame']) ELSE {}
           /\ Line(back, Front')[7] = IF Copying' THEN Mark(vbImage'[capBuf']) ELSE {}
           /\ Line(back, Front')[8] = QMarks(done', vbImage')
           /\ Line(back, Front')[9] = Marks \ tagged'
  BY DEF Line, Front

LEMMA FrontKept ==
    ASSUME NEW back, FrontInOrder(back), UNCHANGED <<inImage, vbImage, done, tagged>>,
           input'.queue = input.queue,
           Copied'  => Copied  /\ capFrame' = capFrame,
           Copying' => Copying /\ capBuf' = capBuf
    PROVE  FrontOK' /\ InOrder(Line(back, Front'))
  <1>1. \A i \in 0 .. 9 : Line(back, Front')[i] \subseteq Line(back, Front)[i]
    BY LinesAre, TenStations
  <1>2. InOrder(Line(back, Front'))
    BY <1>1, NoAdvance DEF FrontInOrder
  <1> QED
    BY <1>2 DEF FrontInOrder, FrontOK

\* The capture thread: done -> capBuf -> capFrame -> input.
LEMMA FrontCapture ==
    ASSUME NEW back, FrontInOrder(back), Filling, BufferOwners, CapStep, UNCHANGED tagged
    PROVE  FrontOK' /\ InOrder(Line(back, Front'))
  <1> USE FillingPlaces
  <1>1. UNCHANGED <<vbImage, tagged>>
    BY DEF CapStep, CapHead, SelectTimeout, CaptureBreaks, Dequeue, BorrowInput, DropImage,
           Copy, PushInput, Requeue, deviceVars
  <1>2. FrontOK
    BY DEF FrontInOrder
  <1>3. CASE CapHead \/ SelectTimeout \/ CaptureBreaks \/ DropImage \/ Requeue
    <2>1. UNCHANGED <<input, inImage, done, capFrame>> /\ ~Copied' /\ ~Copying'
      BY <1>3 DEF CapHead, SelectTimeout, CaptureBreaks, DropImage, Requeue, deviceVars,
                  Copied, Copying
    <2> QED
      BY <1>1, <2>1, FrontKept
  <1>4. CASE BorrowInput
    <2>1. PICK f \in InPool : input' = Moved(input, f, "filling")
      BY <1>4 DEF BorrowInput, In!At, In!Borrowed, Moved
    <2>2. input'.queue = input.queue
      BY <2>1 DEF Moved, Filling, Sound, ChannelsOf
    <2>3. UNCHANGED <<inImage, done, capBuf>> /\ ~Copied' /\ Copying
      BY <1>4 DEF BorrowInput, deviceVars, Copied, Copying
    <2> QED
      BY <1>1, <2>2, <2>3, FrontKept
  <1>5. CASE Dequeue
    <2>1. /\ done # << >> /\ done' = Tail(done) /\ capBuf' = Head(done)
          /\ UNCHANGED <<input, inImage>> /\ ~Copying /\ ~Copied'
      BY <1>5 DEF Dequeue, TakeDone, Copying, Copied
    <2>2. done \in Seq(Buffers)
      BY DEF BufferOwners
    <2>3. /\ QOrder(done', vbImage) /\ QMarks(done', vbImage) \subseteq QMarks(done, vbImage)
          /\ Mark(vbImage[capBuf']) \subseteq QMarks(done, vbImage)
          /\ Before(Mark(vbImage[capBuf']), QMarks(done', vbImage))
      BY <1>2, <2>1, <2>2, QueueTail DEF FrontOK
    <2>4. \A i \in 0 .. 9 : i # 7 => Line(back, Front')[i] \subseteq Line(back, Front)[i]
      BY <1>1, <1>2, <2>1, <2>3, LinesAre, TenStations
    <2>5. Line(back, Front')[7] \subseteq Line(back, Front)[8] /\ Before(Line(back, Front')[7], Line(back, Front')[8])
      BY <1>1, <2>3, LinesAre DEF Before
    <2>6. InOrder(Line(back, Front'))
      BY <2>4, <2>5, Advance, 8 \in 1 .. 9, 8 - 1 = 7 DEF FrontInOrder
    <2> QED
      BY <1>1, <1>2, <2>1, <2>3, <2>6 DEF FrontOK
  <1>6. CASE Copy
    <2>1. /\ inImage' = [inImage EXCEPT ![capFrame] = vbImage[capBuf]]
          /\ UNCHANGED <<input, done, capBuf, capFrame>> /\ capPc = "copy" /\ capPc' = "push"
      BY <1>6 DEF Copy, deviceVars
    <2>2. /\ capFrame \in InPool /\ input.place[capFrame] = "filling"
          /\ capBuf \in Buffers
      BY <2>1 DEF Filling, BufferOwners
    <2>3. inImage' \in [InPool -> Tags] /\ inImage'[capFrame] = vbImage[capBuf]
      BY <1>2, <2>1, <2>2 DEF FrontOK
    <2>4. \A f \in InPool : f # capFrame => inImage'[f] = inImage[f]
      BY <1>2, <2>1 DEF FrontOK
    <2>5. \A k \in 1 .. Len(input.queue) : inImage'[input.queue[k]] = inImage[input.queue[k]]
      BY <2>2, <2>4 DEF Filling, Sound, ChannelsOf
    <2>7. /\ QMarks(input.queue, inImage') = QMarks(input.queue, inImage)
          /\ QOrder(input.queue, inImage')
      BY <1>2, <2>5, QueueKept DEF FrontOK
    <2>8. Copying /\ ~Copied /\ ~Copying' /\ Copied'
      BY <2>1 DEF Copied, Copying
    <2>6. UNCHANGED <<input, done, vbImage, tagged>>
      BY <1>1, <2>1
    <2>9. \A i \in 0 .. 9 : i # 6 => Line(back, Front')[i] \subseteq Line(back, Front)[i]
      <3>1. \A i \in 0 .. 4 : Line(back, Front')[i] = Line(back, Front)[i]
        BY LinesAre
      <3>2. Line(back, Front')[5] = Line(back, Front)[5]
        BY <2>6, <2>7, LinesAre
      <3>3. Line(back, Front')[7] = {}
        BY <2>8, LinesAre
      <3>4. /\ Line(back, Front')[8] = Line(back, Front)[8]
            /\ Line(back, Front')[9] = Line(back, Front)[9]
        BY <2>6, LinesAre
      <3> QED
        BY <3>1, <3>2, <3>3, <3>4, TenStations
    <2>10. Line(back, Front')[6] \subseteq Line(back, Front)[7] /\ Before(Line(back, Front')[6], Line(back, Front')[7])
      BY <2>1, <2>3, <2>8, LinesAre DEF Before
    <2>11. InOrder(Line(back, Front'))
      BY <2>9, <2>10, Advance, 7 \in 1 .. 9, 7 - 1 = 6 DEF FrontInOrder
    <2> QED
      BY <1>1, <1>2, <2>1, <2>3, <2>7, <2>11 DEF FrontOK
  <1>7. CASE PushInput
    <2>1. /\ input' = Put(input, capFrame) /\ capPc = "push" /\ capPc' = "requeue"
          /\ UNCHANGED <<inImage, done, capBuf>>
      BY <1>7 DEF PushInput, In!Pushed, Put, deviceVars
    <2>2. capFrame \in InPool /\ input.queue \in Seq(InPool)
      BY <2>1 DEF Filling, Sound, ChannelsOf
    <2>3. input'.queue = Append(input.queue, capFrame)
      BY <2>1 DEF Put, Filling, Sound, ChannelsOf
    <2>4. Copied /\ ~Copied' /\ ~Copying /\ ~Copying'
      BY <2>1 DEF Copied, Copying
    <2>5. Before(QMarks(input.queue, inImage), Mark(inImage[capFrame]))
      BY <2>4, LinesAre, 5 \in 0 .. 9, 6 \in 0 .. 9, 5 < 6 DEF FrontInOrder, InOrder
    <2>6. /\ QOrder(input'.queue, inImage)
          /\ QMarks(input'.queue, inImage) = QMarks(input.queue, inImage) \cup Mark(inImage[capFrame])
      BY <2>2, <2>3, <2>5, <1>2, QueueAppend DEF FrontOK
    <2>7. \A i \in 0 .. 9 : i # 5 => Line(back, Front')[i] \subseteq Line(back, Front)[i]
      BY <1>1, <1>2, <2>1, <2>4, LinesAre, TenStations
    <2>8. Line(back, Front')[5] \subseteq Line(back, Front)[5] \cup Line(back, Front)[6] /\ Before(Line(back, Front')[5], Line(back, Front')[6])
      BY <2>1, <2>4, <2>6, LinesAre DEF Before
    <2>9. InOrder(Line(back, Front'))
      BY <2>7, <2>8, Advance, 6 \in 1 .. 9, 6 - 1 = 5 DEF FrontInOrder
    <2> QED
      BY <1>1, <1>2, <2>1, <2>6, <2>9 DEF FrontOK
  <1> QED
    BY <1>3, <1>4, <1>5, <1>6, <1>7 DEF CapStep

\* The camera marks an image only after those it has marked before.
LEMMA FrontCamera ==
    ASSUME NEW back, FrontInOrder(back), BufferOwners, Draining, NEW tag \in Cap!NextTag,
           Complete(tag), tagged' = tagged \cup ({tag} \ {"plain"})
    PROVE  FrontOK' /\ InOrder(Line(back, Front'))
  <1>1. FrontOK
    BY DEF FrontInOrder
  <1>2. PICK b \in Buffers : /\ vb[b] = "driver"
                             /\ done' = Append(done, b)
                             /\ vbImage' = [vbImage EXCEPT ![b] = tag]
    BY DEF Complete
  <1>3. UNCHANGED <<input, inImage, capPc, capBuf, capFrame>>
    BY DEF Complete, captureVars
  <1>4. Copied' = Copied /\ Copying' = Copying
    BY <1>3 DEF Copied, Copying
  <1>5. tag \in Tags
    BY DEF Cap!NextTag, Tags
  <1>6. /\ vbImage' \in [Buffers -> Tags] /\ vbImage'[b] = tag
        /\ \A c \in Buffers : c # b => vbImage'[c] = vbImage[c]
    BY <1>1, <1>2, <1>5 DEF FrontOK
  <1>7. done \in Seq(Buffers) /\ \A k \in 1 .. Len(done) : done[k] \in Buffers /\ done[k] # b
    BY <1>2 DEF BufferOwners, Draining, FilledOnce
  <1>8. QMarks(done, vbImage') = QMarks(done, vbImage) /\ QOrder(done, vbImage')
    BY <1>1, <1>6, <1>7, QueueKept DEF FrontOK
  <1>9. Copying => vbImage'[capBuf] = vbImage[capBuf]
    BY <1>2, <1>3, <1>6 DEF BufferOwners, Copying
  <1>10. Mark(tag) \subseteq Marks \ tagged
    BY DEF Cap!NextTag, Mark, Marks
  <1>11. Before(QMarks(done, vbImage'), Mark(vbImage'[b]))
    BY <1>6, <1>8, <1>10, LinesAre, 8 \in 0 .. 9, 9 \in 0 .. 9, 8 < 9
       DEF FrontInOrder, InOrder, Before
  <1>12. /\ QOrder(done', vbImage')
         /\ QMarks(done', vbImage') = QMarks(done, vbImage) \cup Mark(tag)
    <2>1. /\ QOrder(Append(done, b), vbImage')
          /\ QMarks(Append(done, b), vbImage') = QMarks(done, vbImage') \cup Mark(vbImage'[b])
      BY <1>7, <1>8, <1>11, QueueAppend
    <2> QED
      BY <1>2, <1>6, <1>8, <2>1
  <1>13. \A i \in 0 .. 9 : i # 8 => Line(back, Front')[i] \subseteq Line(back, Front)[i]
    BY <1>3, <1>4, <1>9, LinesAre, TenStations
  <1>14. Line(back, Front')[8] \subseteq Line(back, Front)[8] \cup Line(back, Front)[9]
    BY <1>10, <1>12, LinesAre
  <1>15. Before(Line(back, Front')[8], Line(back, Front')[9])
    <2>1. Before(QMarks(done, vbImage), Marks \ tagged)
      BY LinesAre, 8 \in 0 .. 9, 9 \in 0 .. 9, 8 < 9 DEF FrontInOrder, InOrder
    <2>2. /\ Line(back, Front')[8] = QMarks(done, vbImage) \cup Mark(tag)
          /\ Line(back, Front')[9] = Marks \ tagged'
      BY <1>12, LinesAre
    <2>3. CASE tag = "plain"
      BY <2>1, <2>2, <2>3 DEF Before, Mark, Marks
    <2>4. CASE tag = "first"
      BY <2>1, <2>2, <2>4 DEF Before, Mark, Marks, Cap!NextTag
    <2>5. CASE tag = "second"
      BY <2>1, <2>2, <2>5 DEF Before, Mark, Marks, Cap!NextTag
    <2> QED
      BY <2>3, <2>4, <2>5 DEF Cap!NextTag
  <1>16. InOrder(Line(back, Front'))
    BY <1>13, <1>14, <1>15, Advance, 9 \in 1 .. 9, 9 - 1 = 8 DEF FrontInOrder
  <1> QED
    BY <1>1, <1>3, <1>6, <1>12, <1>16 DEF FrontOK

\* stop() throws away what is still in the driver.
LEMMA FrontStop ==
    ASSUME NEW back, FrontInOrder(back), BufferOwners, DrainTurn \/ DrainBreaks \/ StreamOff,
           UNCHANGED tagged
    PROVE  FrontOK' /\ InOrder(Line(back, Front'))
  <1>1. FrontOK
    BY DEF FrontInOrder
  <1>2. UNCHANGED <<input, inImage, vbImage, capPc, capBuf, capFrame>>
    BY DEF DrainTurn, DrainBreaks, StreamOff, captureVars
  <1>3. Copied' = Copied /\ Copying' = Copying
    BY <1>2 DEF Copied, Copying
  <1>4. QOrder(done', vbImage) /\ QMarks(done', vbImage) \subseteq QMarks(done, vbImage)
    <2>1. CASE DrainTurn /\ device = "streaming"
      <3>1. done # << >> /\ done' = Tail(done) /\ done \in Seq(Buffers)
        BY <2>1 DEF DrainTurn, TakeDone, BufferOwners
      <3> QED
        BY <1>1, <3>1, QueueTail DEF FrontOK
    <2>2. CASE StreamOff
      <3>1. done' = << >> /\ Len(<< >>) = 0
        BY <2>2 DEF StreamOff
      <3> QED
        BY <3>1 DEF QOrder, QMarks
    <2>3. CASE (DrainTurn /\ device # "streaming") \/ DrainBreaks
      BY <1>1, <2>3 DEF DrainTurn, DrainBreaks, FrontOK
    <2> QED
      BY <2>1, <2>2, <2>3
  <1>5. \A i \in 0 .. 9 : Line(back, Front')[i] \subseteq Line(back, Front)[i]
    BY <1>2, <1>3, <1>4, LinesAre, TenStations
  <1>6. InOrder(Line(back, Front'))
    BY <1>5, NoAdvance DEF FrontInOrder
  <1> QED
    BY <1>1, <1>2, <1>4, <1>6 DEF FrontOK

\* Nothing but the frame that is being filled is written.
LEMMA CopyElsewhere ==
    ASSUME Filling, FrontOK, CapStep
    PROVE  \A f \in InPool : input.place[f] # "filling" => inImage'[f] = inImage[f]
  <1>1. CASE Copy
    <2>1. inImage' = [inImage EXCEPT ![capFrame] = vbImage[capBuf]] /\ capPc = "copy"
      BY <1>1 DEF Copy
    <2>2. capFrame \in InPool /\ input.place[capFrame] = "filling"
      BY <2>1, FillingPlaces DEF Filling
    <2> QED
      BY <2>1, <2>2 DEF FrontOK
  <1>2. CASE ~Copy
    BY <1>2 DEF CapStep, CapHead, SelectTimeout, CaptureBreaks, Dequeue, BorrowInput, DropImage,
                PushInput, Requeue
  <1> QED
    BY <1>1, <1>2

-----------------------------------------------------------------------------
(* The capturer within the program                                         *)

LEMMA WayFront == WayInOrder => FrontInOrder(Station)
  <1> SUFFICES ASSUME WayInOrder PROVE InOrder(Line(Station, Front))
    BY DEF WayInOrder, FrontInOrder, FrontOK
  <1>1. \A i \in 0 .. 9 : Line(Station, Front)[i] \subseteq Station[i]
    BY StationsAre, LinesAre, TenStations DEF Stations
  <1> QED
    BY <1>1, NoAdvance DEF WayInOrder

\* A step at the front that leaves the stations behind it alone.
LEMMA FrontWay ==
    ASSUME WayInOrder, FrontOK', InOrder(Line(Station, Front')),
           UNCHANGED <<outImage, streamed, procPc, procIn, procOut, txPc, txFrame>>,
           output'.queue = output.queue,
           Filtering => inImage'[procIn] = inImage[procIn]
    PROVE  WayInOrder'
  <1>1. /\ Sending' = Sending /\ Filtered' = Filtered /\ Filtering' = Filtering
    BY DEF Sending, Filtered, Filtering
  <1>2. \A i \in 0 .. 9 : Station'[i] \subseteq Line(Station, Front')[i]
    BY <1>1, StationsAre, LinesAre, TenStations DEF Stations
  <1>3. InOrder(Station')
    BY <1>2, NoAdvance
  <1> QED
    BY <1>3 DEF WayInOrder, FrontOK, InOrder

LEMMA WayCapture ==
    ASSUME InputOwners, BufferOwners, WayInOrder, CaptureThread
    PROVE  WayInOrder'
  <1>1. /\ UNCHANGED <<output, outImage, procPc, procIn, procOut, txPc, txFrame, streamed, tagged>>
        /\ CapStep
    BY DEF CaptureThread, CapAct, procOwn, txOwn, history
  <1>2. Filling /\ FrontInOrder(Station)
    BY WayFront DEF InputOwners, Filling
  <1>3. FrontOK' /\ InOrder(Line(Station, Front'))
    BY <1>1, <1>2, FrontCapture
  <1>4. Filtering => inImage'[procIn] = inImage[procIn]
    BY <1>1, <1>2, CopyElsewhere, InputPlaces DEF InputOwners, Filtering, FrontInOrder
  <1> QED
    BY <1>1, <1>3, <1>4, FrontWay

\* The processor: input -> procIn -> procOut -> output.
LEMMA WayProcessor ==
    ASSUME Faulty = {}, InputOwners, OutputOwners, WayInOrder, ProcessorThread
    PROVE  WayInOrder'
  <1> USE InputPlaces, OutputPlaces
  <1>1. /\ UNCHANGED <<inImage, vbImage, done, capPc, capBuf, capFrame, txPc, txFrame>>
        /\ UNCHANGED <<streamed, tagged>>
    BY DEF ProcessorThread, ProcAct, capOwn, txOwn, history, UI!ProcStep, UI!LoopHead,
           UI!PopInput, UI!PopThrows, UI!BorrowOutput, UI!SkipFrame, UI!Swap, UI!NotifySwap,
           UI!Filter, UI!PushOutput, UI!ReturnInput, UI!channelVars
  <1>2. /\ Sending' = Sending /\ Copied' = Copied /\ Copying' = Copying
    BY <1>1 DEF Sending, Copied, Copying
  <1>3. CASE UI!LoopHead \/ UI!PopThrows \/ UI!Swap \/ UI!NotifySwap
    <2>1. /\ UNCHANGED <<input, output, outImage, procIn, procOut>>
          /\ ~Filtered' /\ (Filtering' => Filtering)
      BY <1>3 DEF UI!LoopHead, UI!PopThrows, UI!Swap, UI!NotifySwap, UI!channelVars,
                  Filtered, Filtering
    <2> QED
      BY <1>1, <1>2, <2>1, WayKept
  <1>4. CASE UI!SkipFrame \/ UI!ReturnInput
    <2>1. /\ input' = Moved(input, procIn, "free") /\ UNCHANGED <<output, outImage>>
          /\ ~Filtered' /\ ~Filtering'
      BY <1>4 DEF UI!SkipFrame, UI!ReturnInput, UI!In!Returned, Moved, Filtered, Filtering
    <2>2. input'.queue = input.queue
      BY <2>1 DEF Moved, InputOwners, Sound, ChannelsOf
    <2> QED
      BY <1>1, <1>2, <2>1, <2>2, WayKept
  <1>5. CASE UI!BorrowOutput
    <2>1. PICK f \in OutPool : output' = Moved(output, f, "filling")
      BY <1>5 DEF UI!BorrowOutput, UI!Out!At, UI!Out!Borrowed, Moved
    <2>2. output'.queue = output.queue
      BY <2>1 DEF Moved, OutputOwners, Sound, ChannelsOf
    <2>3. UNCHANGED <<input, outImage, procIn>> /\ Filtering /\ ~Filtered'
      BY <1>5 DEF UI!BorrowOutput, Filtering, Filtered
    <2> QED
      BY <1>1, <1>2, <2>2, <2>3, WayKept
  <1>6. CASE UI!PopInput
    <2>1. /\ input.queue # << >> /\ procIn' = Head(input.queue)
          /\ input' = UI!In!Popped(input)
          /\ UNCHANGED <<output, outImage>> /\ ~Filtering /\ ~Filtered /\ ~Filtered'
      BY <1>6 DEF UI!PopInput, UI!In!CanPop, Filtering, Filtered
    <2>2. input.queue \in Seq(InPool) /\ input'.queue = Tail(input.queue)
      BY <2>1 DEF UI!In!Popped, InputOwners, Sound, ChannelsOf
    <2>3. /\ QOrder(input'.queue, inImage)
          /\ QMarks(input'.queue, inImage) \subseteq QMarks(input.queue, inImage)
          /\ Mark(inImage[procIn']) \subseteq QMarks(input.queue, inImage)
          /\ Before(Mark(inImage[procIn']), QMarks(input'.queue, inImage))
      BY <2>1, <2>2, QueueTail DEF WayInOrder
    <2>4. \A i \in 0 .. 9 : i # 4 => Station'[i] \subseteq Station[i]
      BY <1>1, <1>2, <2>1, <2>3, StationsAre, TenStations DEF Stations
    <2>5. Station'[4] \subseteq Station[5] /\ Before(Station'[4], Station'[5])
      BY <1>1, <2>3, StationsAre DEF Stations, Before
    <2>6. InOrder(Station')
      BY <2>4, <2>5, Advance, 5 \in 1 .. 9, 5 - 1 = 4 DEF WayInOrder
    <2> QED
      BY <1>1, <2>1, <2>3, <2>6 DEF WayInOrder, InOrder
  <1>7. CASE UI!Filter
    <2>1. /\ outImage' = [outImage EXCEPT ![procOut] = inImage[procIn]]
          /\ UNCHANGED <<input, output, procIn, procOut>> /\ procPc = "filter" /\ procPc' = "push"
      BY <1>7 DEF UI!Filter
    <2>2. /\ procIn \in InPool /\ procOut \in OutPool /\ output.place[procOut] = "filling"
      BY <2>1 DEF InputOwners, OutputOwners
    <2>3. outImage' \in [OutPool -> Tags] /\ outImage'[procOut] = inImage[procIn]
      BY <2>1, <2>2 DEF WayInOrder
    <2>4. \A f \in OutPool : f # procOut => outImage'[f] = outImage[f]
      BY <2>1 DEF WayInOrder
    <2>5. \A k \in 1 .. Len(output.queue) : outImage'[output.queue[k]] = outImage[output.queue[k]]
      BY <2>2, <2>4 DEF OutputOwners, Sound, ChannelsOf
    <2>6. Sending => outImage'[txFrame] = outImage[txFrame]
      BY <2>2, <2>4 DEF OutputOwners, Sending
    <2>7. /\ QMarks(output.queue, outImage') = QMarks(output.queue, outImage)
          /\ QOrder(output.queue, outImage')
      BY <2>5, QueueKept DEF WayInOrder
    <2>8. Filtering /\ ~Filtered /\ ~Filtering' /\ Filtered'
      BY <2>1 DEF Filtering, Filtered
    <2>9. \A i \in 0 .. 9 : i # 3 => Station'[i] \subseteq Station[i]
      BY <1>1, <1>2, <2>1, <2>6, <2>7, <2>8, StationsAre, TenStations DEF Stations
    <2>10. Station'[3] \subseteq Station[4] /\ Before(Station'[3], Station'[4])
      BY <2>1, <2>3, <2>8, StationsAre DEF Stations, Before
    <2>11. InOrder(Station')
      BY <2>9, <2>10, Advance, 4 \in 1 .. 9, 4 - 1 = 3 DEF WayInOrder
    <2> QED
      BY <1>1, <2>1, <2>3, <2>7, <2>11 DEF WayInOrder, InOrder
  <1>8. CASE UI!PushOutput
    <2>1. /\ output' = Put(output, procOut) /\ procPc = "push" /\ procPc' = "return"
          /\ UNCHANGED <<input, outImage, procIn>>
      BY <1>8 DEF UI!PushOutput, UI!Out!Pushed, Put
    <2>2. procOut \in OutPool /\ output.queue \in Seq(OutPool)
      BY <2>1 DEF OutputOwners, Sound, ChannelsOf
    <2>3. output'.queue = Append(output.queue, procOut)
      BY <2>1 DEF Put, OutputOwners, Sound, ChannelsOf
    <2>4. Filtered /\ ~Filtered' /\ ~Filtering /\ ~Filtering'
      BY <2>1 DEF Filtered, Filtering
    <2>5. Before(QMarks(output.queue, outImage), Mark(outImage[procOut]))
      BY <2>4, StationsAre, 2 \in 0 .. 9, 3 \in 0 .. 9, 2 < 3 DEF WayInOrder, InOrder, Stations
    <2>6. /\ QOrder(output'.queue, outImage)
          /\ QMarks(output'.queue, outImage)
                = QMarks(output.queue, outImage) \cup Mark(outImage[procOut])
      BY <2>2, <2>3, <2>5, QueueAppend DEF WayInOrder
    <2>7. \A i \in 0 .. 9 : i # 2 => Station'[i] \subseteq Station[i]
      BY <1>1, <1>2, <2>1, <2>4, StationsAre, TenStations DEF Stations
    <2>8. Station'[2] \subseteq Station[2] \cup Station[3] /\ Before(Station'[2], Station'[3])
      BY <2>1, <2>4, <2>6, StationsAre DEF Stations, Before
    <2>9. InOrder(Station')
      BY <2>7, <2>8, Advance, 3 \in 1 .. 9, 3 - 1 = 2 DEF WayInOrder
    <2> QED
      BY <1>1, <2>1, <2>6, <2>9 DEF WayInOrder, InOrder
  <1> QED
    BY <1>3, <1>4, <1>5, <1>6, <1>7, <1>8 DEF ProcessorThread, ProcAct, UI!ProcStep

\* The tx thread: output -> txFrame -> GStreamer.
LEMMA WayTx ==
    ASSUME OutputOwners, WayInOrder, TxThread
    PROVE  WayInOrder'
  <1> USE OutputPlaces
  <1>1. /\ UNCHANGED <<input, inImage, outImage, vbImage, done, tagged>>
        /\ UNCHANGED <<capPc, capBuf, capFrame, procPc, procIn, procOut>>
    BY DEF TxThread, TxAct, capOwn, procOwn
  <1>2. /\ Filtered' = Filtered /\ Filtering' = Filtering /\ Copied' = Copied
        /\ Copying' = Copying
    BY <1>1 DEF Filtered, Filtering, Copied, Copying
  <1>3. CASE Tx!TxWrap
    <2>1. /\ streamed' = streamed \cup Mark(outImage[txFrame]) /\ Sending /\ ~Sending'
      BY <1>3 DEF TxThread, Tx!TxWrap, Mark, Marks, Sending
    <2>2. output'.queue = output.queue
      BY <1>3 DEF Tx!TxWrap, Tx!Out!Returned, OutputOwners, Sound, ChannelsOf
    <2>3. \A i \in 0 .. 9 : i # 0 => Station'[i] \subseteq Station[i]
      BY <1>1, <1>2, <2>1, <2>2, StationsAre, TenStations DEF Stations
    <2>4. Station'[0] \subseteq Station[0] \cup Station[1] /\ Before(Station'[0], Station'[1])
      BY <2>1, StationsAre DEF Stations, Before
    <2>5. InOrder(Station')
      BY <2>3, <2>4, Advance, 1 \in 1 .. 9, 1 - 1 = 0 DEF WayInOrder
    <2> QED
      BY <1>1, <2>2, <2>5 DEF WayInOrder, InOrder
  <1>4. CASE ~Tx!TxWrap
    <2>0. streamed' = streamed
      BY <1>4 DEF TxThread, TxAct, Tx!TxStep, Tx!TxHead, Tx!TxPop, Tx!TxPopThrows,
                  Tx!TxReadAppsrc, Tx!TxReadClients, Tx!TxFlush, Tx!TxReturn, Tx!TxSend,
                  Tx!TxSendRefused
    <2>1. CASE Tx!TxPop
      <3>1. /\ output.queue # << >> /\ txFrame' = Head(output.queue)
            /\ output' = Tx!Out!Popped(output) /\ ~Sending
        BY <2>1 DEF Tx!TxPop, Tx!Out!CanPop, Sending
      <3>2. output.queue \in Seq(OutPool) /\ output'.queue = Tail(output.queue)
        BY <3>1 DEF Tx!Out!Popped, OutputOwners, Sound, ChannelsOf
      <3>3. /\ QOrder(output'.queue, outImage)
            /\ QMarks(output'.queue, outImage) \subseteq QMarks(output.queue, outImage)
            /\ Mark(outImage[txFrame']) \subseteq QMarks(output.queue, outImage)
            /\ Before(Mark(outImage[txFrame']), QMarks(output'.queue, outImage))
        BY <3>1, <3>2, QueueTail DEF WayInOrder
      <3>4. \A i \in 0 .. 9 : i # 1 => Station'[i] \subseteq Station[i]
        BY <1>1, <1>2, <2>0, <3>1, <3>3, StationsAre, TenStations DEF Stations
      <3>5. Station'[1] \subseteq Station[2] /\ Before(Station'[1], Station'[2])
        BY <1>1, <3>3, StationsAre DEF Stations, Before
      <3>6. InOrder(Station')
        BY <3>4, <3>5, Advance, 2 \in 1 .. 9, 2 - 1 = 1 DEF WayInOrder
      <3> QED
        BY <1>1, <3>3, <3>6 DEF WayInOrder, InOrder
    <2>2. CASE ~Tx!TxPop
      <3>1. Sending' => Sending /\ txFrame' = txFrame
        BY <1>4, <2>2 DEF TxThread, TxAct, Tx!TxStep, Tx!TxHead, Tx!TxPopThrows,
                  Tx!TxReadAppsrc, Tx!TxReadClients, Tx!TxFlush, Tx!TxReturn, Tx!TxSend,
                  Tx!TxSendRefused, Sending
      <3>2. output'.queue = output.queue
        <4>1. CASE Tx!TxFlush \/ Tx!TxReturn \/ Tx!TxSendRefused
          BY <4>1 DEF Tx!TxFlush, Tx!TxReturn, Tx!TxSendRefused, Tx!ReturnAll, Tx!Out!Returned,
                      OutputOwners, Sound, ChannelsOf
        <4>2. CASE \/ Tx!TxHead \/ Tx!TxPopThrows \/ Tx!TxReadAppsrc \/ Tx!TxReadClients
                   \/ Tx!TxSend
          BY <4>2 DEF Tx!TxHead, Tx!TxPopThrows, Tx!TxReadAppsrc, Tx!TxReadClients, Tx!TxSend
        <4> QED
          BY <1>4, <2>2, <4>1, <4>2 DEF TxThread, TxAct, Tx!TxStep
      <3> QED
        BY <1>1, <1>2, <2>0, <3>1, <3>2, WayKept
    <2> QED
      BY <2>1, <2>2
  <1> QED
    BY <1>3, <1>4

LEMMA WayCamera ==
    ASSUME BufferOwners, Draining, WayInOrder, Camera
    PROVE  WayInOrder'
  <1>1. PICK tag \in NextTag : CapAct(Complete(tag)) /\ tagged' = tagged \cup ({tag} \ {"plain"})
    BY DEF Camera
  <1>2. tag \in Cap!NextTag
    BY DEF NextTag, Cap!NextTag
  <1>3. UNCHANGED <<inImage, output, outImage, procPc, procIn, procOut, txPc, txFrame, streamed>>
    BY <1>1 DEF Camera, CapAct, Complete, procOwn, txOwn
  <1>4. FrontOK' /\ InOrder(Line(Station, Front'))
    BY <1>1, <1>2, WayFront, FrontCamera DEF CapAct
  <1> QED
    BY <1>3, <1>4, FrontWay

LEMMA WayStop ==
    ASSUME BufferOwners, WayInOrder, CapAct(DrainTurn \/ DrainBreaks) \/ CapAct(StreamOff),
           UNCHANGED history
    PROVE  WayInOrder'
  <1>1. UNCHANGED <<inImage, output, outImage, procPc, procIn, procOut, txPc, txFrame, streamed, tagged>>
    BY DEF CapAct, DrainTurn, DrainBreaks, StreamOff, captureVars, procOwn, txOwn, history
  <1>2. FrontOK' /\ InOrder(Line(Station, Front'))
    BY <1>1, WayFront, FrontStop DEF CapAct
  <1> QED
    BY <1>1, <1>2, FrontWay

LEMMA WayStep ==
    ASSUME Faulty = {}, InputOwners, OutputOwners, BufferOwners, Draining, WayInOrder, [Next]_vars
    PROVE  WayInOrder'
  <1>1. CASE CaptureThread
    BY <1>1, WayCapture
  <1>2. CASE ProcessorThread
    BY <1>2, WayProcessor
  <1>3. CASE TxThread
    BY <1>3, WayTx
  <1>4. CASE Camera
    BY <1>4, WayCamera
  <1>5. CASE (CapAct(DrainTurn \/ DrainBreaks) \/ CapAct(StreamOff)) /\ UNCHANGED history
    BY <1>5, WayStop
  <1> DEFINE Still == UNCHANGED <<inImage, outImage, vbImage, done, streamed, tagged, capBuf, capFrame,
                                  procIn, procOut, txFrame>>
  <1>6. CASE UNCHANGED vars \/ Signal \/ CheckStop \/ Configure \/ CameraFails
    <2>1. Still /\ UNCHANGED <<input, output, capPc, procPc, txPc>>
      BY <1>6 DEF vars, Signal, CheckStop, Configure, CameraFails, QueueError, Main, CapAct,
                  OthersUnchanged, captureVars, capOwn, procOwn, txOwn, history
    <2> QED
      BY <2>1, WayKept DEF Sending, Filtered, Filtering, Copied, Copying
  <1>7. CASE UiThread \/ LoopThread \/ LibraryThreads
    <2>1. Still /\ UNCHANGED <<input, capPc, procPc, txPc>>
      BY <1>7 DEF UiThread, UiAct, LoopThread, LibraryThreads, TxAct, capOwn, procOwn, uiOwn, txOwn,
                  history, Tx!LoopStep, Tx!LoopRuns, Tx!LoopEnds, Tx!PlayOutOld,
                  UI!UiHead, UI!UiNothing, UI!UiApplying, UI!UiError, UI!UiEof, UI!UiApply,
                  UI!BeginEdit, UI!FinishEdit, UI!EndEdit, UI!Commit, UI!CommitWait, UI!procVars,
                  UI!channelVars, UI!threadVars, Tx!LibraryStep, Tx!OnClientConnected,
                  Tx!OnMediaConfigure, Tx!OnClientClosed, Tx!PlayOut, Tx!txVars
    <2>2. output'.queue = output.queue
      <3>1. CASE UiThread
        BY <3>1 DEF UiThread, UiAct, UI!UiHead, UI!UiNothing, UI!UiApplying, UI!UiError, UI!UiEof,
                    UI!UiApply, UI!BeginEdit, UI!FinishEdit, UI!EndEdit, UI!Commit,
                    UI!CommitWait, UI!procVars, UI!channelVars
      <3>2. CASE LibraryThreads
        BY <3>2 DEF LibraryThreads, TxAct, Tx!LibraryStep, Tx!OnClientConnected,
                    Tx!OnMediaConfigure, Tx!OnClientClosed, Tx!PlayOut, Tx!PlayOutOld,
                    Tx!ReturnAll, OutputOwners, Sound, ChannelsOf
      <3>3. CASE LoopThread
        BY <3>3 DEF LoopThread, TxAct, Tx!LoopStep, Tx!LoopRuns, Tx!LoopEnds
      <3> QED
        BY <1>7, <3>1, <3>2, <3>3
    <2> QED
      BY <2>1, <2>2, WayKept DEF Sending, Filtered, Filtering, Copied, Copying
  <1>8. CASE StartAll
    <2>1. Still /\ UNCHANGED <<input, output>>
      BY <1>8 DEF StartAll, Main, CapAct, ProcAct, UiAct, TxAct, capOwn, procOwn, txOwn, history,
                  OpenDevice, StartCapture, UI!Start, UI!StartUi, UI!procVars, UI!channelVars,
                  UI!threadVars, Tx!StartStreamer, captureVars
    <2>2. /\ capPc' = capPc \/ capPc' = "head"
          /\ procPc' = procPc \/ procPc' = "head"
          /\ txPc' = txPc \/ txPc' = "head"
      BY <1>8 DEF StartAll, Main, CapAct, ProcAct, UiAct, TxAct, capOwn, procOwn, txOwn,
                  OpenDevice, StartCapture, UI!Start, UI!StartUi, UI!procVars, UI!threadVars,
                  Tx!StartStreamer, captureVars
    <2> QED
      BY <2>1, <2>2, WayKept DEF Sending, Filtered, Filtering, Copied, Copying
  <1>9. CASE StopAll /\ ~CapAct(DrainTurn \/ DrainBreaks) /\ ~CapAct(StreamOff)
    <2>1. Still /\ UNCHANGED <<capPc, procPc, txPc>>
      BY <1>9 DEF StopAll, Joins, Main, CapAct, ProcAct, UiAct, TxAct, OthersUnchanged, capOwn,
                  procOwn, txOwn, history, StopCapture, deviceVars, UI!StopUi, UI!StopRequest,
                  UI!StopNotify, UI!procVars, UI!channelVars, UI!threadVars, Tx!StopStreaming,
                  Tx!CloseOutput, Tx!QuitLoop, Tx!UnrefAppsrc, Tx!txVars
    <2>2. input'.queue = input.queue /\ output'.queue = output.queue
      <3>1. CASE ProcAct(UI!StopNotify)
        BY <3>1 DEF ProcAct, UI!StopNotify, UI!In!Closed, InputOwners, Sound, ChannelsOf
      <3>2. CASE TxAct(Tx!CloseOutput)
        BY <3>2 DEF TxAct, Tx!CloseOutput, Tx!Out!Closed, OutputOwners, Sound, ChannelsOf
      <3>3. CASE ~ProcAct(UI!StopNotify) /\ ~TxAct(Tx!CloseOutput)
        BY <1>9, <3>3 DEF StopAll, Joins, CapAct, ProcAct, UiAct, TxAct, OthersUnchanged,
                  StopCapture, UI!StopUi, UI!StopRequest, UI!procVars, UI!channelVars,
                  Tx!StopStreaming, Tx!QuitLoop, Tx!UnrefAppsrc
      <3> QED
        BY <3>1, <3>2, <3>3
    <2> QED
      BY <2>1, <2>2, WayKept DEF Sending, Filtered, Filtering, Copied, Copying
  <1>10. StopAll => UNCHANGED history
    BY DEF StopAll, Joins, Main
  <1> QED
    BY <1>1, <1>2, <1>3, <1>4, <1>5, <1>6, <1>7, <1>8, <1>9, <1>10 DEF Next, MainThread, Terminated

(***************************************************************************)
(* End to end, for buffers of any size and any number of V4L2 buffers: as  *)
(* long as no filter throws, the images handed to GStreamer are in the     *)
(* order they were taken in, each at most once.  A filter that throws      *)
(* would pass on what the output frame held before.                        *)
(***************************************************************************)
THEOREM ImagesStayInOrder == ASSUME Faulty = {} PROVE Spec => StreamedInOrder
  <1> DEFINE Good == InputOwners /\ OutputOwners /\ BufferOwners /\ Draining
  <1> DEFINE InTurn ==
        txPc = "wrap" /\ txPc' = "send" /\ outImage[txFrame] \in {"first", "second"}
          => /\ outImage[txFrame] \notin streamed
             /\ outImage[txFrame] = "first" => "second" \notin streamed
  <1>1. Good /\ WayInOrder /\ [Next]_vars => WayInOrder'
    BY WayStep
  <1>2. Spec => []Good
    BY InputOwnersInvariant, OutputOwnersInvariant, BufferOwnersInvariant, DrainingInvariant, PTL
  <1>3. WayInOrder => InTurn
    <2> SUFFICES ASSUME WayInOrder, txPc = "wrap", outImage[txFrame] \in {"first", "second"}
                 PROVE  /\ outImage[txFrame] \notin streamed
                        /\ outImage[txFrame] = "first" => "second" \notin streamed
      OBVIOUS
    <2>1. Before(Station[0], Station[1])
      BY 0 \in 0 .. 9, 1 \in 0 .. 9, 0 < 1 DEF WayInOrder, InOrder
    <2>2. Station[0] = streamed /\ Station[1] = Mark(outImage[txFrame])
      BY StationsAre DEF Stations, Sending
    <2> QED
      BY <2>1, <2>2 DEF Before, Mark, Marks
  <1>4. Spec => []WayInOrder
    BY <1>1, <1>2, WayInit, PTL DEF Spec
  <1>5. WayInOrder => [InTurn]_vars
    BY <1>3
  <1> QED
    BY <1>4, <1>5, PTL DEF StreamedInOrder

-----------------------------------------------------------------------------
(* The capturer with a device that may fail: its stage                     *)

\* The size of a set and the actions are named twice, here and in the stage.
LEMMA SizeSame == Cap!Cardinality(Buffers) = Cardinality(Buffers)
  BY DEF Cap!Cardinality, Cardinality

LEMMA CapturerSame ==
    /\ Cap!CapInit => CapInit
    /\ Cap!CapStep => CapStep
    /\ Cap!OpenDevice => OpenDevice
    /\ Cap!OpenFails => OpenFails
    /\ Cap!StartFails => StartFails
    /\ Cap!StartCapture => StartCapture
    /\ Cap!QueueError => QueueError
    /\ Cap!StopCapture => StopCapture
    /\ Cap!StopStep => DrainTurn \/ DrainBreaks \/ StreamOff
    /\ \A tag : Cap!Complete(tag) => Complete(tag)
  <1>1. Cap!CapInit => CapInit
    BY DEF Cap!CapInit, CapInit, Cap!In!NewChannel, In!NewChannel
  <1>2. Cap!CapStep => CapStep
    BY DEF Cap!CapStep, CapStep, Cap!CapHead, CapHead, Cap!SelectTimeout, SelectTimeout,
           Cap!CaptureBreaks, CaptureBreaks, Cap!Dequeue, Dequeue, Cap!TakeDone, TakeDone,
           Cap!BorrowInput, BorrowInput, Cap!DropImage, DropImage, Cap!Copy, Copy,
           Cap!PushInput, PushInput, Cap!Requeue, Requeue, Cap!deviceVars, deviceVars,
           Cap!In!At, In!At, Cap!In!Borrowed, In!Borrowed, Cap!In!CanBorrow, In!CanBorrow,
           Cap!In!Pushed, In!Pushed
  <1>3. /\ Cap!OpenDevice => OpenDevice
        /\ Cap!OpenFails => OpenFails
        /\ Cap!StartFails => StartFails
        /\ Cap!StartCapture => StartCapture
        /\ Cap!QueueError => QueueError
        /\ Cap!StopCapture => StopCapture
    BY DEF Cap!OpenDevice, OpenDevice, Cap!OpenFails, OpenFails, Cap!StartFails, StartFails,
           Cap!StartCapture, StartCapture, Cap!QueueError, QueueError, Cap!StopCapture, StopCapture, Cap!deviceVars, deviceVars, Cap!captureVars, captureVars
  <1>4. Cap!StopStep => DrainTurn \/ DrainBreaks \/ StreamOff
    <2>1. Cap!DrainTurn => DrainTurn
      BY SizeSame DEF Cap!DrainTurn, DrainTurn, Cap!Joined, Joined, Cap!TakeDone, TakeDone
    <2>2. Cap!DrainBreaks => DrainBreaks
      BY SizeSame DEF Cap!DrainBreaks, DrainBreaks, Cap!Joined, Joined, Cap!captureVars, captureVars
    <2>3. Cap!StreamOff => StreamOff
      <3>1. Cap!DrainEnds <=> DrainEnds
        BY SizeSame DEF Cap!DrainEnds, DrainEnds
      <3> QED
        BY <3>1 DEF Cap!StreamOff, StreamOff, Cap!Joined, Joined
    <2> QED
      BY <2>1, <2>2, <2>3 DEF Cap!StopStep
  <1>5. \A tag : Cap!Complete(tag) => Complete(tag)
    BY DEF Cap!Complete, Complete, Cap!captureVars, captureVars
  <1> QED
    BY <1>1, <1>2, <1>3, <1>4, <1>5

\* A thread that has started and not ended has a stream.
Streaming == capPc \notin {"off", "exited"} => device \in {"streaming", "error"}

StageTypes ==
    /\ capturing \in BOOLEAN /\ skipCount \in 0 .. Decimation
    /\ device \in {"closed", "halfopen", "open", "streaming", "error", "abandoned"}
    /\ drained \in 0 .. Cardinality(Buffers)
    /\ capPc \in {"off", "head", "select", "borrow", "copy", "push", "requeue", "exited"}
    /\ tagged \subseteq Marks /\ streamed \subseteq Marks

\* Behind the queue of the stage there is nothing but what has been popped.
Behind == [i \in 0 .. 4 |-> IF i = 4 THEN streamed ELSE {}]

CaptureStage ==
    /\ Filling /\ BufferOwners /\ Draining /\ Streaming
    /\ FrontInOrder(Behind)

LEMMA StageInit == Cap!Init => CaptureStage /\ StageTypes
  <1> SUFFICES ASSUME Cap!Init PROVE CaptureStage /\ StageTypes
    OBVIOUS
  <1>1. /\ input = [place |-> [f \in InPool |-> "free"], queue |-> << >>, closed |-> FALSE]
        /\ CapInit /\ tagged = {} /\ streamed = {}
    BY CapturerSame DEF Cap!Init, CapInit, In!NewChannel
  <1>2. /\ input.queue = << >> /\ done = << >> /\ Len(<< >>) = 0 /\ drained = 0 /\ capPc = "off"
        /\ capFrame = NoFrame
    BY <1>1 DEF CapInit
  <1>3. Filling
    <2>1. Sound(input, InPool)
      BY <1>1 DEF Sound, ChannelsOf, FramePlaces
    <2> QED
      BY <1>1, <1>2, <2>1, CapturerAssumption DEF Filling
  <1>4. BufferOwners
    BY <1>1 DEF CapInit, BufferOwners, SwitchedOn
  <1>5. Draining
    <2>1. Cardinality(Taken) \in Nat
      BY TakenCount DEF Taken
    <2> QED
      BY <1>2, <2>1 DEF Draining, FilledOnce
  <1>6. FrontOK
    BY <1>1, <1>2 DEF CapInit, FrontOK, QOrder, Tags
  <1>7. InOrder(Line(Behind, Front))
    <2>1. \A i \in 0 .. 8 : Line(Behind, Front)[i] = {}
      <3>1. \A i \in 0 .. 4 : Behind[i] = {}
        BY <1>1 DEF Behind
      <3>2. ~Copied /\ ~Copying
        BY <1>2 DEF Copied, Copying
      <3>3. QMarks(input.queue, inImage) = {} /\ QMarks(done, vbImage) = {}
        BY <1>2 DEF QMarks
      <3> QED
        BY <3>1, <3>2, <3>3, LinesAre, TenStations
    <2> QED
      BY <2>1 DEF InOrder, Before
  <1>8. StageTypes
    <2>1. 0 \in 0 .. Decimation /\ 0 \in 0 .. Cardinality(Buffers)
      BY CapturerAssumption, FS_CardinalityType
    <2>2. capturing = FALSE /\ skipCount = 0 /\ drained = 0 /\ device = "closed"
      BY <1>1 DEF CapInit
    <2> QED
      BY <1>1, <1>2, <2>1, <2>2 DEF StageTypes
  <1> QED
    BY <1>2, <1>3, <1>4, <1>5, <1>6, <1>7, <1>8 DEF CaptureStage, Streaming, FrontInOrder

\* What no step but Pop changes.
LEMMA BehindKept ==
    ASSUME FrontOK', InOrder(Line(Behind, Front')), UNCHANGED streamed
    PROVE  FrontInOrder(Behind)'
  <1>1. Behind' = Behind
    BY DEF Behind
  <1>2. Line(Behind, Front)' = Line(Behind, Front')
    BY <1>1 DEF Line
  <1> QED
    BY <1>2 DEF FrontInOrder

\* Opening, and the stream that goes on.
LEMMA StageOpens ==
    ASSUME CaptureStage, OpenDevice \/ OpenFails \/ StartFails \/ StartCapture, UNCHANGED <<tagged, streamed>>
    PROVE  CaptureStage'
  <1>1. UNCHANGED <<input, inImage, vbImage, done, capBuf, capFrame, drained>> /\ capPc = "off"
        /\ capPc' \in {"off", "head"}
    BY DEF OpenDevice, OpenFails, StartFails, StartCapture, captureVars
  <1>2. Filling'
    BY <1>1 DEF CaptureStage, Filling
  <1>3. BufferOwners' /\ Draining'
    <2>1. CASE OpenDevice
      BY <2>1, BuffersOpen, DrainingOpen DEF CaptureStage
    <2>2. CASE OpenFails \/ StartFails
      <3>1. device \in {"closed", "open"} /\ device' = "halfopen" /\ UNCHANGED <<vb, capPc>>
        BY <2>2 DEF OpenFails, StartFails, captureVars
      <3>2. BufferOwners'
        BY <1>1, <3>1 DEF CaptureStage, BufferOwners, SwitchedOn
      <3>3. Draining'
        BY <1>1, <3>1 DEF CaptureStage, Draining, FilledOnce
      <3> QED
        BY <3>2, <3>3
    <2>3. CASE StartCapture
      <3>1. device = "open" /\ device' = "streaming" /\ UNCHANGED vb /\ capPc' = "head"
        BY <2>3 DEF StartCapture
      <3>2. BufferOwners'
        BY <1>1, <3>1 DEF CaptureStage, BufferOwners, SwitchedOn
      <3> QED
        BY <2>3, <3>2, DrainingSwitch DEF CaptureStage
    <2> QED
      BY <2>1, <2>2, <2>3
  <1>4. Streaming'
    <2>1. capPc' # "off" => device' = "streaming"
      BY <1>1 DEF OpenDevice, OpenFails, StartFails, StartCapture, captureVars
    <2> QED
      BY <2>1 DEF Streaming
  <1>5. FrontInOrder(Behind)'
    <2>1. Copied' = Copied /\ Copying' = Copying
      BY <1>1 DEF Copied, Copying
    <2>2. FrontOK' /\ InOrder(Line(Behind, Front'))
      BY <1>1, <2>1, FrontKept DEF CaptureStage
    <2> QED
      BY <2>2, BehindKept
  <1> QED
    BY <1>2, <1>3, <1>4, <1>5 DEF CaptureStage

LEMMA StageCaptures ==
    ASSUME CaptureStage, CapStep, UNCHANGED <<tagged, streamed>>
    PROVE  CaptureStage'
  <1>1. capPc \notin {"off", "exited"} /\ UNCHANGED device
    BY DEF CapStep, CapHead, SelectTimeout, CaptureBreaks, Dequeue, BorrowInput, DropImage,
           Copy, PushInput, Requeue, deviceVars
  <1>2. device \in {"streaming", "error"}
    BY <1>1 DEF CaptureStage, Streaming
  <1>3. Filling' /\ BufferOwners' /\ Draining' /\ Streaming'
    BY <1>1, <1>2, FillingCapture, BuffersCapture, DrainingCapture DEF CaptureStage, Streaming
  <1>4. FrontOK' /\ InOrder(Line(Behind, Front'))
    BY FrontCapture DEF CaptureStage
  <1> QED
    BY <1>3, <1>4, BehindKept DEF CaptureStage

LEMMA StageFilled ==
    ASSUME CaptureStage, NEW tag \in Cap!NextTag, Complete(tag),
           tagged' = tagged \cup ({tag} \ {"plain"}), UNCHANGED streamed
    PROVE  CaptureStage'
  <1>1. UNCHANGED <<input, capPc, capFrame, device>>
    BY DEF Complete, captureVars
  <1>2. Filling' /\ BufferOwners' /\ Draining' /\ Streaming'
    BY <1>1, BuffersFilled, DrainingFilled DEF CaptureStage, Filling, Streaming
  <1>3. FrontOK' /\ InOrder(Line(Behind, Front'))
    BY FrontCamera DEF CaptureStage
  <1> QED
    BY <1>2, <1>3, BehindKept DEF CaptureStage

LEMMA StageFails ==
    ASSUME CaptureStage, QueueError, UNCHANGED <<tagged, streamed>>
    PROVE  CaptureStage'
  <1>1. /\ UNCHANGED <<input, inImage, vb, done, vbImage, capPc, capBuf, capFrame, drained>>
        /\ device' = "error"
    BY DEF QueueError, captureVars
  <1>2. Filling' /\ BufferOwners' /\ Draining' /\ Streaming'
    BY <1>1, BuffersFail, DrainingFail DEF CaptureStage, Filling, Streaming
  <1>3. FrontOK' /\ InOrder(Line(Behind, Front'))
    BY <1>1, FrontKept DEF CaptureStage, Copied, Copying
  <1> QED
    BY <1>2, <1>3, BehindKept DEF CaptureStage

LEMMA StageStops ==
    ASSUME CaptureStage, StopCapture \/ DrainTurn \/ DrainBreaks \/ StreamOff,
           UNCHANGED <<tagged, streamed>>
    PROVE  CaptureStage'
  <1>1. UNCHANGED <<input, inImage, vbImage, capPc, capBuf, capFrame>>
    BY DEF StopCapture, DrainTurn, DrainBreaks, StreamOff, deviceVars, captureVars
  <1>2. Filling'
    BY <1>1 DEF CaptureStage, Filling
  <1>3. CASE StopCapture
    <2>1. UNCHANGED <<device, vb, done, drained>>
      BY <1>3 DEF StopCapture, deviceVars
    <2>2. Copied' = Copied /\ Copying' = Copying
      BY <1>1 DEF Copied, Copying
    <2>3. FrontOK' /\ InOrder(Line(Behind, Front'))
      BY <1>1, <2>1, <2>2, FrontKept DEF CaptureStage
    <2>4. BufferOwners' /\ Draining' /\ Streaming'
      BY <1>1, <2>1, BuffersKept, DrainingKept DEF CaptureStage, Streaming
    <2> QED
      BY <1>2, <2>3, <2>4, BehindKept DEF CaptureStage
  <1>4. CASE DrainTurn \/ DrainBreaks \/ StreamOff
    <2>1. capPc \in {"off", "exited"}
      BY <1>4 DEF DrainTurn, DrainBreaks, StreamOff, Joined
    <2>2. BufferOwners' /\ Draining'
      <3>1. CASE DrainTurn \/ DrainBreaks
        BY <2>1, <3>1, BuffersDrain, DrainingDrain DEF CaptureStage
      <3>2. CASE StreamOff
        BY <3>2, BuffersOff, DrainingOff DEF CaptureStage
      <3> QED
        BY <1>4, <3>1, <3>2
    <2>3. Streaming'
      BY <1>1, <2>1 DEF Streaming
    <2>4. FrontOK' /\ InOrder(Line(Behind, Front'))
      BY <1>4, FrontStop DEF CaptureStage
    <2> QED
      BY <1>2, <2>2, <2>3, <2>4, BehindKept DEF CaptureStage
  <1> QED
    BY <1>3, <1>4

\* The other side takes the oldest image, and gives frames back.
LEMMA StagePops ==
    ASSUME CaptureStage, Cap!Pop
    PROVE  CaptureStage'
  <1> PICK h : h = Head(input.queue)
    OBVIOUS
  <1>1. /\ input.queue # << >>
        /\ input' = [input EXCEPT !.place[Head(input.queue)] = "reading", !.queue = Tail(@)]
        /\ streamed' = streamed \cup Mark(inImage[h])
        /\ UNCHANGED <<inImage, device, vb, done, vbImage, capturing, capPc, capBuf, capFrame,
                       drained, tagged>>
    BY DEF Cap!Pop, Cap!In!CanPop, Cap!In!Popped, Cap!deviceVars, Cap!captureVars, Mark, Marks
  <1>2. /\ Sound(input', InPool) /\ h \in InPool /\ input.place[h] = "queued"
        /\ input'.place = [input.place EXCEPT ![h] = "reading"]
    BY <1>1, PopSound DEF CaptureStage, Filling
  <1>3. input'.queue = Tail(input.queue) /\ input.queue \in Seq(InPool)
    BY <1>1 DEF CaptureStage, Filling, Sound, ChannelsOf
  <1>4. Filling'
    BY <1>1, <1>2, FillingPlaces DEF CaptureStage, Filling
  <1>5. BufferOwners' /\ Draining' /\ Streaming'
    BY <1>1, BuffersKept, DrainingKept DEF CaptureStage, Streaming
  <1>6. /\ QOrder(input'.queue, inImage) /\ Mark(inImage[h]) \subseteq QMarks(input.queue, inImage)
        /\ QMarks(input'.queue, inImage) \subseteq QMarks(input.queue, inImage)
        /\ Before(Mark(inImage[h]), QMarks(input'.queue, inImage))
    BY <1>1, <1>3, QueueTail DEF CaptureStage, FrontInOrder, FrontOK
  <1>7. FrontOK'
    BY <1>1, <1>6 DEF CaptureStage, FrontInOrder, FrontOK
  <1> DEFINE new == Line(Behind', Front')
  <1>8. /\ \A i \in 0 .. 3 : new[i] = {}
        /\ new[4] = streamed \cup Mark(inImage[h])
        /\ \A i \in 5 .. 9 : new[i] = Line(Behind, Front')[i]
    BY <1>1 DEF Line, Behind
  <1>9. /\ new[4] \subseteq Line(Behind, Front)[4] \cup Line(Behind, Front)[5]
        /\ Line(Behind, Front)[4] = streamed /\ Line(Behind, Front)[5] = QMarks(input.queue, inImage)
    <2>1. Line(Behind, Front)[4] = streamed
      BY DEF Line, Behind
    <2> QED
      BY <1>6, <1>8, <2>1, LinesAre
  <1>10. new[5] = QMarks(input'.queue, inImage)
    BY <1>1, <1>8, LinesAre
  <1>11. \A i \in 0 .. 9 : i # 4 => new[i] \subseteq Line(Behind, Front)[i]
    <2>1. Copied' = Copied /\ Copying' = Copying
      BY <1>1 DEF Copied, Copying
    <2>2. \A i \in 6 .. 9 : new[i] = Line(Behind, Front)[i]
      <3>1. new[6] = Line(Behind, Front)[6] /\ new[7] = Line(Behind, Front)[7]
        BY <1>1, <1>8, <2>1, LinesAre
      <3>2. new[8] = Line(Behind, Front)[8] /\ new[9] = Line(Behind, Front)[9]
        BY <1>1, <1>8, LinesAre
      <3> HIDE DEF new
      <3> QED
        BY <3>1, <3>2, TenStations
    <2> HIDE DEF new
    <2> QED
      BY <1>6, <1>8, <1>9, <1>10, <2>2, TenStations
  <1>12. Before(new[4], new[5])
    <2>1. Before(Line(Behind, Front)[4], Line(Behind, Front)[5])
      BY 4 \in 0 .. 9, 5 \in 0 .. 9, 4 < 5 DEF CaptureStage, FrontInOrder, InOrder
    <2> QED
      BY <1>6, <1>8, <1>9, <1>10, <2>1 DEF Before
  <1> HIDE DEF new
  <1>13. InOrder(new)
    BY <1>9, <1>11, <1>12, Advance, 5 \in 1 .. 9, 5 - 1 = 4 DEF CaptureStage, FrontInOrder
  <1> QED
    BY <1>4, <1>5, <1>7, <1>13 DEF CaptureStage, FrontInOrder, Line, new

LEMMA StageGivesBack ==
    ASSUME CaptureStage, Cap!GiveBack
    PROVE  CaptureStage'
  <1>1. PICK f \in InPool : input.place[f] = "reading" /\ input' = Moved(input, f, "free")
    BY DEF Cap!GiveBack, Cap!In!At, Cap!In!Returned, Moved
  <1>2. UNCHANGED <<inImage, device, vb, done, vbImage, capturing, capPc, capBuf, capFrame,
                    drained, tagged, streamed>>
    BY DEF Cap!GiveBack, Cap!deviceVars, Cap!captureVars
  <1>3. /\ Sound(input', InPool) /\ input'.place = [input.place EXCEPT ![f] = "free"]
        /\ input'.queue = input.queue
    BY <1>1, Somewhere, MoveSound DEF CaptureStage, Filling
  <1>4. Filling'
    BY <1>1, <1>2, <1>3, FillingPlaces DEF CaptureStage, Filling
  <1>5. BufferOwners' /\ Draining' /\ Streaming'
    BY <1>2, BuffersKept, DrainingKept DEF CaptureStage, Streaming
  <1>6. FrontOK' /\ InOrder(Line(Behind, Front'))
    <2>1. Copied' = Copied /\ Copying' = Copying
      BY <1>2 DEF Copied, Copying
    <2> QED
      BY <1>2, <1>3, <2>1, FrontKept DEF CaptureStage
  <1> QED
    BY <1>2, <1>4, <1>5, <1>6, BehindKept DEF CaptureStage

LEMMA StageKept ==
    ASSUME CaptureStage, UNCHANGED Cap!stageVars
    PROVE  CaptureStage'
  <1>1. UNCHANGED <<input, inImage, device, vb, done, vbImage, capturing, capPc, capBuf, capFrame,
                    drained, tagged, streamed>>
    BY DEF Cap!stageVars, Cap!capVars, Cap!deviceVars, Cap!captureVars
  <1>2. Filling' /\ BufferOwners' /\ Draining' /\ Streaming'
    BY <1>1, BuffersKept, DrainingKept DEF CaptureStage, Filling, Streaming
  <1>3. FrontOK' /\ InOrder(Line(Behind, Front'))
    BY <1>1, FrontKept DEF CaptureStage, Copied, Copying
  <1> QED
    BY <1>1, <1>2, <1>3, BehindKept DEF CaptureStage

LEMMA StageStep == CaptureStage /\ [Cap!Next]_(Cap!stageVars) => CaptureStage'
  <1> SUFFICES ASSUME CaptureStage, Cap!Next \/ UNCHANGED Cap!stageVars PROVE CaptureStage'
    OBVIOUS
  <1>1. CASE Cap!Program(Cap!OpenDevice \/ Cap!OpenFails \/ Cap!StartFails \/ Cap!StartCapture)
    BY <1>1, CapturerSame, StageOpens DEF Cap!Program
  <1>2. CASE Cap!Program(Cap!CapStep)
    BY <1>2, CapturerSame, StageCaptures DEF Cap!Program
  <1>3. CASE \E tag \in Cap!NextTag : Cap!Camera(tag)
    <2>1. PICK tag \in Cap!NextTag : Cap!Camera(tag)
      BY <1>3
    <2>2. Complete(tag) /\ tagged' = tagged \cup ({tag} \ {"plain"}) /\ UNCHANGED streamed
      BY <2>1, CapturerSame DEF Cap!Camera
    <2> QED
      BY <2>2, StageFilled
  <1>4. CASE Cap!Program(capturing /\ Cap!StopCapture) \/ Cap!Program(Cap!MayStop /\ Cap!StopStep)
    BY <1>4, CapturerSame, StageStops DEF Cap!Program
  <1>5. CASE Cap!Pop
    BY <1>5, StagePops
  <1>6. CASE Cap!GiveBack
    BY <1>6, StageGivesBack
  <1>7. CASE UNCHANGED Cap!stageVars
    BY <1>7, StageKept
  <1>8. CASE Cap!Program(Cap!QueueError)
    BY <1>8, CapturerSame, StageFails DEF Cap!Program
  <1> QED
    BY <1>1, <1>2, <1>3, <1>4, <1>5, <1>6, <1>7, <1>8 DEF Cap!Next

LEMMA StageInvariant == Cap!Spec => []CaptureStage
  BY StageInit, StageStep, PTL DEF Cap!Spec

LEMMA CaptureTypes ==
    ASSUME StageTypes, CapStep
    PROVE  /\ skipCount' \in 0 .. Decimation
           /\ UNCHANGED <<capturing, device, drained>>
           /\ capPc' \in {"head", "select", "borrow", "copy", "push", "requeue", "exited"}
  <1>1. skipCount' \in 0 .. Decimation
    <2>1. Decimation \in Nat /\ skipCount \in 0 .. Decimation
      BY CapturerAssumption DEF StageTypes
    <2>2. skipCount' = skipCount \/ skipCount' = 0
          \/ (skipCount < Decimation /\ skipCount' = skipCount + 1)
      BY DEF CapStep, CapHead, SelectTimeout, CaptureBreaks, Dequeue, BorrowInput,
             DropImage, Copy, PushInput, Requeue
    <2> QED
      BY <2>1, <2>2
  <1>2. UNCHANGED <<capturing, device, drained>>
    BY DEF CapStep, CapHead, SelectTimeout, CaptureBreaks, Dequeue, BorrowInput, DropImage,
           Copy, PushInput, Requeue, deviceVars
  <1>3. capPc' \in {"head", "select", "borrow", "copy", "push", "requeue", "exited"}
    BY DEF CapStep, CapHead, SelectTimeout, CaptureBreaks, Dequeue, BorrowInput, DropImage,
           Copy, PushInput, Requeue, deviceVars
  <1> QED
    BY <1>1, <1>2, <1>3

LEMMA StopTypes ==
    ASSUME drained \in 0 .. Cardinality(Buffers),
           StopCapture \/ DrainTurn \/ DrainBreaks \/ StreamOff
    PROVE  drained' \in 0 .. Cardinality(Buffers)
  <1>1. Cardinality(Buffers) \in Nat
    BY CapturerAssumption, FS_CardinalityType
  <1>2. drained' \in {0, drained} \/ (drained < Cardinality(Buffers) /\ drained' = drained + 1)
    BY DEF StopCapture, DrainTurn, DrainBreaks, StreamOff, captureVars
  <1> QED
    BY <1>1, <1>2

LEMMA StageTypesStep == StageTypes /\ [Cap!Next]_(Cap!stageVars) => StageTypes'
  <1> SUFFICES ASSUME StageTypes, Cap!Next \/ UNCHANGED Cap!stageVars PROVE StageTypes'
    OBVIOUS
  <1>1. CASE Cap!Program(Cap!OpenDevice \/ Cap!OpenFails \/ Cap!StartFails \/ Cap!StartCapture)
    <2>1. OpenDevice \/ OpenFails \/ StartFails \/ StartCapture
      BY <1>1, CapturerSame DEF Cap!Program
    <2> QED
      BY <1>1, <2>1 DEF Cap!Program, OpenDevice, OpenFails, StartFails, StartCapture, captureVars,
                        StageTypes
  <1>2. CASE Cap!Program(Cap!CapStep)
    <2>1. CapStep
      BY <1>2, CapturerSame DEF Cap!Program
    <2> QED
      BY <1>2, <2>1, CaptureTypes DEF Cap!Program, StageTypes
  <1>3. CASE \E tag \in Cap!NextTag : Cap!Camera(tag)
    BY <1>3 DEF Cap!Camera, Cap!Complete, Cap!captureVars, Cap!NextTag, StageTypes, Marks
  <1>4. CASE Cap!Program(capturing /\ Cap!StopCapture) \/ Cap!Program(Cap!MayStop /\ Cap!StopStep)
    <2>1. StopCapture \/ DrainTurn \/ DrainBreaks \/ StreamOff
      BY <1>4, CapturerSame DEF Cap!Program
    <2>2. drained' \in 0 .. Cardinality(Buffers)
      BY <2>1, StopTypes DEF StageTypes
    <2> QED
      BY <1>4, <2>1, <2>2 DEF Cap!Program, StopCapture, DrainTurn, DrainBreaks, StreamOff, deviceVars,
                              captureVars, StageTypes
  <1>5. CASE Cap!Pop \/ Cap!GiveBack
    BY <1>5 DEF Cap!Pop, Cap!GiveBack, Cap!deviceVars, Cap!captureVars, StageTypes, Marks
  <1>6. CASE UNCHANGED Cap!stageVars
    BY <1>6 DEF Cap!stageVars, Cap!capVars, Cap!deviceVars, Cap!captureVars, StageTypes
  <1>7. CASE Cap!Program(Cap!QueueError)
    BY <1>7, CapturerSame DEF Cap!Program, QueueError, captureVars, StageTypes
  <1> QED
    BY <1>1, <1>2, <1>3, <1>4, <1>5, <1>6, <1>7 DEF Cap!Next

\* The variables of the capturer's stage keep their types, also when opening
\* the device or reading from it fails.
THEOREM CapturerTypeCorrect == Cap!Spec => []Cap!TypeOK
  <1>1. CaptureStage /\ StageTypes => Cap!TypeOK
    <2> SUFFICES ASSUME CaptureStage, StageTypes PROVE Cap!TypeOK
      OBVIOUS
    <2>1. input \in Cap!In!Channels
      BY DEF CaptureStage, Filling, Sound, ChannelsOf, FramePlaces, Cap!In!Channels, Cap!In!Places
    <2>2. drained \in 0 .. Cardinality(Buffers)
      BY DEF StageTypes
    <2>3. /\ inImage \in [InPool -> Cap!Tags] /\ vbImage \in [Buffers -> Cap!Tags]
      BY DEF CaptureStage, FrontInOrder, FrontOK, Tags, Cap!Tags
    <2>4. /\ vb \in [Buffers -> {"app", "driver", "done"}] /\ done \in Seq(Buffers)
          /\ capBuf \in Buffers \cup {NoBuffer} /\ capFrame \in InPool \cup {NoFrame}
      BY DEF CaptureStage, BufferOwners, Filling
    <2>5. Cap!CapTypeOK
      BY <2>1, <2>2, <2>3, <2>4, SizeSame DEF StageTypes, Cap!CapTypeOK
    <2> QED
      BY <2>5 DEF StageTypes, Marks, Cap!TypeOK
  <1>2. Cap!Spec => []StageTypes
    BY StageInit, StageTypesStep, PTL DEF Cap!Spec
  <1> QED
    BY <1>1, <1>2, StageInvariant, PTL

(***************************************************************************)
(* Also of a capturer whose device fails, and whose stop() comes from the  *)
(* destructor: no buffer is forgotten, and the copy is private.            *)
(***************************************************************************)
THEOREM FailingCapturerOwns == Cap!Spec => []Cap!NoBufferForgotten /\ []Cap!CopyIsPrivate
  <1>1. CaptureStage => Cap!NoBufferForgotten
    BY CapturerAssumption DEF CaptureStage, BufferOwners, Cap!NoBufferForgotten, Cap!Held
  <1>2. CaptureStage => Cap!CopyIsPrivate
    <2> SUFFICES ASSUME CaptureStage, capPc = "copy"
                 PROVE  vb[capBuf] = "app" /\ input.place[capFrame] = "filling"
      BY DEF Cap!CopyIsPrivate
    <2>1. vb[capBuf] = "app"
      BY DEF CaptureStage, BufferOwners
    <2> QED
      BY <2>1, CapturerAssumption DEF CaptureStage, Filling
  <1> QED
    BY <1>1, <1>2, StageInvariant, PTL

(***************************************************************************)
(* Its stop() too leaves no buffer with a driver that streams, also when   *)
(* the capture thread has ended before, unless vb2_queue_error() has put   *)
(* the queue in error or a select() of the drain ends without a buffer.    *)
(***************************************************************************)
THEOREM FailingCapturerDrains == Cap!Spec => Cap!DrainedBeforeStreamoff
  <1> DEFINE Quiet == device = "streaming" /\ device' = "closed" => Cap!AtDriver = {}
  <1>1. ASSUME CaptureStage, [Cap!Next]_(Cap!stageVars) PROVE [Quiet]_(Cap!capVars)
    <2> SUFFICES ASSUME device = "streaming", device' = "closed" PROVE AtDriver = {}
      BY DEF AtDriver, Cap!AtDriver
    <2>1. StreamOff
      <3>1. CapStep => device' = device
        BY DEF CapStep, CapHead, SelectTimeout, CaptureBreaks, Dequeue, BorrowInput, DropImage,
               Copy, PushInput, Requeue, deviceVars
      <3>2. OpenDevice \/ OpenFails \/ StartFails \/ StartCapture \/ QueueError \/ StopCapture
               \/ DrainTurn \/ DrainBreaks
            => device' # "closed"
        BY DEF OpenDevice, OpenFails, StartFails, StartCapture, QueueError, StopCapture, DrainTurn,
               DrainBreaks, deviceVars
      <3>3. (\E tag \in Cap!NextTag : Cap!Camera(tag)) \/ Cap!Pop \/ Cap!GiveBack
            \/ UNCHANGED Cap!stageVars => device' = device
        BY DEF Cap!Camera, Cap!Complete, Cap!Pop, Cap!GiveBack, Cap!deviceVars, Cap!stageVars,
               Cap!capVars
      <3> QED
        BY <1>1, <3>1, <3>2, <3>3, CapturerSame DEF Cap!Next, Cap!Program
    <2>2. drained = Cardinality(Buffers)
      BY <2>1 DEF StreamOff, DrainEnds
    <2>3. /\ Cardinality(Taken) \in Nat /\ Cardinality(Taken) <= Cardinality(Buffers)
          /\ Cardinality(Taken) = Cardinality(Buffers) => Taken = Buffers
      BY TakenCount DEF Taken
    <2>4. drained \in Nat /\ drained <= Cardinality(Taken)
      BY <1>1 DEF CaptureStage, Draining
    <2>5. Taken = Buffers
      BY <2>2, <2>3, <2>4
    <2> QED
      BY <2>5 DEF Taken, AtDriver
  <1>2. CaptureStage /\ [Cap!Next]_(Cap!stageVars) => [Quiet]_(Cap!capVars)
    BY <1>1
  <1> QED
    BY <1>2, StageInvariant, PTL DEF Cap!Spec, Cap!DrainedBeforeStreamoff

(***************************************************************************)
(* Whatever the device does, and whenever the other side pops and gives    *)
(* back: the marked images leave the input queue in the order they were    *)
(* taken in, each at most once, although buffers and frames are reused.    *)
(***************************************************************************)
THEOREM CapturerKeepsOrder == Cap!Spec => Cap!CapturedInOrder
  <1> DEFINE InTurn ==
        Cap!In!CanPop(input) /\ input'.queue = Tail(input.queue) /\
        inImage[Head(input.queue)] \in {"first", "second"}
          => /\ inImage[Head(input.queue)] \notin streamed
             /\ inImage[Head(input.queue)] = "first" => "second" \notin streamed
  <1>1. CaptureStage => InTurn
    <2> SUFFICES ASSUME CaptureStage, input.queue # << >>,
                        inImage[Head(input.queue)] \in {"first", "second"}
                 PROVE  /\ inImage[Head(input.queue)] \notin streamed
                        /\ inImage[Head(input.queue)] = "first" => "second" \notin streamed
      BY DEF Cap!In!CanPop
    <2>1. Mark(inImage[Head(input.queue)]) \subseteq QMarks(input.queue, inImage)
      BY QueueTail DEF CaptureStage, Filling, Sound, ChannelsOf, FrontInOrder, FrontOK
    <2>2. Before(Line(Behind, Front)[4], Line(Behind, Front)[5])
      BY 4 \in 0 .. 9, 5 \in 0 .. 9, 4 < 5 DEF CaptureStage, FrontInOrder, InOrder
    <2>3. Line(Behind, Front)[4] = streamed /\ Line(Behind, Front)[5] = QMarks(input.queue, inImage)
      BY DEF Line, Behind, Front
    <2> QED
      BY <2>1, <2>2, <2>3 DEF Before, Mark, Marks
  <1> QED
    BY <1>1, StageInvariant, PTL DEF Cap!CapturedInOrder

-----------------------------------------------------------------------------
(* What the components do to one another: facts about the UI and about the *)
(* images that the two refinements below need                              *)

\* The UI edits the pipeline while it applies a sequence and at no other time.
Editing == editor = "idle" <=> uiPc # "apply"

LEMMA EditingStep == Editing /\ [Next]_vars => Editing'
  <1> SUFFICES ASSUME Editing, [Next]_vars PROVE Editing'
    OBVIOUS
  <1> USE DEF Editing
  <1>1. CASE UiThread
    <2>1. CASE UI!UiHead \/ UI!UiNothing \/ UI!UiError \/ UI!UiEof
      BY <2>1 DEF UI!UiHead, UI!UiNothing, UI!UiError, UI!UiEof, UI!procVars, UI!editVars
    <2>2. CASE UI!UiApply
      BY <2>2 DEF UI!UiApply, UI!BeginEdit
    <2>3. CASE UI!UiApplying
      BY <2>3 DEF UI!UiApplying
    <2> QED
      BY <1>1, <2>1, <2>2, <2>3 DEF UiThread, UiAct
  <1>2. CASE ProcessorThread
    <2>1. UNCHANGED uiPc
      BY <1>2 DEF ProcessorThread, ProcAct, uiOwn
    <2>2. editor' = "idle" <=> editor = "idle"
      BY <1>2 DEF ProcessorThread, ProcAct, UI!ProcStep, UI!LoopHead, UI!PopInput, UI!PopThrows,
                  UI!BorrowOutput, UI!SkipFrame, UI!Swap, UI!NotifySwap, UI!Filter,
                  UI!PushOutput, UI!ReturnInput, UI!editVars
    <2> QED
      BY <2>1, <2>2
  <1>3. CASE \/ CaptureThread \/ TxThread \/ LoopThread \/ LibraryThreads \/ Camera \/ CameraFails
             \/ Signal \/ CheckStop \/ Configure \/ UNCHANGED vars
    BY <1>3 DEF CaptureThread, TxThread, LoopThread, LibraryThreads, Camera, CameraFails, Signal,
                CheckStop, Configure, CapAct, TxAct, OthersUnchanged, vars, procOwn, uiOwn
  <1>4. CASE StartAll
    BY <1>4 DEF StartAll, CapAct, ProcAct, UiAct, TxAct, procOwn, uiOwn, UI!Start, UI!StartUi,
                UI!procVars, UI!editVars
  <1>5. CASE StopAll
    BY <1>5 DEF StopAll, Joins, CapAct, ProcAct, UiAct, TxAct, OthersUnchanged, procOwn, uiOwn,
                UI!StopUi, UI!StopRequest, UI!StopNotify, UI!procVars, UI!editVars
  <1> QED
    BY <1>1, <1>2, <1>3, <1>4, <1>5 DEF Next, MainThread, Terminated

LEMMA EditingInvariant == Spec => []Editing
  <1>1. Init => Editing
    BY DEF Init, UI!ProcInit, UI!UiInit, Editing
  <1> QED
    BY <1>1, EditingStep, PTL DEF Spec

\* What the driver has filled, and what is copied from it, shows an image.
Pictures ==
    /\ inImage \in [InPool -> Tags] /\ outImage \in [OutPool -> Tags]
    /\ vbImage \in [Buffers -> Tags]
    /\ \A k \in 1 .. Len(done) : vbImage[done[k]] # "blank"
    /\ capBuf # NoBuffer => vbImage[capBuf] # "blank"
    /\ capPc = "push" => inImage[capFrame] # "blank"

LEMMA PicturesKept ==
    ASSUME Pictures, UNCHANGED <<inImage, outImage, vbImage, done, capBuf, capFrame>>,
           capPc' = "push" => capPc = "push"
    PROVE  Pictures'
  BY DEF Pictures

LEMMA PicturesCapture ==
    ASSUME InputOwners, BufferOwners, Pictures, CaptureThread
    PROVE  Pictures'
  <1>1. UNCHANGED outImage
    BY DEF CaptureThread, CapAct
  <1>2. CASE Dequeue
    <2>1. /\ done # << >> /\ done' = Tail(done) /\ capBuf' = Head(done)
          /\ capPc' # "push" /\ UNCHANGED <<inImage, vbImage>>
      BY <1>2 DEF Dequeue, TakeDone
    <2>2. /\ Len(done) \in Nat /\ Len(done) # 0 /\ Head(done) = done[1]
          /\ Len(Tail(done)) = Len(done) - 1
          /\ \A k \in 1 .. Len(Tail(done)) : Tail(done)[k] = done[k + 1]
      BY <2>1, HeadTailProperties, EmptySeq, LenProperties DEF BufferOwners
    <2>3. \A k \in 1 .. Len(done') : vbImage[done'[k]] # "blank"
      BY <2>1, <2>2 DEF Pictures
    <2>4. vbImage[Head(done)] # "blank"
      BY <2>2 DEF Pictures
    <2> QED
      BY <1>1, <2>1, <2>3, <2>4 DEF Pictures
  <1>3. CASE Copy
    <2>1. /\ inImage' = [inImage EXCEPT ![capFrame] = vbImage[capBuf]]
          /\ capPc = "copy" /\ UNCHANGED <<vbImage, done, capBuf, capFrame>>
      BY <1>3 DEF Copy, deviceVars
    <2>2. capFrame \in InPool /\ capBuf # NoBuffer /\ capBuf \in Buffers
      BY <2>1 DEF InputOwners, BufferOwners
    <2>3. vbImage[capBuf] \in Tags /\ vbImage[capBuf] # "blank"
      BY <2>2 DEF Pictures
    <2> QED
      BY <1>1, <2>1, <2>2, <2>3 DEF Pictures
  <1>4. CASE CapHead \/ SelectTimeout \/ CaptureBreaks \/ BorrowInput \/ DropImage
             \/ PushInput \/ Requeue
    <2>1. /\ UNCHANGED <<inImage, vbImage, done>> /\ capPc' # "push"
          /\ capBuf' \in {capBuf, NoBuffer}
      BY <1>4 DEF CapHead, SelectTimeout, CaptureBreaks, BorrowInput, DropImage, PushInput, Requeue,
                  deviceVars
    <2> QED
      BY <1>1, <2>1 DEF Pictures
  <1> QED
    BY <1>2, <1>3, <1>4 DEF CaptureThread, CapAct, CapStep

LEMMA PicturesFilled ==
    ASSUME BufferOwners, Pictures, Camera
    PROVE  Pictures'
  <1>1. PICK tag \in NextTag : CapAct(Complete(tag))
    BY DEF Camera
  <1>2. tag \in Tags /\ tag # "blank"
    BY DEF NextTag, Tags
  <1>3. PICK b \in Buffers : done' = Append(done, b) /\ vbImage' = [vbImage EXCEPT ![b] = tag]
    BY <1>1 DEF CapAct, Complete
  <1>4. UNCHANGED <<inImage, outImage, capBuf, capFrame, capPc>>
    BY <1>1 DEF CapAct, Complete, captureVars
  <1>5. \A x \in Buffers : vbImage[x] # "blank" => vbImage'[x] # "blank"
    BY <1>2, <1>3 DEF Pictures
  <1>6. /\ Len(done) \in Nat /\ Len(done') = Len(done) + 1 /\ done'[Len(done) + 1] = b
        /\ \A k \in 1 .. Len(done) : done'[k] = done[k] /\ done[k] \in Buffers
    BY <1>3, AppendProperties, LenProperties, ElementOfSeq DEF BufferOwners
  <1>7. \A k \in 1 .. Len(done') : k \in 1 .. Len(done) \/ k = Len(done) + 1
    BY <1>6
  <1>8. vbImage' \in [Buffers -> Tags] /\ vbImage'[b] = tag
    BY <1>2, <1>3 DEF Pictures
  <1>9. \A k \in 1 .. Len(done') : vbImage'[done'[k]] # "blank"
    <2> TAKE k \in 1 .. Len(done')
    <2>1. CASE k \in 1 .. Len(done)
      BY <1>5, <1>6, <2>1 DEF Pictures
    <2>2. CASE k = Len(done) + 1
      BY <1>2, <1>6, <1>8, <2>2
    <2> QED
      BY <1>7, <2>1, <2>2
  <1>10. capBuf # NoBuffer => vbImage'[capBuf] # "blank"
    BY <1>5 DEF Pictures, BufferOwners
  <1> QED
    BY <1>4, <1>8, <1>9, <1>10 DEF Pictures

LEMMA PicturesProcessor ==
    ASSUME InputOwners, OutputOwners, Pictures, ProcessorThread
    PROVE  Pictures'
  <1>1. UNCHANGED <<vbImage, done, capBuf, capFrame, capPc>>
    BY DEF ProcessorThread, ProcAct, capOwn
  <1>2. CASE UI!Filter
    <2>1. procIn \in InPool /\ procOut \in OutPool /\ UNCHANGED inImage
      BY <1>2 DEF UI!Filter, InputOwners, OutputOwners
    <2>2. outImage' = outImage \/ outImage' = [outImage EXCEPT ![procOut] = inImage[procIn]]
      BY <1>2 DEF UI!Filter
    <2>3. outImage' \in [OutPool -> Tags]
      BY <2>1, <2>2 DEF Pictures
    <2> QED
      BY <1>1, <2>1, <2>3 DEF Pictures
  <1>3. CASE ~UI!Filter
    <2>1. UNCHANGED <<inImage, outImage>>
      BY <1>3 DEF ProcessorThread, ProcAct, UI!ProcStep, UI!LoopHead, UI!PopInput, UI!PopThrows,
                  UI!BorrowOutput, UI!SkipFrame, UI!Swap, UI!NotifySwap, UI!PushOutput,
                  UI!ReturnInput, UI!channelVars
    <2> QED
      BY <1>1, <2>1, PicturesKept
  <1> QED
    BY <1>2, <1>3

LEMMA PicturesStop ==
    ASSUME BufferOwners, Pictures, CapAct(DrainTurn \/ DrainBreaks) \/ CapAct(StreamOff)
    PROVE  Pictures'
  <1>1. UNCHANGED <<inImage, outImage, vbImage, capBuf, capFrame, capPc>>
    BY DEF CapAct, DrainTurn, DrainBreaks, StreamOff, captureVars
  <1>2. CASE done # << >> /\ done' = Tail(done)
    <2>1. /\ Len(done) \in Nat /\ Len(done) # 0
          /\ Len(done') = Len(done) - 1
          /\ \A k \in 1 .. Len(done') : done'[k] = done[k + 1]
      BY <1>2, HeadTailProperties, EmptySeq, LenProperties DEF BufferOwners
    <2>2. \A k \in 1 .. Len(done') : vbImage[done'[k]] # "blank"
      BY <2>1 DEF Pictures
    <2> QED
      BY <1>1, <2>2 DEF Pictures
  <1>3. CASE done' = << >>
    <2>1. Len(done') = 0
      BY <1>3
    <2> QED
      BY <1>1, <2>1 DEF Pictures
  <1>4. CASE done' = done
    BY <1>1, <1>4 DEF Pictures
  <1> QED
    BY <1>2, <1>3, <1>4 DEF CapAct, DrainTurn, DrainBreaks, TakeDone, StreamOff

LEMMA PicturesStep ==
    ASSUME InputOwners, OutputOwners, BufferOwners, Pictures, [Next]_vars
    PROVE  Pictures'
  <1>1. CASE CaptureThread
    BY <1>1, PicturesCapture
  <1>2. CASE Camera
    BY <1>2, PicturesFilled
  <1>3. CASE ProcessorThread
    BY <1>3, PicturesProcessor
  <1>4. CASE CapAct(DrainTurn \/ DrainBreaks) \/ CapAct(StreamOff)
    BY <1>4, PicturesStop
  <1> DEFINE Still == UNCHANGED <<inImage, outImage, vbImage, done, capBuf, capFrame>>
  <1>5. CASE \/ UiThread \/ TxThread \/ LoopThread \/ LibraryThreads \/ CameraFails
             \/ Signal \/ CheckStop \/ Configure \/ UNCHANGED vars
    <2>1. Still /\ UNCHANGED capPc
      BY <1>5 DEF UiThread, TxThread, LoopThread, LibraryThreads, CameraFails, Signal, CheckStop,
                  Configure, UiAct, TxAct, CapAct, QueueError, captureVars, OthersUnchanged, vars, capOwn, UI!UiHead, UI!UiNothing, UI!UiApplying, UI!UiError,
                  UI!UiEof, UI!UiApply, UI!BeginEdit, UI!FinishEdit, UI!EndEdit, UI!Commit,
                  UI!CommitWait, UI!procVars, UI!channelVars
    <2> QED
      BY <2>1, PicturesKept
  <1>6. CASE StartAll
    <2>1. Still /\ capPc' \in {capPc, "head"}
      BY <1>6 DEF StartAll, CapAct, ProcAct, UiAct, TxAct, capOwn, OpenDevice, StartCapture,
                  UI!Start, UI!StartUi, UI!procVars, UI!channelVars, captureVars
    <2> QED
      BY <2>1, PicturesKept
  <1>7. CASE StopAll /\ ~CapAct(DrainTurn \/ DrainBreaks) /\ ~CapAct(StreamOff)
    <2>1. Still /\ UNCHANGED capPc
      BY <1>7 DEF StopAll, Joins, CapAct, ProcAct, UiAct, TxAct, OthersUnchanged, capOwn,
                  StopCapture, deviceVars, UI!StopUi, UI!StopRequest, UI!StopNotify, UI!procVars,
                  UI!channelVars
    <2> QED
      BY <2>1, PicturesKept
  <1> QED
    BY <1>1, <1>2, <1>3, <1>4, <1>5, <1>6, <1>7 DEF Next, MainThread, Terminated

LEMMA PicturesInvariant == Spec => []Pictures
  <1>1. Init => Pictures
    <2> SUFFICES ASSUME Init PROVE Pictures
      OBVIOUS
    <2>1. Len(done) = 0
      BY DEF Init, CapInit
    <2> QED
      BY <2>1 DEF Init, CapInit, UI!ProcInit, Pictures, Tags
  <1>2. InputOwners /\ OutputOwners /\ BufferOwners /\ Pictures /\ [Next]_vars => Pictures'
    BY PicturesStep
  <1> QED
    BY <1>1, <1>2, InputOwnersInvariant, OutputOwnersInvariant, BufferOwnersInvariant, PTL DEF Spec

-----------------------------------------------------------------------------
(* The streamer.  Its stage has its variables and its steps; what the      *)
(* processor does to the output buffer is to borrow a frame and push it.   *)

LEMMA StreamerSame ==
    /\ Tx!TxStep => TxStage!TxStep
    /\ Tx!LoopStep => TxStage!LoopStep
    /\ Tx!LibraryStep => TxStage!LibraryStep
    /\ Tx!StartStreamer => TxStage!StartStreamer
    /\ Tx!StopStreaming => TxStage!StopStreaming
    /\ Tx!CloseOutput \/ Tx!QuitLoop \/ Tx!UnrefAppsrc => TxStage!StopStep
  <1> USE DEF Tx!txVars, Tx!libVars, TxStage!txVars, TxStage!libVars
  <1>1. ASSUME Tx!TxStep PROVE TxStage!TxStep
    <2>1. CASE Tx!TxHead
      BY <2>1 DEF Tx!TxHead, TxStage!TxHead, TxStage!TxStep
    <2>2. CASE Tx!TxPop
      BY <2>2 DEF Tx!TxPop, TxStage!TxPop, TxStage!TxStep, Tx!Out!CanPop, Tx!Out!Popped,
                  TxStage!Out!CanPop, TxStage!Out!Popped
    <2>3. CASE Tx!TxPopThrows
      BY <2>3 DEF Tx!TxPopThrows, TxStage!TxPopThrows, TxStage!TxStep
    <2>4. CASE Tx!TxReadAppsrc
      BY <2>4 DEF Tx!TxReadAppsrc, TxStage!TxReadAppsrc, TxStage!TxStep
    <2>5. CASE Tx!TxReadClients
      BY <2>5 DEF Tx!TxReadClients, TxStage!TxReadClients, TxStage!TxStep, Tx!TxHasClients,
                  TxStage!TxHasClients
    <2>6. CASE Tx!TxFlush
      BY <2>6 DEF Tx!TxFlush, TxStage!TxFlush, TxStage!TxStep, Tx!ReturnAll, TxStage!ReturnAll,
                  Tx!Lent, TxStage!Lent
    <2>7. CASE Tx!TxReturn
      BY <2>7 DEF Tx!TxReturn, TxStage!TxReturn, TxStage!TxStep, Tx!Out!Returned, TxStage!Out!Returned
    <2>8. CASE Tx!TxWrap
      BY <2>8 DEF Tx!TxWrap, TxStage!TxWrap, TxStage!TxStep, Tx!Out!Returned, TxStage!Out!Returned,
                  Tx!ZeroCopy, TxStage!ZeroCopy
    <2>9. CASE Tx!TxSend
      BY <2>9 DEF Tx!TxSend, TxStage!TxSend, TxStage!TxStep, Tx!Tick, TxStage!Tick
    <2>10. CASE Tx!TxSendRefused
      BY <2>10 DEF Tx!TxSendRefused, TxStage!TxSendRefused, TxStage!TxStep, Tx!ReturnAll,
                   TxStage!ReturnAll, Tx!Tick, TxStage!Tick
    <2> QED
      BY <1>1, <2>1, <2>2, <2>3, <2>4, <2>5, <2>6, <2>7, <2>8, <2>9, <2>10 DEF Tx!TxStep
  <1>2. Tx!LibraryStep => TxStage!LibraryStep
    BY DEF Tx!LibraryStep, TxStage!LibraryStep, Tx!OnClientConnected, TxStage!OnClientConnected,
           Tx!OnMediaConfigure, TxStage!OnMediaConfigure, Tx!OnClientClosed, TxStage!OnClientClosed,
           Tx!PlayOut, TxStage!PlayOut, Tx!PlayOutOld, TxStage!PlayOutOld, Tx!ReturnAll,
           TxStage!ReturnAll, Tx!Lent, TxStage!Lent
  <1>3. Tx!StartStreamer => TxStage!StartStreamer
    BY DEF Tx!StartStreamer, TxStage!StartStreamer
  <1>4. Tx!StopStreaming => TxStage!StopStreaming
    BY DEF Tx!StopStreaming, TxStage!StopStreaming
  <1>5. Tx!CloseOutput \/ Tx!QuitLoop \/ Tx!UnrefAppsrc => TxStage!StopStep
    BY DEF Tx!CloseOutput, TxStage!CloseOutput, Tx!QuitLoop, TxStage!QuitLoop, Tx!UnrefAppsrc,
           TxStage!UnrefAppsrc, TxStage!StopStep, Tx!Out!Closed, TxStage!Out!Closed
  <1>6. Tx!LoopStep => TxStage!LoopStep
    BY DEF Tx!LoopStep, TxStage!LoopStep, Tx!LoopRuns, TxStage!LoopRuns, Tx!LoopEnds, TxStage!LoopEnds
  <1> QED
    BY <1>1, <1>2, <1>3, <1>4, <1>5, <1>6

LEMMA StreamerNeighbour ==
    ASSUME MaxPts = 0, OutputOwners, ProcessorThread
    PROVE  TxStage!Produce \/ TxStage!Deliver \/ UNCHANGED TxStage!streamerVars
  <1>1. UNCHANGED <<TxStage!txVars, TxStage!libVars>>
    BY DEF ProcessorThread, ProcAct, txOwn, TxStage!txVars, TxStage!libVars
  <1>2. CASE UI!BorrowOutput
    <2>1. \E f \in TxStage!Out!At(output, "free") : output' = TxStage!Out!Borrowed(output, f)
      BY <1>2 DEF UI!BorrowOutput, UI!Out!At, TxStage!Out!At, UI!Out!Borrowed, TxStage!Out!Borrowed
    <2>2. TxStage!Out!At(output, "filling") = {}
      BY <1>2, OutputPlaces DEF UI!BorrowOutput, OutputOwners, TxStage!Out!At
    <2> QED
      BY <1>1, <2>1, <2>2 DEF TxStage!Produce
  <1>3. CASE UI!PushOutput
    <2>1. output' = TxStage!Out!Pushed(output, procOut)
      BY <1>3 DEF UI!PushOutput, UI!Out!Pushed, TxStage!Out!Pushed
    <2>2. procOut \in TxStage!Out!At(output, "filling")
      BY <1>3, OutputPlaces DEF UI!PushOutput, OutputOwners, TxStage!Out!At
    <2> QED
      BY <1>1, <2>1, <2>2 DEF TxStage!Deliver
  <1>4. CASE ~UI!BorrowOutput /\ ~UI!PushOutput
    <2>1. UNCHANGED output
      BY <1>4 DEF ProcessorThread, ProcAct, UI!ProcStep, UI!LoopHead, UI!PopInput, UI!PopThrows,
                  UI!SkipFrame, UI!Swap, UI!NotifySwap, UI!Filter, UI!ReturnInput, UI!channelVars
    <2> QED
      BY <1>1, <2>1 DEF TxStage!streamerVars
  <1> QED
    BY <1>2, <1>3, <1>4

LEMMA StreamerStep ==
    ASSUME MaxPts = 0, OutputOwners, [Next]_vars
    PROVE  [TxStage!Next]_(TxStage!streamerVars)
  <1> USE DEF txOwn
  <1> DEFINE Still == UNCHANGED <<output, txOwn>>
  <1>1. ASSUME Still PROVE UNCHANGED TxStage!streamerVars
    BY <1>1 DEF TxStage!streamerVars, TxStage!txVars, TxStage!libVars
  <1>2. CASE \/ CaptureThread \/ Camera \/ CameraFails \/ Signal \/ CheckStop \/ Configure
             \/ UNCHANGED vars
    <2>1. Still
      BY <1>2 DEF CaptureThread, Camera, CameraFails, Signal, CheckStop, Configure, CapAct, OthersUnchanged, vars
    <2> QED
      BY <1>1, <2>1
  <1>3. CASE UiThread
    <2>1. UNCHANGED output
      BY <1>3 DEF UiThread, UiAct, UI!UiHead, UI!UiNothing, UI!UiApplying, UI!UiError, UI!UiEof,
                  UI!UiApply, UI!BeginEdit, UI!FinishEdit, UI!EndEdit, UI!Commit, UI!CommitWait,
                  UI!procVars, UI!channelVars
    <2>2. Still
      BY <1>3, <2>1 DEF UiThread, UiAct
    <2> QED
      BY <1>1, <2>2
  <1>4. CASE ProcessorThread
    BY <1>4, StreamerNeighbour DEF TxStage!Next
  <1>5. CASE TxThread \/ LoopThread \/ LibraryThreads
    BY <1>5, StreamerSame DEF TxThread, LoopThread, LibraryThreads, TxAct, TxStage!Next
  <1>6. CASE StartAll
    <2>1. CASE TxAct(Tx!StartStreamer)
      BY <2>1, StreamerSame DEF TxAct, TxStage!Next
    <2>2. CASE ~TxAct(Tx!StartStreamer)
      <3>1. Still
        BY <1>6, <2>2 DEF StartAll, CapAct, ProcAct, UiAct, UI!Start, UI!StartUi, UI!procVars,
                          UI!channelVars
      <3> QED
        BY <1>1, <3>1
    <2> QED
      BY <2>1, <2>2
  <1>7. CASE StopAll
    <2>1. CASE \/ TxAct(Tx!StopStreaming) \/ TxAct(Tx!CloseOutput) \/ TxAct(Tx!QuitLoop)
               \/ TxAct(Tx!UnrefAppsrc)
      BY <2>1, StreamerSame DEF TxAct, TxStage!Next
    <2>2. CASE ~ (\/ TxAct(Tx!StopStreaming) \/ TxAct(Tx!CloseOutput) \/ TxAct(Tx!QuitLoop)
                  \/ TxAct(Tx!UnrefAppsrc))
      <3>1. Still
        BY <1>7, <2>2 DEF StopAll, Joins, CapAct, ProcAct, UiAct, OthersUnchanged, UI!StopUi,
                          UI!StopRequest, UI!StopNotify, UI!procVars, UI!channelVars
      <3> QED
        BY <1>1, <3>1
    <2> QED
      BY <2>1, <2>2
  <1> QED
    BY <1>2, <1>3, <1>4, <1>5, <1>6, <1>7 DEF Next, MainThread, Terminated

(***************************************************************************)
(* What main() puts around the streamer is what StreamerStage puts around  *)
(* it: the processor does nothing to its buffer but borrow one frame after *)
(* the other and push it, and StreamerStage calls start() and stop() in    *)
(* more orders than main() does.  So what was proved of StreamerStage      *)
(* holds of the streamer in vision_core, as far as timestamps are left     *)
(* out.                                                                    *)
(***************************************************************************)
THEOREM StreamerRunsInPlace == ASSUME MaxPts = 0 PROVE Spec => StreamerInPlace
  <1>1. Init => TxStage!Init
    BY DEF Init, UI!ProcInit, UI!Out!NewChannel, Tx!StreamerInit, TxStage!Init, TxStage!StreamerInit,
           Tx!Out!NewChannel, TxStage!Out!NewChannel
  <1>2. OutputOwners /\ [Next]_vars => [TxStage!Next]_(TxStage!streamerVars)
    BY StreamerStep
  <1> QED
    BY <1>1, <1>2, OutputOwnersInvariant, PTL DEF Spec, StreamerInPlace, TxStage!Spec

-----------------------------------------------------------------------------
(* The processor                                                           *)

\* What hiding closed does to the operations of a channel.
Unclosed(ch) == [ch EXCEPT !.closed = FALSE]

LEMMA SeenChannel ==
    ASSUME NEW ch \in ChannelsOf(OutPool)
    PROVE  /\ Unclosed(ch).place = ch.place /\ Unclosed(ch).queue = ch.queue
           /\ Unclosed(ch).closed = FALSE
           /\ Unclosed([ch EXCEPT !.closed = TRUE]) = Unclosed(ch)
           /\ \A f, where : Unclosed(Moved(ch, f, where)) = Moved(Unclosed(ch), f, where)
           /\ \A f : Unclosed(Put(ch, f)) = Put(Unclosed(ch), f)
           /\ Unclosed([ch EXCEPT !.place[Head(ch.queue)] = "reading", !.queue = Tail(@)])
                = [Unclosed(ch) EXCEPT !.place[Head(ch.queue)] = "reading", !.queue = Tail(@)]
           /\ \A frames : Unclosed(Freed(ch, OutPool, frames)) = Freed(Unclosed(ch), OutPool, frames)
  BY DEF Unclosed, ChannelsOf, Moved, Put, Freed

LEMMA SeenOutputIs == SeenOutput = Unclosed(output) /\ SeenOutput' = Unclosed(output')
  BY DEF SeenOutput, Unclosed

\* Steps that neither begin nor end the filling of an input frame, and write
\* to none that is filled, change nothing the processor sees of the images.
LEMMA SeenInKept ==
    ASSUME UNCHANGED inImage,
           \A f \in InPool : input'.place[f] = "filling" <=> input.place[f] = "filling"
    PROVE  UNCHANGED SeenInImage
  BY DEF SeenInImage

LEMMA SeenKept ==
    /\ UNCHANGED <<input, inImage>> => UNCHANGED SeenInImage
    /\ UNCHANGED output => UNCHANGED SeenOutput
    /\ UNCHANGED outImage => UNCHANGED SeenOutImage
  BY DEF SeenInImage, SeenOutput, SeenOutImage

\* The processor's own steps.
LEMMA ProcessorSame ==
    ASSUME InputOwners, OutputOwners, Pictures, UI!ProcStep
    PROVE  ProcStage!ProcStep
  <1> USE InputPlaces, OutputPlaces, SeenKept DEF ProcStage!ProcStep
  <1>1. output \in ChannelsOf(OutPool) /\ input \in ChannelsOf(InPool)
    BY DEF InputOwners, OutputOwners, Sound
  <1>2. /\ SeenOutput.place = output.place /\ SeenOutput.queue = output.queue
        /\ SeenOutput = Unclosed(output) /\ SeenOutput' = Unclosed(output')
    BY <1>1, SeenChannel, SeenOutputIs
  <1>3. CASE UI!LoopHead
    BY <1>3 DEF UI!LoopHead, ProcStage!LoopHead, UI!channelVars, UI!editVars, ProcStage!channelVars,
                ProcStage!editVars
  <1>4. CASE UI!PopThrows
    BY <1>4 DEF UI!PopThrows, ProcStage!PopThrows, UI!channelVars, UI!editVars,
                ProcStage!channelVars, ProcStage!editVars
  <1>5. CASE UI!Swap
    BY <1>5 DEF UI!Swap, ProcStage!Swap, UI!channelVars, ProcStage!channelVars
  <1>6. CASE UI!NotifySwap
    BY <1>6 DEF UI!NotifySwap, ProcStage!NotifySwap, UI!channelVars, ProcStage!channelVars
  <1>7. CASE UI!Filter
    <2>1. procIn \in InPool /\ procOut \in OutPool /\ input.place[procIn] # "filling"
      BY <1>7 DEF UI!Filter, InputOwners, OutputOwners
    <2>2. SeenInImage[procIn] = Unmarked(inImage[procIn])
      BY <2>1 DEF SeenInImage
    <2>3. CASE active \in Faulty
      BY <1>7, <2>3 DEF UI!Filter, ProcStage!Filter
    <2>4. CASE active \notin Faulty
      <3>1. outImage' = [outImage EXCEPT ![procOut] = inImage[procIn]]
        BY <1>7, <2>4 DEF UI!Filter
      <3>2. \A f \in OutPool : outImage'[f] = IF f = procOut THEN inImage[procIn] ELSE outImage[f]
        BY <3>1 DEF Pictures
      <3>3. SeenOutImage' = [SeenOutImage EXCEPT ![procOut] = SeenInImage[procIn]]
        BY <2>1, <2>2, <3>2 DEF SeenOutImage
      <3> QED
        BY <1>7, <2>4, <3>3 DEF UI!Filter, ProcStage!Filter
    <2> QED
      BY <2>3, <2>4
  <1>8. CASE UI!PopInput
    <2> PICK h : h = Head(input.queue)
      OBVIOUS
    <2>1. /\ input.queue # << >> /\ UNCHANGED inImage
          /\ input' = [input EXCEPT !.place[Head(input.queue)] = "reading", !.queue = Tail(@)]
      BY <1>8 DEF UI!PopInput, UI!In!CanPop, UI!In!Popped
    <2>2. /\ h \in InPool /\ input.place[h] = "queued"
          /\ input'.place = [input.place EXCEPT ![h] = "reading"]
      BY <2>1, PopSound DEF InputOwners
    <2>3. UNCHANGED SeenInImage
      BY <2>1, <2>2, SeenInKept
    <2> QED
      BY <1>8, <2>3 DEF UI!PopInput, ProcStage!PopInput, UI!editVars, ProcStage!editVars,
                        UI!In!CanPop, UI!In!Popped, ProcStage!In!CanPop, ProcStage!In!Popped
  <1>9. CASE UI!SkipFrame \/ UI!ReturnInput
    <2>1. /\ procPc \in {"borrow", "return"} /\ input' = Moved(input, procIn, "free")
          /\ UNCHANGED inImage
      BY <1>9 DEF UI!SkipFrame, UI!ReturnInput, UI!In!Returned, Moved
    <2>2. procIn \in InPool /\ input.place[procIn] = "reading"
      BY <2>1 DEF InputOwners
    <2>3. input'.place = [input.place EXCEPT ![procIn] = "free"]
      BY <2>1, <2>2, Somewhere, MoveSound DEF InputOwners
    <2>4. UNCHANGED SeenInImage
      <3>1. \A f \in InPool : input'.place[f] = IF f = procIn THEN "free" ELSE input.place[f]
        BY <2>3
      <3> QED
        BY <2>1, <2>2, <3>1, SeenInKept
    <2>5. CASE UI!ReturnInput
      BY <2>4, <2>5 DEF UI!ReturnInput, ProcStage!ReturnInput, UI!editVars, ProcStage!editVars,
                        UI!In!Returned, ProcStage!In!Returned
    <2>6. CASE UI!SkipFrame
      <3>1. ~ProcStage!Out!CanBorrow(SeenOutput)
        BY <1>2, <2>6 DEF UI!SkipFrame, UI!Out!CanBorrow, ProcStage!Out!CanBorrow, UI!Out!At,
                          ProcStage!Out!At
      <3> QED
        BY <2>4, <2>6, <3>1 DEF UI!SkipFrame, ProcStage!SkipFrame, UI!editVars, ProcStage!editVars,
                                UI!In!Returned, ProcStage!In!Returned
    <2> QED
      BY <1>9, <2>5, <2>6
  <1>10. CASE UI!BorrowOutput
    <2>1. PICK f \in OutPool : /\ output.place[f] = "free" /\ procOut' = f
                               /\ output' = Moved(output, f, "filling")
      BY <1>10 DEF UI!BorrowOutput, UI!Out!At, UI!Out!Borrowed, Moved
    <2>2. SeenOutput' = Moved(SeenOutput, f, "filling")
      <3>1. Unclosed(Moved(output, f, "filling")) = Moved(Unclosed(output), f, "filling")
        <4>1. \A g, where : Unclosed(Moved(output, g, where)) = Moved(Unclosed(output), g, where)
          BY <1>1, SeenChannel
        <4> QED
          BY <4>1
      <3> QED
        BY <1>2, <2>1, <3>1
    <2>3. \E g \in ProcStage!Out!At(SeenOutput, "free") :
             procOut' = g /\ SeenOutput' = ProcStage!Out!Borrowed(SeenOutput, g)
      BY <1>2, <2>1, <2>2 DEF ProcStage!Out!At, ProcStage!Out!Borrowed, Moved
    <2> QED
      BY <1>10, <2>3 DEF UI!BorrowOutput, ProcStage!BorrowOutput, UI!editVars, ProcStage!editVars
  <1>11. CASE UI!PushOutput
    <2>1. output' = Put(output, procOut)
      BY <1>11 DEF UI!PushOutput, UI!Out!Pushed, Put
    <2>2. SeenOutput' = ProcStage!Out!Pushed(SeenOutput, procOut)
      BY <1>1, <1>2, <2>1, SeenChannel DEF ProcStage!Out!Pushed, Put
    <2> QED
      BY <1>11, <2>2 DEF UI!PushOutput, ProcStage!PushOutput, UI!editVars, ProcStage!editVars
  <1> QED
    BY <1>3, <1>4, <1>5, <1>6, <1>7, <1>8, <1>9, <1>10, <1>11 DEF UI!ProcStep

\* The capture thread borrows, copies, which is a step of nobody here, and
\* pushes.
LEMMA ProcessorFed ==
    ASSUME InputOwners, Pictures, CaptureThread
    PROVE  ProcStage!Fill \/ ProcStage!Feed \/ UNCHANGED ProcStage!procVars
  <1> USE InputPlaces
  <1>1. UNCHANGED <<SeenOutput, SeenOutImage, ProcStage!threadVars, ProcStage!editVars>>
    BY SeenKept DEF CaptureThread, CapAct, procOwn, ProcStage!threadVars, ProcStage!editVars
  <1>2. CASE BorrowInput
    <2>1. PICK f \in InPool : input.place[f] = "free" /\ input' = Moved(input, f, "filling")
      BY <1>2 DEF BorrowInput, In!At, In!Borrowed, Moved
    <2>2. input'.place = [input.place EXCEPT ![f] = "filling"]
      BY <2>1, Somewhere, MoveSound DEF InputOwners
    <2>3. ProcStage!In!At(input, "filling") = {}
      BY <1>2 DEF BorrowInput, InputOwners, ProcStage!In!At
    <2>4. UNCHANGED inImage
      BY <1>2 DEF BorrowInput
    <2>5. SeenInImage' = [SeenInImage EXCEPT ![f] = "plain"]
      BY <2>2, <2>4 DEF SeenInImage
    <2>6. f \in ProcStage!In!At(input, "free") /\ input' = ProcStage!In!Borrowed(input, f)
      BY <2>1 DEF ProcStage!In!At, ProcStage!In!Borrowed, Moved
    <2> QED
      BY <1>1, <2>3, <2>5, <2>6 DEF ProcStage!Fill
  <1>3. CASE PushInput
    <2>1. /\ capPc = "push" /\ input' = Put(input, capFrame) /\ UNCHANGED inImage
      BY <1>3 DEF PushInput, In!Pushed, Put
    <2>2. capFrame \in InPool /\ input.place[capFrame] = "filling" /\ inImage[capFrame] # "blank"
      BY <2>1 DEF InputOwners, Pictures
    <2>3. input'.place = [input.place EXCEPT ![capFrame] = "queued"]
      BY <2>1, <2>2, PushSound DEF InputOwners
    <2>4. UNCHANGED SeenInImage
      BY <2>1, <2>2, <2>3 DEF SeenInImage, Unmarked
    <2>5. capFrame \in ProcStage!In!At(input, "filling") /\ input' = ProcStage!In!Pushed(input, capFrame)
      BY <2>1, <2>2 DEF ProcStage!In!At, ProcStage!In!Pushed, Put
    <2> QED
      BY <1>1, <2>4, <2>5 DEF ProcStage!Feed
  <1>4. CASE Copy
    <2>1. /\ capPc = "copy" /\ UNCHANGED input
          /\ inImage' = [inImage EXCEPT ![capFrame] = vbImage[capBuf]]
      BY <1>4 DEF Copy
    <2>2. capFrame \in InPool /\ input.place[capFrame] = "filling"
      BY <2>1 DEF InputOwners
    <2>3. \A f \in InPool : f # capFrame => inImage'[f] = inImage[f]
      BY <2>1 DEF Pictures
    <2>4. UNCHANGED SeenInImage
      BY <2>1, <2>2, <2>3 DEF SeenInImage
    <2> QED
      BY <1>1, <2>1, <2>4 DEF ProcStage!procVars, ProcStage!channelVars
  <1>5. CASE CapHead \/ SelectTimeout \/ CaptureBreaks \/ Dequeue \/ DropImage \/ Requeue
    <2>1. UNCHANGED <<input, inImage>>
      BY <1>5 DEF CapHead, SelectTimeout, CaptureBreaks, Dequeue, DropImage, Requeue
    <2> QED
      BY <1>1, <2>1, SeenKept DEF ProcStage!procVars, ProcStage!channelVars
  <1> QED
    BY <1>2, <1>3, <1>4, <1>5 DEF CaptureThread, CapAct, CapStep

\* A step after which frames that were being read are free.
LEMMA ProcessorReleased ==
    ASSUME OutputOwners, NEW frames, output' = Freed(output, OutPool, frames),
           \A f \in OutPool : f \in frames => output.place[f] = "reading",
           UNCHANGED <<input, inImage, outImage, procOwn>>
    PROVE  \/ \E some \in SUBSET OutPool : ProcStage!Release(some)
           \/ UNCHANGED ProcStage!procVars
  <1> DEFINE some == frames \cap OutPool
  <1> USE DEF procOwn, ProcStage!threadVars, ProcStage!editVars
  <1>1. UNCHANGED <<SeenInImage, SeenOutImage>>
    BY SeenKept
  <1>2. output \in ChannelsOf(OutPool) /\ output.place \in [OutPool -> FramePlaces]
    BY DEF OutputOwners, Sound, ChannelsOf
  <1>3. SeenOutput' = Freed(SeenOutput, OutPool, frames) /\ SeenOutput.place = output.place
    <2>1. Unclosed(Freed(output, OutPool, frames)) = Freed(Unclosed(output), OutPool, frames)
      <3>1. \A any : Unclosed(Freed(output, OutPool, any)) = Freed(Unclosed(output), OutPool, any)
        BY <1>2, SeenChannel
      <3> QED
        BY <3>1
    <2> QED
      BY <1>2, <2>1, SeenOutputIs, SeenChannel
  <1>4. CASE some = {}
    <2>1. [f \in OutPool |-> IF f \in frames THEN "free" ELSE output.place[f]] = output.place
      BY <1>2, <1>4
    <2>2. output' = [output EXCEPT !.place = output.place]
      BY <2>1 DEF Freed
    <2>3. output' = output
      BY <1>2, <2>2 DEF ChannelsOf
    <2> QED
      BY <1>1, <2>3, SeenKept DEF ProcStage!procVars, ProcStage!channelVars
  <1>5. CASE some # {}
    <2>1. some \subseteq ProcStage!Out!At(SeenOutput, "reading")
      BY <1>3 DEF ProcStage!Out!At
    <2>2. [f \in OutPool |-> IF f \in frames THEN "free" ELSE SeenOutput.place[f]]
             = [f \in OutPool |-> IF f \in some THEN "free" ELSE SeenOutput.place[f]]
      OBVIOUS
    <2>3. SeenOutput' = [SeenOutput EXCEPT !.place =
                            [f \in OutPool |-> IF f \in some THEN "free" ELSE @[f]]]
      BY <1>3, <2>2 DEF Freed
    <2>4. ProcStage!Release(some)
      BY <1>1, <1>5, <2>1, <2>3 DEF ProcStage!Release
    <2> QED
      BY <2>4
  <1> QED
    BY <1>4, <1>5

\* One frame given back is a set of one frame given back.
LEMMA FreedOne ==
    ASSUME NEW ch \in ChannelsOf(OutPool), NEW f \in OutPool
    PROVE  Moved(ch, f, "free") = Freed(ch, OutPool, {f})
  <1>1. ch.place \in [OutPool -> FramePlaces]
    BY DEF ChannelsOf
  <1>2. [ch.place EXCEPT ![f] = "free"] = [g \in OutPool |-> IF g \in {f} THEN "free" ELSE ch.place[g]]
    BY <1>1
  <1> QED
    BY <1>2 DEF Moved, Freed, ChannelsOf

\* The tx thread and GStreamer drain the output buffer and release its frames.
LEMMA ProcessorDrained ==
    ASSUME OutputOwners, UNCHANGED <<input, inImage, outImage, procOwn>>,
           Tx!TxStep \/ Tx!LoopStep \/ Tx!LibraryStep
    PROVE  \/ ProcStage!Drain
           \/ \E some \in SUBSET OutPool : ProcStage!Release(some)
           \/ UNCHANGED ProcStage!procVars
  <1> USE OutputPlaces
  <1>1. output \in ChannelsOf(OutPool)
    BY DEF OutputOwners, Sound
  <1>2. /\ txFrame # NoFrame => txFrame \in OutPool /\ output.place[txFrame] = "reading"
        /\ \A f \in OutPool : f \in Tx!Lent(gst) \cup oldGst => output.place[f] = "reading"
    BY DEF OutputOwners, Tx!Lent, InGst, HasLent
  <1>3. CASE Tx!TxPop
    <2>1. /\ output.queue # << >>
          /\ output' = [output EXCEPT !.place[Head(output.queue)] = "reading", !.queue = Tail(@)]
      BY <1>3 DEF Tx!TxPop, Tx!Out!CanPop, Tx!Out!Popped
    <2>2. SeenOutput' = [SeenOutput EXCEPT !.place[Head(output.queue)] = "reading", !.queue = Tail(@)]
      <3>1. Unclosed([output EXCEPT !.place[Head(output.queue)] = "reading", !.queue = Tail(@)])
              = [Unclosed(output) EXCEPT !.place[Head(output.queue)] = "reading", !.queue = Tail(@)]
        BY <1>1, SeenChannel
      <3> QED
        BY <2>1, <3>1, SeenOutputIs
    <2>3. SeenOutput.queue = output.queue /\ SeenOutput.closed = FALSE
      BY <1>1, SeenChannel, SeenOutputIs
    <2>4. ProcStage!Out!CanPop(SeenOutput) /\ SeenOutput' = ProcStage!Out!Popped(SeenOutput)
      BY <2>1, <2>2, <2>3 DEF ProcStage!Out!CanPop, ProcStage!Out!Popped
    <2> QED
      BY <2>4, SeenKept DEF ProcStage!Drain, procOwn, ProcStage!threadVars, ProcStage!editVars
  <1>4. CASE Tx!TxFlush
    <2>1. \/ output' = Freed(output, OutPool, Tx!Lent(gst))
          \/ \E frames \in SUBSET oldGst : output' = Freed(output, OutPool, frames)
      BY <1>4 DEF Tx!TxFlush, Tx!ReturnAll, Freed
    <2>2. CASE output' = Freed(output, OutPool, Tx!Lent(gst))
      BY <1>2, <2>2, ProcessorReleased
    <2>3. CASE \E frames \in SUBSET oldGst : output' = Freed(output, OutPool, frames)
      <3>1. PICK frames \in SUBSET oldGst : output' = Freed(output, OutPool, frames)
        BY <2>3
      <3> QED
        BY <1>2, <3>1, ProcessorReleased
    <2> QED
      BY <2>1, <2>2, <2>3
  <1>5. CASE Tx!TxReturn \/ (Tx!TxWrap /\ ~Tx!ZeroCopy)
    <2>1. output' = Moved(output, txFrame, "free") /\ txFrame # NoFrame
      BY <1>5 DEF Tx!TxReturn, Tx!TxWrap, Tx!Out!Returned, Moved, OutputOwners
    <2>2. output' = Freed(output, OutPool, {txFrame})
      BY <1>1, <1>2, <2>1, FreedOne
    <2> QED
      BY <1>2, <2>1, <2>2, ProcessorReleased
  <1>6. CASE Tx!TxSendRefused
    <2>1. output' = Freed(output, OutPool, {txFrame})
      BY <1>6 DEF Tx!TxSendRefused, Tx!ReturnAll, Freed
    <2>2. \A f \in OutPool : f \in {txFrame} => output.place[f] = "reading"
      BY <1>2
    <2> QED
      BY <2>1, <2>2, ProcessorReleased
  <1>7. CASE Tx!PlayOut
    <2>1. gst # << >> /\ output' = Freed(output, OutPool, Tx!Lent(<<Head(gst)>>))
      BY <1>7 DEF Tx!PlayOut, Tx!ReturnAll, Freed
    <2>2. Head(gst) = gst[1] /\ Len(gst) # 0
      BY <2>1, HeadTailProperties, EmptySeq DEF OutputOwners
    <2>3. \A f \in OutPool : f \in Tx!Lent(<<Head(gst)>>) => f \in Tx!Lent(gst)
      BY <2>2 DEF Tx!Lent
    <2> QED
      BY <1>2, <2>1, <2>3, ProcessorReleased
  <1>8. CASE \/ Tx!TxHead \/ Tx!TxPopThrows \/ Tx!TxReadAppsrc \/ Tx!TxReadClients
             \/ (Tx!TxWrap /\ Tx!ZeroCopy) \/ Tx!TxSend
             \/ Tx!OnClientConnected \/ Tx!OnMediaConfigure \/ Tx!OnClientClosed
             \/ Tx!LoopRuns \/ Tx!LoopEnds
    <2>1. UNCHANGED output
      BY <1>8 DEF Tx!TxHead, Tx!TxPopThrows, Tx!TxReadAppsrc, Tx!TxReadClients, Tx!TxWrap, Tx!TxSend,
                  Tx!OnClientConnected, Tx!OnMediaConfigure, Tx!OnClientClosed, Tx!LoopRuns,
                  Tx!LoopEnds
    <2> QED
      BY <2>1, SeenKept DEF procOwn, ProcStage!procVars, ProcStage!channelVars,
                            ProcStage!threadVars, ProcStage!editVars
  <1>9. CASE Tx!PlayOutOld
    <2>1. PICK f \in oldGst : output' = Freed(output, OutPool, {f})
      BY <1>9 DEF Tx!PlayOutOld, Tx!ReturnAll, Freed
    <2>2. \A g \in OutPool : g \in {f} => output.place[g] = "reading"
      BY <1>2
    <2> QED
      BY <2>1, <2>2, ProcessorReleased
  <1> QED
    BY <1>3, <1>4, <1>5, <1>6, <1>7, <1>8, <1>9 DEF Tx!TxStep, Tx!LoopStep, Tx!LibraryStep

\* What the UI and main() do to the processor, they do when they may.
LEMMA ProcessorEdited ==
    ASSUME Lifetimes, Editing, UiThread
    PROVE  ProcStage!Ui \/ UNCHANGED ProcStage!procVars
  <1>1. CASE UI!UiHead \/ UI!UiNothing \/ UI!UiError \/ UI!UiEof
    BY <1>1, SeenKept DEF UI!UiHead, UI!UiNothing, UI!UiError, UI!UiEof, UI!procVars, UI!channelVars,
            UI!threadVars, UI!editVars, ProcStage!procVars, ProcStage!channelVars,
            ProcStage!threadVars, ProcStage!editVars
  <1>2. CASE UI!UiApply \/ UI!UiApplying
    <2>1. running
      <3>1. uiPc \notin Gone
        BY <1>2 DEF UI!UiApply, UI!UiApplying, Gone
      <3> QED
        BY <3>1 DEF Lifetimes, Gone, NoUi, NoStreamer, NoProcessor, Opening, UiJoined, TxJoined,
                    CaptureLast
    <2>2. ProcStage!EditStep
      BY <1>2, SeenKept
         DEF UI!UiApply, UI!UiApplying, UI!BeginEdit, UI!FinishEdit, UI!EndEdit, UI!Commit,
             UI!CommitWait, UI!channelVars, UI!threadVars, ProcStage!EditStep,
             ProcStage!BeginEdit, ProcStage!FinishEdit, ProcStage!EndEdit, ProcStage!Commit,
             ProcStage!CommitWait, ProcStage!channelVars, ProcStage!threadVars
    <2> QED
      BY <2>1, <2>2 DEF ProcStage!Ui
  <1> QED
    BY <1>1, <1>2 DEF UiThread, UiAct

LEMMA ProcessorManaged ==
    ASSUME Lifetimes, InputOwners, Editing
    PROVE  /\ Main("start processor", "start streamer") /\ ProcAct(UI!Start)
                => ProcStage!MayStop /\ ProcStage!Start
           /\ Main("stop processor", "close input") /\ ProcAct(UI!StopRequest)
                => ProcStage!MayStop /\ ProcStage!StopRequest
           /\ Main("close input", "join processor") /\ ProcAct(UI!StopNotify)
                => ProcStage!MayStop /\ ProcStage!StopNotify
  <1>1. mainPc \in {"start processor", "stop processor", "close input"} => ProcStage!MayStop
    BY DEF Lifetimes, Editing, ProcStage!MayStop, Gone, NoUi, NoStreamer, NoProcessor, Opening,
           UiJoined, TxJoined, CaptureLast
  <1>2. ProcAct(UI!Start) => ProcStage!Start
    BY SeenKept DEF ProcAct, UI!Start, ProcStage!Start, UI!channelVars, ProcStage!channelVars,
                    UI!editVars, ProcStage!editVars
  <1>3. ProcAct(UI!StopRequest) => ProcStage!StopRequest
    BY SeenKept DEF ProcAct, UI!StopRequest, ProcStage!StopRequest, UI!channelVars,
                    ProcStage!channelVars, UI!editVars, ProcStage!editVars
  <1>4. ASSUME UI!StopNotify PROVE ProcStage!StopNotify
    <2>1. input' = [input EXCEPT !.closed = TRUE] /\ UNCHANGED inImage
      BY <1>4 DEF UI!StopNotify, UI!In!Closed
    <2>2. input'.place = input.place
      BY <2>1, CloseSound DEF InputOwners
    <2>3. UNCHANGED SeenInImage
      BY <2>1, <2>2, SeenInKept
    <2> QED
      BY <1>4, <2>1, <2>3, SeenKept
         DEF UI!StopNotify, ProcStage!StopNotify, UI!threadVars, ProcStage!threadVars, UI!editVars,
             ProcStage!editVars, ProcStage!In!Closed
  <1> QED
    BY <1>1, <1>2, <1>3, <1>4 DEF Main, ProcAct

LEMMA ProcessorStep ==
    ASSUME Lifetimes, InputOwners, OutputOwners, Pictures, Editing, [Next]_vars
    PROVE  [ProcStage!Next]_(ProcStage!procVars)
  <1> USE DEF procOwn
  <1> DEFINE Still == UNCHANGED <<input, inImage, output, outImage, procOwn>>
  <1>1. ASSUME Still PROVE UNCHANGED ProcStage!procVars
    BY <1>1, SeenKept DEF ProcStage!procVars, ProcStage!channelVars, ProcStage!threadVars,
                          ProcStage!editVars
  <1>2. CASE CaptureThread
    BY <1>2, ProcessorFed DEF ProcStage!Next
  <1>3. CASE ProcessorThread
    BY <1>3, ProcessorSame DEF ProcessorThread, ProcAct, ProcStage!Next
  <1>4. CASE UiThread
    BY <1>4, ProcessorEdited DEF ProcStage!Next
  <1>5. CASE TxThread \/ LoopThread \/ LibraryThreads
    BY <1>5, ProcessorDrained DEF TxThread, LoopThread, LibraryThreads, TxAct, ProcStage!Next
  <1>6. CASE Camera \/ CameraFails \/ Signal \/ CheckStop \/ Configure \/ UNCHANGED vars
    <2>1. Still
      BY <1>6 DEF Camera, Complete, CameraFails, QueueError, Signal, CheckStop, Configure, CapAct, OthersUnchanged, vars
    <2> QED
      BY <1>1, <2>1
  <1>7. CASE StartAll
    <2>1. CASE Main("start processor", "start streamer") /\ ProcAct(UI!Start)
      BY <2>1, ProcessorManaged DEF ProcStage!Next
    <2>2. CASE CapAct(OpenDevice) \/ CapAct(StartCapture) \/ TxAct(Tx!StartStreamer)
               \/ UiAct(UI!StartUi)
      <3>1. Still
        BY <2>2 DEF CapAct, TxAct, UiAct, OpenDevice, StartCapture, Tx!StartStreamer, UI!StartUi,
                    UI!procVars, UI!channelVars, UI!threadVars, UI!editVars
      <3> QED
        BY <1>1, <3>1
    <2> QED
      BY <1>7, <2>1, <2>2 DEF StartAll
  <1>8. CASE StopAll
    <2>1. CASE \/ Main("stop processor", "close input") /\ ProcAct(UI!StopRequest)
               \/ Main("close input", "join processor") /\ ProcAct(UI!StopNotify)
      BY <2>1, ProcessorManaged DEF ProcStage!Next
    <2>2. CASE TxAct(Tx!CloseOutput)
      <3>1. output' = [output EXCEPT !.closed = TRUE] /\ output \in ChannelsOf(OutPool)
        BY <2>2 DEF TxAct, Tx!CloseOutput, Tx!Out!Closed, OutputOwners, Sound
      <3>2. UNCHANGED SeenOutput
        BY <3>1, SeenChannel, SeenOutputIs
      <3> QED
        BY <2>2, <3>2, SeenKept DEF TxAct, ProcStage!procVars, ProcStage!channelVars,
                                    ProcStage!threadVars, ProcStage!editVars
    <2>3. CASE \/ UiAct(UI!StopUi) \/ OthersUnchanged
               \/ TxAct(Tx!StopStreaming) \/ TxAct(Tx!QuitLoop) \/ TxAct(Tx!UnrefAppsrc)
               \/ CapAct(StopCapture) \/ CapAct(DrainTurn \/ DrainBreaks) \/ CapAct(StreamOff)
      <3>1. Still
        BY <2>3 DEF CapAct, TxAct, UiAct, OthersUnchanged, UI!StopUi, UI!procVars, UI!channelVars,
                    UI!threadVars, UI!editVars, Tx!StopStreaming, Tx!QuitLoop, Tx!UnrefAppsrc,
                    StopCapture, DrainTurn, DrainBreaks, StreamOff
      <3> QED
        BY <1>1, <3>1
    <2> QED
      BY <1>8, <2>1, <2>2, <2>3 DEF StopAll, Joins
  <1> QED
    BY <1>2, <1>3, <1>4, <1>5, <1>6, <1>7, <1>8 DEF Next, MainThread, Terminated

(***************************************************************************)
(* What the capture thread, the tx thread, GStreamer, the UI and main() do *)
(* around the processor is what ProcessorStage puts around it: one frame   *)
(* after the other is filled and pushed, frames come back in any order,    *)
(* pipelines are edited only while the processor runs, and stop() is       *)
(* called when no edit is under way.  So what was proved of ProcessorStage *)
(* holds of the processor in vision_core.                                  *)
(***************************************************************************)
THEOREM ProcessorRunsInPlace == Spec => ProcessorInPlace
  <1> DEFINE Good == Lifetimes /\ InputOwners /\ OutputOwners /\ Pictures /\ Editing
  <1>1. Init => ProcStage!Init
    <2> SUFFICES ASSUME Init PROVE ProcStage!Init
      OBVIOUS
    <2>1. /\ input = [place |-> [f \in InPool |-> "free"], queue |-> << >>, closed |-> FALSE]
          /\ output = [place |-> [f \in OutPool |-> "free"], queue |-> << >>, closed |-> FALSE]
          /\ inImage = [f \in InPool |-> "blank"] /\ outImage = [f \in OutPool |-> "blank"]
      BY DEF Init, CapInit, In!NewChannel, UI!ProcInit, UI!Out!NewChannel
    <2>2. SeenInImage = [f \in InPool |-> "blank"] /\ SeenOutImage = [f \in OutPool |-> "blank"]
      BY <2>1 DEF SeenInImage, SeenOutImage, Unmarked
    <2>3. SeenOutput = output
      <3>1. output \in ChannelsOf(OutPool) /\ output.closed = FALSE
        BY <2>1, OutputOwnersInit DEF OutputOwners, Sound
      <3> QED
        BY <3>1 DEF SeenOutput, ChannelsOf
    <2> QED
      BY <2>1, <2>2, <2>3 DEF Init, UI!ProcInit, ProcStage!Init, ProcStage!ProcInit,
                              ProcStage!In!NewChannel, ProcStage!Out!NewChannel
  <1>2. Good /\ [Next]_vars => [ProcStage!Next]_(ProcStage!procVars)
    BY ProcessorStep
  <1>3. Spec => []Good
    BY LifetimesInvariant, InputOwnersInvariant, OutputOwnersInvariant, PicturesInvariant,
       EditingInvariant, PTL
  <1> QED
    BY <1>1, <1>2, <1>3, PTL DEF Spec, ProcessorInPlace, ProcStage!Spec

-----------------------------------------------------------------------------
(* What the stages promise, in the program                                 *)

\* The pipeline in force is the one that was committed, or it was cleared.
InForce == active = pending \/ (pending \in Faulty /\ active = None)

\* m_dirty is set while commit() waits only, and what it waits for is whole.
Committing ==
    /\ {pending, active} \subseteq Pipelines \cup {None, Partial}
    /\ dirty \in BOOLEAN
    /\ editor \in {"idle", "editing", "edited", "waiting", "asleep"}
    /\ active # Partial
    /\ pending = Partial <=> editor = "editing"
    /\ dirty => editor \in {"waiting", "asleep"}
    /\ editor \in {"idle", "waiting", "asleep"} => dirty \/ InForce

LEMMA CommittingKept == Committing /\ UNCHANGED <<pending, active, dirty, editor>> => Committing'
  BY DEF Committing, InForce

LEMMA CommittingProcessor ==
    ASSUME Committing, UI!ProcStep
    PROVE  Committing'
  <1> USE PipelineAssumption DEF Committing, InForce
  <1>1. CASE UI!Swap
    BY <1>1 DEF UI!Swap
  <1>2. CASE UI!NotifySwap
    BY <1>2 DEF UI!NotifySwap
  <1>3. CASE UI!Filter
    BY <1>3 DEF UI!Filter
  <1>4. CASE UI!LoopHead \/ UI!PopInput \/ UI!PopThrows \/ UI!BorrowOutput \/ UI!SkipFrame
             \/ UI!PushOutput \/ UI!ReturnInput
    <2>1. UNCHANGED <<pending, active, dirty, editor>>
      BY <1>4 DEF UI!LoopHead, UI!PopInput, UI!PopThrows, UI!BorrowOutput, UI!SkipFrame,
                  UI!PushOutput, UI!ReturnInput, UI!editVars
    <2> QED
      BY <2>1, CommittingKept
  <1> QED
    BY <1>1, <1>2, <1>3, <1>4 DEF UI!ProcStep

LEMMA CommittingUi ==
    ASSUME Committing, UI!BeginEdit \/ UI!EndEdit \/ UI!Commit \/ UI!CommitWait
    PROVE  Committing'
  <1> USE PipelineAssumption DEF Committing, InForce
  <1>1. CASE UI!BeginEdit
    BY <1>1 DEF UI!BeginEdit
  <1>2. CASE UI!EndEdit
    BY <1>2 DEF UI!EndEdit
  <1>3. CASE UI!Commit
    BY <1>3 DEF UI!Commit
  <1>4. CASE UI!CommitWait
    BY <1>4 DEF UI!CommitWait
  <1> QED
    BY <1>1, <1>2, <1>3, <1>4

LEMMA CommittingStep == Committing /\ [Next]_vars => Committing'
  <1> SUFFICES ASSUME Committing, [Next]_vars PROVE Committing'
    OBVIOUS
  <1> DEFINE Still == UNCHANGED <<pending, active, dirty, editor>>
  <1>1. CASE ProcessorThread
    BY <1>1, CommittingProcessor DEF ProcessorThread, ProcAct
  <1>2. CASE UiThread
    <2>1. CASE UI!UiHead \/ UI!UiNothing \/ UI!UiError \/ UI!UiEof
      <3>1. Still
        BY <2>1 DEF UI!UiHead, UI!UiNothing, UI!UiError, UI!UiEof, UI!procVars, UI!editVars
      <3> QED
        BY <3>1, CommittingKept
    <2>2. CASE UI!UiApply \/ UI!UiApplying
      BY <2>2, CommittingUi DEF UI!UiApply, UI!UiApplying, UI!FinishEdit
    <2> QED
      BY <1>2, <2>1, <2>2 DEF UiThread, UiAct
  <1>3. CASE \/ CaptureThread \/ TxThread \/ LoopThread \/ LibraryThreads \/ Camera \/ CameraFails
             \/ Signal \/ CheckStop \/ Configure \/ UNCHANGED vars
    <2>1. Still
      BY <1>3 DEF CaptureThread, TxThread, LoopThread, LibraryThreads, Camera, CameraFails, Signal,
                  CheckStop, Configure, CapAct, TxAct, OthersUnchanged, vars, procOwn
    <2> QED
      BY <2>1, CommittingKept
  <1>4. CASE StartAll
    <2>1. Still
      BY <1>4 DEF StartAll, CapAct, ProcAct, UiAct, TxAct, procOwn, UI!Start, UI!StartUi,
                  UI!procVars, UI!editVars
    <2> QED
      BY <2>1, CommittingKept
  <1>5. CASE StopAll
    <2>1. Still
      BY <1>5 DEF StopAll, Joins, CapAct, ProcAct, UiAct, TxAct, OthersUnchanged, procOwn,
                  UI!StopUi, UI!StopRequest, UI!StopNotify, UI!procVars, UI!editVars
    <2> QED
      BY <2>1, CommittingKept
  <1> QED
    BY <1>1, <1>2, <1>3, <1>4, <1>5 DEF Next, MainThread, Terminated

LEMMA CommittingInvariant == Spec => []Committing
  <1>1. Init => Committing
    BY PipelineAssumption DEF Init, UI!ProcInit, Committing, InForce
  <1> QED
    BY <1>1, CommittingStep, PTL DEF Spec

(***************************************************************************)
(* The promises of Processor.cpp with all threads running: no half-built   *)
(* pipeline is ever in force; when the UI's commit() has returned, what    *)
(* the user typed is, or it has thrown; and no other thread touches the    *)
(* frames the processing thread has, which has none it does not work on.   *)
(***************************************************************************)
THEOREM ProcessorKeepsPromises ==
    Spec => /\ []ProcStage!PipelineNeverTorn
            /\ []ProcStage!CommittedIsActive
            /\ []ProcStage!HeldFramesAreOwn
  <1>1. Committing => ProcStage!PipelineNeverTorn /\ ProcStage!CommittedIsActive
    BY DEF Committing, InForce, ProcStage!PipelineNeverTorn, ProcStage!CommittedIsActive
  <1>2. InputOwners /\ OutputOwners => ProcStage!HeldFramesAreOwn
    <2> SUFFICES ASSUME InputOwners, OutputOwners PROVE ProcStage!HeldFramesAreOwn
      OBVIOUS
    <2>1. SeenOutput.place = output.place
      BY SeenChannel, SeenOutputIs DEF OutputOwners, Sound
    <2> QED
      BY <2>1, InputPlaces, OutputPlaces
         DEF InputOwners, OutputOwners, ProcStage!HeldFramesAreOwn, ProcStage!In!At, ProcStage!Out!At
  <1> QED
    BY <1>1, <1>2, CommittingInvariant, InputOwnersInvariant, OutputOwnersInvariant, PTL

\* The tx thread has a copy of m_appsrc between reading it and giving up the
\* frame, and stop() drops the reference after that.
Referenced ==
    /\ txAppsrc \in {"none", "current", "replaced"} /\ appsrc \in BOOLEAN
    /\ txAppsrc # "none" => appsrc /\ txPc \in {"clients", "flush", "return", "wrap", "send"}

LEMMA ReferencedStep == Referenced /\ [Next]_vars => Referenced'
  <1> SUFFICES ASSUME Referenced, [Next]_vars PROVE Referenced'
    OBVIOUS
  <1> USE DEF txOwn
  <1> DEFINE Still == UNCHANGED <<txAppsrc, appsrc, txPc>>
  <1>1. ASSUME Still PROVE Referenced'
    BY <1>1 DEF Referenced
  <1>2. CASE \/ CaptureThread \/ ProcessorThread \/ UiThread \/ LoopThread \/ Camera \/ CameraFails
             \/ Signal \/ CheckStop \/ Configure \/ UNCHANGED vars
    <2>1. Still
      BY <1>2 DEF CaptureThread, ProcessorThread, UiThread, LoopThread, Camera, CameraFails, Signal,
                  CheckStop, Configure, CapAct, ProcAct, UiAct, TxAct, OthersUnchanged, vars,
                  Tx!LoopStep, Tx!LoopRuns, Tx!LoopEnds, Tx!txVars
    <2> QED
      BY <1>1, <2>1
  <1>3. CASE TxThread
    <2>1. CASE Tx!TxHead \/ Tx!TxPop \/ Tx!TxPopThrows
      BY <2>1 DEF Tx!TxHead, Tx!TxPop, Tx!TxPopThrows, Tx!libVars, Referenced
    <2>2. CASE Tx!TxReadAppsrc \/ Tx!TxReadClients
      BY <2>2 DEF Tx!TxReadAppsrc, Tx!TxReadClients, Tx!libVars, Referenced
    <2>3. CASE Tx!TxFlush \/ Tx!TxWrap
      BY <2>3 DEF Tx!TxFlush, Tx!TxWrap, Tx!libVars, Referenced
    <2>4. CASE Tx!TxReturn \/ Tx!TxSend \/ Tx!TxSendRefused
      BY <2>4 DEF Tx!TxReturn, Tx!TxSend, Tx!TxSendRefused, Tx!libVars, Referenced
    <2> QED
      BY <1>3, <2>1, <2>2, <2>3, <2>4 DEF TxThread, TxAct, Tx!TxStep
  <1>4. CASE LibraryThreads
    <2>1. CASE Tx!OnMediaConfigure
      BY <2>1 DEF Tx!OnMediaConfigure, Tx!txVars, Referenced
    <2>2. CASE Tx!OnClientConnected \/ Tx!OnClientClosed \/ Tx!PlayOut \/ Tx!PlayOutOld
      BY <1>1, <2>2 DEF Tx!OnClientConnected, Tx!OnClientClosed, Tx!PlayOut, Tx!PlayOutOld, Tx!txVars
    <2> QED
      BY <1>4, <2>1, <2>2 DEF LibraryThreads, TxAct, Tx!LibraryStep
  <1>5. CASE StartAll
    <2>1. CASE TxAct(Tx!StartStreamer)
      BY <2>1 DEF TxAct, Tx!StartStreamer, Referenced
    <2>2. CASE CapAct(OpenDevice) \/ CapAct(StartCapture) \/ ProcAct(UI!Start) \/ UiAct(UI!StartUi)
      BY <1>1, <2>2 DEF CapAct, ProcAct, UiAct
    <2> QED
      BY <1>5, <2>1, <2>2 DEF StartAll
  <1>6. CASE StopAll
    <2>1. CASE TxAct(Tx!UnrefAppsrc)
      BY <2>1 DEF TxAct, Tx!UnrefAppsrc, Tx!txVars, Referenced
    <2>2. CASE TxAct(Tx!StopStreaming) \/ TxAct(Tx!CloseOutput) \/ TxAct(Tx!QuitLoop)
      BY <2>2 DEF TxAct, Tx!StopStreaming, Tx!CloseOutput, Tx!QuitLoop, Tx!txVars, Tx!libVars, Referenced
    <2>3. CASE \/ UiAct(UI!StopUi) \/ OthersUnchanged
               \/ ProcAct(UI!StopRequest) \/ ProcAct(UI!StopNotify)
               \/ CapAct(StopCapture) \/ CapAct(DrainTurn \/ DrainBreaks) \/ CapAct(StreamOff)
      BY <1>1, <2>3 DEF UiAct, ProcAct, CapAct, OthersUnchanged
    <2> QED
      BY <1>6, <2>1, <2>2, <2>3 DEF StopAll, Joins
  <1> QED
    BY <1>2, <1>3, <1>4, <1>5, <1>6 DEF Next, MainThread, Terminated

LEMMA ReferencedInvariant == Spec => []Referenced
  <1>1. Init => Referenced
    BY DEF Init, Tx!StreamerInit, Referenced
  <1> QED
    BY <1>1, ReferencedStep, PTL DEF Spec

(***************************************************************************)
(* The promise of Streamer.cpp with all threads running: a frame that was  *)
(* popped from the output buffer is with the tx thread or with GStreamer,  *)
(* with one of them and once, so that none is lost to the pool; and the    *)
(* appsrc the thread sends to has not been dropped.                        *)
(***************************************************************************)
THEOREM StreamerKeepsPromises == Spec => []TxStage!PoppedFramesAccounted
  <1>1. OutputOwners /\ Referenced => TxStage!PoppedFramesAccounted
    <2> SUFFICES ASSUME OutputOwners, Referenced PROVE TxStage!PoppedFramesAccounted
      OBVIOUS
    <2> USE OutputPlaces
    <2>1. \A f : f \in TxStage!Lent(gst) <=> InGst(f) /\ f # NoFrame
      BY DEF TxStage!Lent, InGst
    <2>2. \A f : InGst(f) => f \in OutPool \cup {NoFrame}
      BY DEF InGst
    <2>3. TxStage!Out!At(output, "reading")
             = TxStage!Lent(gst) \cup oldGst \cup ({txFrame} \ {NoFrame})
      BY <2>1, <2>2 DEF OutputOwners, HasLent, TxStage!Out!At
    <2>4. txFrame \notin TxStage!Lent(gst) \cup oldGst /\ TxStage!Lent(gst) \cap oldGst = {}
      BY <2>1 DEF OutputOwners, HasLent
    <2> QED
      BY <2>3, <2>4 DEF OutputOwners, Referenced, TxStage!PoppedFramesAccounted
  <1> QED
    BY <1>1, OutputOwnersInvariant, ReferencedInvariant, PTL

-----------------------------------------------------------------------------
(* Types                                                                   *)

ProcPlaces == {"off", "head", "pop", "borrow", "swap", "notify", "filter",
               "push", "return", "exited"}
UiPlaces   == {"off", "head", "select", "apply", "exited"}
MainPlaces == {"configure", "open", "start capture", "start processor", "start streamer",
               "start ui", "check", "call pause", "pause",
               "stop ui", "join ui", "stop tx", "close output", "quit loop", "join tx",
               "stop processor", "close input", "join processor",
               "stop capture", "join capture", "exited"}

ThreadTypes ==
    /\ running \in BOOLEAN /\ procPc \in ProcPlaces
    /\ uiStop \in BOOLEAN /\ uiPc \in UiPlaces
    /\ gStop \in BOOLEAN /\ mainPc \in MainPlaces

LEMMA MainTypesStep ==
    ASSUME ThreadTypes, [Next]_vars
    PROVE  gStop' \in BOOLEAN /\ mainPc' \in MainPlaces
  <1> USE DEF mainOwn
  <1>1. CASE \/ CaptureThread \/ ProcessorThread \/ UiThread \/ TxThread \/ LoopThread
             \/ LibraryThreads \/ Camera \/ CameraFails \/ UNCHANGED vars
    <2>1. gStop' = gStop /\ mainPc' = mainPc
      BY <1>1 DEF CaptureThread, ProcessorThread, UiThread, TxThread, LoopThread, LibraryThreads,
                  Camera, CameraFails, vars
    <2> QED
      BY <2>1 DEF ThreadTypes
  <1>2. CASE Signal
    <2>1. gStop' = TRUE /\ mainPc' \in {mainPc, "check"}
      BY <1>2 DEF Signal
    <2> QED
      BY <2>1 DEF ThreadTypes, MainPlaces
  <1>3. CASE MainThread
    <2>1. gStop' = gStop
      BY <1>3 DEF MainThread, CheckStop, Configure, StartAll, StopAll, Joins, Main
    <2>2. mainPc' \in MainPlaces
      <3>1. CASE Configure \/ CheckStop \/ StartAll
        BY <3>1 DEF CheckStop, Configure, StartAll, Main, MainPlaces
      <3>2. CASE StopAll
        BY <3>2 DEF StopAll, Joins, Main, MainPlaces
      <3> QED
        BY <1>3, <3>1, <3>2 DEF MainThread
    <2> QED
      BY <2>1, <2>2 DEF ThreadTypes
  <1> QED
    BY <1>1, <1>2, <1>3 DEF Next, Terminated

LEMMA ThreadTypesStep == ThreadTypes /\ [Next]_vars => ThreadTypes'
  <1> SUFFICES ASSUME ThreadTypes, [Next]_vars PROVE ThreadTypes'
    OBVIOUS
  <1> USE DEF procOwn, uiOwn
  <1> DEFINE Processor == running' \in BOOLEAN /\ procPc' \in ProcPlaces
             Ui        == uiStop' \in BOOLEAN /\ uiPc' \in UiPlaces
             Still     == UNCHANGED <<running, procPc, uiStop, uiPc>>
  <1>1. Still => Processor /\ Ui
    BY DEF ThreadTypes
  <1>2. UNCHANGED <<running, procPc>> => Processor
    BY DEF ThreadTypes
  <1>3. UNCHANGED <<uiStop, uiPc>> => Ui
    BY DEF ThreadTypes
  <1> HIDE DEF Processor, Ui
  <1>4. Processor /\ Ui
    <2>1. CASE \/ CaptureThread \/ TxThread \/ LoopThread \/ LibraryThreads \/ Camera \/ CameraFails
               \/ Signal \/ CheckStop \/ Configure \/ UNCHANGED vars
      <3>1. Still
        BY <2>1 DEF CaptureThread, TxThread, LoopThread, LibraryThreads, Camera, CameraFails, Signal,
                    CheckStop, Configure, CapAct, TxAct, OthersUnchanged, vars
      <3> QED
        BY <1>1, <3>1
    <2>2. CASE ProcessorThread
      <3>1. running' = running
        BY <2>2 DEF ProcessorThread, ProcAct, UI!ProcStep, UI!LoopHead, UI!PopInput, UI!PopThrows,
                    UI!BorrowOutput, UI!SkipFrame, UI!Swap, UI!NotifySwap, UI!Filter, UI!PushOutput,
                    UI!ReturnInput
      <3>2. procPc' \in ProcPlaces
        BY <2>2 DEF ProcessorThread, ProcAct, UI!ProcStep, UI!LoopHead, UI!PopInput, UI!PopThrows,
                    UI!BorrowOutput, UI!SkipFrame, UI!Swap, UI!NotifySwap, UI!Filter, UI!PushOutput,
                    UI!ReturnInput, ProcPlaces
      <3>3. UNCHANGED <<uiStop, uiPc>>
        BY <2>2 DEF ProcessorThread, ProcAct
      <3> QED
        BY <1>3, <3>1, <3>2, <3>3 DEF Processor, ThreadTypes
    <2>3. CASE UiThread
      <3>1. uiStop' = uiStop
        BY <2>3 DEF UiThread, UiAct, UI!UiHead, UI!UiNothing, UI!UiApplying, UI!UiError, UI!UiEof,
                    UI!UiApply
      <3>2. uiPc' \in UiPlaces
        BY <2>3 DEF UiThread, UiAct, UI!UiHead, UI!UiNothing, UI!UiApplying, UI!UiError, UI!UiEof,
                    UI!UiApply, UiPlaces
      <3>3. UNCHANGED <<running, procPc>>
        BY <2>3 DEF UiThread, UiAct, UI!UiHead, UI!UiNothing, UI!UiApplying, UI!UiError, UI!UiEof,
                    UI!UiApply, UI!BeginEdit, UI!FinishEdit, UI!EndEdit, UI!Commit, UI!CommitWait,
                    UI!procVars, UI!threadVars
      <3> QED
        BY <1>2, <3>1, <3>2, <3>3 DEF Ui, ThreadTypes
    <2>4. CASE StartAll
      <3>1. CASE ProcAct(UI!Start)
        BY <1>3, <3>1 DEF ProcAct, UI!Start, Processor, ProcPlaces
      <3>2. CASE UiAct(UI!StartUi)
        BY <1>2, <3>2 DEF UiAct, UI!StartUi, UI!procVars, UI!threadVars, Ui, UiPlaces, ThreadTypes
      <3>3. CASE CapAct(OpenDevice) \/ CapAct(StartCapture) \/ TxAct(Tx!StartStreamer)
        BY <1>1, <3>3 DEF CapAct, TxAct
      <3> QED
        BY <2>4, <3>1, <3>2, <3>3 DEF StartAll
    <2>5. CASE StopAll
      <3>1. CASE UiAct(UI!StopUi)
        BY <1>2, <3>1 DEF UiAct, UI!StopUi, UI!procVars, UI!threadVars, Ui, ThreadTypes
      <3>2. CASE ProcAct(UI!StopRequest) \/ ProcAct(UI!StopNotify)
        BY <1>3, <3>2 DEF ProcAct, UI!StopRequest, UI!StopNotify, UI!threadVars, Processor, ThreadTypes
      <3>3. CASE \/ OthersUnchanged
                 \/ TxAct(Tx!StopStreaming) \/ TxAct(Tx!CloseOutput) \/ TxAct(Tx!QuitLoop)
                 \/ TxAct(Tx!UnrefAppsrc)
                 \/ CapAct(StopCapture) \/ CapAct(DrainTurn \/ DrainBreaks) \/ CapAct(StreamOff)
        BY <1>1, <3>3 DEF CapAct, TxAct, OthersUnchanged
      <3> QED
        BY <2>5, <3>1, <3>2, <3>3 DEF StopAll, Joins
    <2> QED
      BY <2>1, <2>2, <2>3, <2>4, <2>5 DEF Next, MainThread, Terminated
  <1> QED
    BY <1>4, MainTypesStep DEF Processor, Ui, ThreadTypes

LEMMA CaptureTypesStep == StageTypes /\ [Next]_vars => StageTypes'
  <1> SUFFICES ASSUME StageTypes, [Next]_vars PROVE StageTypes'
    OBVIOUS
  <1> USE DEF StageTypes, capOwn, history
  <1>1. CASE \/ ProcessorThread \/ UiThread \/ LoopThread \/ LibraryThreads \/ Signal \/ CheckStop
             \/ Configure \/ UNCHANGED vars
    BY <1>1 DEF ProcessorThread, UiThread, LoopThread, LibraryThreads, Signal, CheckStop, Configure,
                ProcAct, UiAct, TxAct, OthersUnchanged, Main, vars
  <1>2. CASE CaptureThread
    <2>1. CapStep /\ UNCHANGED history
      BY <1>2 DEF CaptureThread, CapAct
    <2>2. skipCount' \in 0 .. Decimation /\ UNCHANGED <<capturing, device, drained>>
      BY <2>1, CaptureTypes
    <2>3. capPc' \in {"head", "select", "borrow", "copy", "push", "requeue", "exited"}
      BY <2>1, CaptureTypes
    <2> QED
      BY <2>1, <2>2, <2>3
  <1>3. CASE TxThread
    <2>1. streamed' = streamed \/ streamed' = streamed \cup ({outImage[txFrame]} \cap Marks)
      BY <1>3 DEF TxThread, Marks
    <2>2. streamed' \subseteq Marks
      BY <2>1
    <2> QED
      BY <1>3, <2>2 DEF TxThread, TxAct
  <1>4. CASE Camera
    BY <1>4 DEF Camera, CapAct, Complete, captureVars, NextTag, Marks
  <1>5. CASE StartAll
    <2>1. UNCHANGED history
      BY <1>5 DEF StartAll, Main
    <2>2. CASE CapAct(OpenDevice) \/ CapAct(StartCapture)
      BY <2>1, <2>2, CapturerAssumption DEF CapAct, OpenDevice, StartCapture, captureVars
    <2>3. CASE ProcAct(UI!Start) \/ UiAct(UI!StartUi) \/ TxAct(Tx!StartStreamer)
      BY <2>1, <2>3 DEF ProcAct, UiAct, TxAct
    <2> QED
      BY <1>5, <2>2, <2>3 DEF StartAll
  <1>6. CASE StopAll
    <2>1. UNCHANGED history
      BY <1>6 DEF StopAll, Joins, Main
    <2>2. CASE CapAct(StopCapture) \/ CapAct(DrainTurn \/ DrainBreaks) \/ CapAct(StreamOff)
      <3>1. drained' \in 0 .. Cardinality(Buffers)
        BY <2>2, StopTypes DEF CapAct
      <3> QED
        BY <2>1, <2>2, <3>1 DEF CapAct, StopCapture, DrainTurn, DrainBreaks, StreamOff, deviceVars,
                                captureVars
    <2>3. CASE \/ UiAct(UI!StopUi) \/ OthersUnchanged
               \/ ProcAct(UI!StopRequest) \/ ProcAct(UI!StopNotify)
               \/ TxAct(Tx!StopStreaming) \/ TxAct(Tx!CloseOutput) \/ TxAct(Tx!QuitLoop)
               \/ TxAct(Tx!UnrefAppsrc)
      BY <2>1, <2>3 DEF ProcAct, UiAct, TxAct, OthersUnchanged
    <2> QED
      BY <1>6, <2>2, <2>3 DEF StopAll, Joins
  <1>7. CASE CameraFails
    BY <1>7 DEF CameraFails, CapAct, QueueError, captureVars
  <1> QED
    BY <1>1, <1>2, <1>3, <1>4, <1>5, <1>6, <1>7 DEF Next, MainThread, Terminated

\* Without timestamps, which the model bounds by MaxPts.
StreamTypes ==
    /\ encoding \in Encodings
    /\ streaming \in BOOLEAN /\ prevHadClients \in BOOLEAN
    /\ loop \in {"off", "starting", "running", "quit", "ended", "deaf"}
    /\ txPc \in {"off", "head", "pop", "appsrc", "clients", "flush", "return",
                 "wrap", "send", "exited"}
    /\ timestamp = 0 /\ \A k \in 1 .. Len(gst) : gst[k].pts = 0
    /\ clientCount \in 0 .. MaxClients

LEMMA StreamTypesTx ==
    ASSUME MaxPts = 0, OutputOwners, StreamTypes, Tx!TxStep
    PROVE  StreamTypes'
  <1> USE DEF StreamTypes
  <1>1. /\ UNCHANGED <<encoding, streaming, loop, clientCount>>
        /\ prevHadClients' \in BOOLEAN
    <2>1. UNCHANGED <<encoding, streaming, loop, clientCount>>
      BY DEF Tx!TxStep, Tx!TxHead, Tx!TxPop, Tx!TxPopThrows, Tx!TxReadAppsrc, Tx!TxReadClients,
             Tx!TxFlush, Tx!TxReturn, Tx!TxWrap, Tx!TxSend, Tx!TxSendRefused, Tx!libVars
    <2>2. prevHadClients' = prevHadClients \/ prevHadClients' = (txAppsrc # "none" /\ clientCount > 0)
      BY DEF Tx!TxStep, Tx!TxHead, Tx!TxPop, Tx!TxPopThrows, Tx!TxReadAppsrc, Tx!TxReadClients,
             Tx!TxFlush, Tx!TxReturn, Tx!TxWrap, Tx!TxSend, Tx!TxSendRefused, Tx!TxHasClients
    <2>3. (txAppsrc # "none" /\ clientCount > 0) \in BOOLEAN
      OBVIOUS
    <2> QED
      BY <2>1, <2>2, <2>3
  <1>2. txPc' \in {"head", "pop", "appsrc", "clients", "flush", "return", "wrap", "send", "exited"}
    BY DEF Tx!TxStep, Tx!TxHead, Tx!TxPop, Tx!TxPopThrows, Tx!TxReadAppsrc, Tx!TxReadClients,
           Tx!TxFlush, Tx!TxReturn, Tx!TxWrap, Tx!TxSend, Tx!TxSendRefused
  <1>3. timestamp' = 0
    BY DEF Tx!TxStep, Tx!TxHead, Tx!TxPop, Tx!TxPopThrows, Tx!TxReadAppsrc, Tx!TxReadClients,
           Tx!TxFlush, Tx!TxReturn, Tx!TxWrap, Tx!TxSend, Tx!TxSendRefused, Tx!Tick
  <1>4. \A k \in 1 .. Len(gst') : gst'[k].pts = 0
    <2>1. CASE Tx!TxSend /\ gst' # gst
      <3> PICK b : b = [frame |-> txFrame, pts |-> timestamp]
        OBVIOUS
      <3>1. gst' = Append(gst, b) /\ b.pts = 0 /\ b \in Beats
        BY <2>1 DEF Tx!TxSend, OutputOwners, Beats
      <3>2. /\ Len(gst) \in Nat /\ Len(gst') = Len(gst) + 1 /\ gst'[Len(gst) + 1] = b
            /\ \A k \in 1 .. Len(gst) : gst'[k] = gst[k]
        BY <3>1, AppendProperties, LenProperties DEF OutputOwners
      <3>3. \A k \in 1 .. Len(gst') : k \in 1 .. Len(gst) \/ k = Len(gst) + 1
        BY <3>2
      <3> QED
        BY <3>1, <3>2, <3>3
    <2>2. CASE Tx!TxFlush /\ gst' # gst
      <3>1. Len(gst') = 0
        BY <2>2 DEF Tx!TxFlush
      <3> QED
        BY <3>1
    <2>3. CASE gst' = gst
      BY <2>3
    <2>4. CASE ~Tx!TxSend /\ ~Tx!TxFlush
      <3>1. gst' = gst
        BY <2>4 DEF Tx!TxStep, Tx!TxHead, Tx!TxPop, Tx!TxPopThrows, Tx!TxReadAppsrc,
                    Tx!TxReadClients, Tx!TxReturn, Tx!TxWrap, Tx!TxSendRefused, Tx!libVars
      <3> QED
        BY <3>1
    <2> QED
      BY <2>1, <2>2, <2>3, <2>4
  <1> QED
    BY <1>1, <1>2, <1>3, <1>4

LEMMA StreamTypesLibrary ==
    ASSUME OutputOwners, StreamTypes, Tx!LibraryStep
    PROVE  StreamTypes'
  <1> USE DEF StreamTypes
  <1>1. UNCHANGED <<encoding, streaming, loop, prevHadClients, txPc, timestamp>>
    BY DEF Tx!LibraryStep, Tx!OnClientConnected, Tx!OnMediaConfigure, Tx!OnClientClosed, Tx!PlayOut,
           Tx!PlayOutOld, Tx!txVars
  <1>2. clientCount' \in 0 .. MaxClients
    <2>1. \/ clientCount' = clientCount
          \/ clientCount < MaxClients /\ clientCount' = clientCount + 1
          \/ clientCount > 0 /\ clientCount' = clientCount - 1
      BY DEF Tx!LibraryStep, Tx!OnClientConnected, Tx!OnMediaConfigure, Tx!OnClientClosed, Tx!PlayOut,
             Tx!PlayOutOld
    <2>2. MaxClients \in Nat
      BY EnvironmentAssumption
    <2> QED
      BY <2>1, <2>2
  <1>3. \A k \in 1 .. Len(gst') : gst'[k].pts = 0
    <2>1. CASE Tx!PlayOut
      <3>1. gst # << >> /\ gst' = Tail(gst)
        BY <2>1 DEF Tx!PlayOut
      <3>2. /\ Len(gst) \in Nat /\ Len(gst') = Len(gst) - 1
            /\ \A k \in 1 .. Len(gst') : gst'[k] = gst[k + 1]
        BY <3>1, HeadTailProperties, EmptySeq, LenProperties DEF OutputOwners
      <3> QED
        BY <3>2
    <2>2. CASE Tx!OnMediaConfigure
      <3>1. Len(gst') = 0
        BY <2>2 DEF Tx!OnMediaConfigure
      <3> QED
        BY <3>1
    <2>3. CASE Tx!OnClientConnected \/ Tx!OnClientClosed \/ Tx!PlayOutOld
      <3>1. gst' = gst
        BY <2>3 DEF Tx!OnClientConnected, Tx!OnClientClosed, Tx!PlayOutOld
      <3> QED
        BY <3>1
    <2> QED
      BY <2>1, <2>2, <2>3 DEF Tx!LibraryStep
  <1> QED
    BY <1>1, <1>2, <1>3

LEMMA StreamTypesStep ==
    ASSUME MaxPts = 0, OutputOwners, StreamTypes, [Next]_vars
    PROVE  StreamTypes'
  <1> USE DEF txOwn
  <1> DEFINE Still == UNCHANGED <<encoding, prevHadClients, timestamp, clientCount, gst>>
  <1>1. ASSUME Still, streaming' \in BOOLEAN, txPc' \in {txPc, "head"},
               loop' \in {loop, "starting", "running", "quit", "ended", "deaf"}
        PROVE  StreamTypes'
    BY <1>1 DEF StreamTypes
  <1>2. ASSUME Still, UNCHANGED <<streaming, loop, txPc>> PROVE StreamTypes'
    BY <1>2 DEF StreamTypes
  <1>3. CASE \/ CaptureThread \/ ProcessorThread \/ UiThread \/ Camera \/ CameraFails \/ Signal
             \/ CheckStop \/ Configure \/ UNCHANGED vars
    <2>1. Still /\ UNCHANGED <<streaming, loop, txPc>>
      BY <1>3 DEF CaptureThread, ProcessorThread, UiThread, Camera, CameraFails, Signal, CheckStop,
                  Configure, CapAct, ProcAct, UiAct, OthersUnchanged, vars
    <2> QED
      BY <1>2, <2>1
  <1>4. CASE TxThread
    BY <1>4, StreamTypesTx DEF TxThread, TxAct
  <1>5. CASE LibraryThreads
    BY <1>5, StreamTypesLibrary DEF LibraryThreads, TxAct
  <1>6. CASE StartAll
    <2>1. CASE TxAct(Tx!StartStreamer)
      BY <1>1, <2>1 DEF TxAct, Tx!StartStreamer
    <2>2. CASE CapAct(OpenDevice) \/ CapAct(StartCapture) \/ ProcAct(UI!Start) \/ UiAct(UI!StartUi)
      BY <1>2, <2>2 DEF CapAct, ProcAct, UiAct
    <2> QED
      BY <1>6, <2>1, <2>2 DEF StartAll
  <1>7. CASE StopAll
    <2>1. streaming \in BOOLEAN
      BY DEF StreamTypes
    <2>2. CASE TxAct(Tx!StopStreaming) \/ TxAct(Tx!QuitLoop)
      BY <1>1, <2>1, <2>2 DEF TxAct, Tx!StopStreaming, Tx!QuitLoop, Tx!txVars, Tx!libVars
    <2>3. CASE TxAct(Tx!CloseOutput) \/ TxAct(Tx!UnrefAppsrc)
      BY <1>2, <2>3 DEF TxAct, Tx!CloseOutput, Tx!UnrefAppsrc, Tx!txVars, Tx!libVars
    <2>4. CASE \/ UiAct(UI!StopUi) \/ OthersUnchanged
               \/ ProcAct(UI!StopRequest) \/ ProcAct(UI!StopNotify)
               \/ CapAct(StopCapture) \/ CapAct(DrainTurn \/ DrainBreaks) \/ CapAct(StreamOff)
      BY <1>2, <2>4 DEF UiAct, ProcAct, CapAct, OthersUnchanged
    <2> QED
      BY <1>7, <2>2, <2>3, <2>4 DEF StopAll, Joins
  <1>8. CASE LoopThread
    <2>1. streaming' \in BOOLEAN
      BY <1>8 DEF LoopThread, TxAct, Tx!LoopStep, Tx!LoopRuns, Tx!LoopEnds, Tx!txVars, StreamTypes
    <2> QED
      BY <1>1, <1>8, <2>1 DEF LoopThread, TxAct, Tx!LoopStep, Tx!LoopRuns, Tx!LoopEnds, Tx!txVars
  <1> QED
    BY <1>3, <1>4, <1>5, <1>6, <1>7, <1>8 DEF Next, MainThread, Terminated

\* Every variable of the program keeps its type.
THEOREM TypeCorrect == ASSUME MaxPts = 0 PROVE Spec => []TypeOK
  <1> DEFINE Flat  == ThreadTypes /\ StageTypes /\ StreamTypes
             Owned == InputOwners /\ OutputOwners /\ BufferOwners /\ Draining /\ Pictures
                          /\ Committing /\ Referenced
  <1>1. Init => Flat
    <2> SUFFICES ASSUME Init PROVE Flat
      OBVIOUS
    <2>1. ThreadTypes
      BY DEF Init, UI!ProcInit, UI!UiInit, ThreadTypes, ProcPlaces, UiPlaces, MainPlaces
    <2>2. StageTypes
      <3>1. 0 \in 0 .. Decimation /\ 0 \in 0 .. Cardinality(Buffers)
        BY CapturerAssumption, FS_CardinalityType
      <3>2. /\ skipCount = 0 /\ drained = 0 /\ capturing = FALSE /\ device = "closed" /\ capPc = "off"
            /\ tagged = {} /\ streamed = {}
        BY DEF Init, CapInit
      <3> QED
        BY <3>1, <3>2 DEF StageTypes
    <2>3. StreamTypes
      <3>1. 0 \in 0 .. MaxClients
        BY EnvironmentAssumption
      <3>2. \A k \in 1 .. Len(gst) : gst[k].pts = 0
        <4>1. Len(gst) = 0
          BY DEF Init, Tx!StreamerInit
        <4> QED
          BY <4>1
      <3> QED
        BY <3>1, <3>2 DEF Init, Tx!StreamerInit, StreamTypes
    <2> QED
      BY <2>1, <2>2, <2>3
  <1>2. Owned /\ Flat /\ [Next]_vars => Flat'
    BY ThreadTypesStep, CaptureTypesStep, StreamTypesStep
  <1>3. Owned /\ Flat => TypeOK
    <2> SUFFICES ASSUME Owned, Flat PROVE TypeOK
      OBVIOUS
    <2>1. /\ input \in In!Channels /\ input \in UI!In!Channels
          /\ output \in UI!Out!Channels /\ output \in Tx!Out!Channels
      BY DEF InputOwners, OutputOwners, Sound, ChannelsOf, FramePlaces, In!Channels, In!Places,
             UI!In!Channels, UI!In!Places, UI!Out!Channels, UI!Out!Places, Tx!Out!Channels,
             Tx!Out!Places
    <2>2. CapTypeOK
      BY <2>1 DEF InputOwners, BufferOwners, Pictures, StageTypes, CapTypeOK
    <2>3. UI!ProcTypeOK
      BY <2>1 DEF InputOwners, OutputOwners, Pictures, Committing, ThreadTypes, ProcPlaces,
                  UI!ProcTypeOK, Tags, UI!Images
    <2>4. gst \in Seq(Tx!GstBuffers)
      <3>1. ASSUME NEW k \in 1 .. Len(gst) PROVE gst[k] \in Tx!GstBuffers
        <4>1. gst[k] \in Beats
          BY ElementOfSeq DEF OutputOwners
        <4>2. gst[k].pts \in 0 .. MaxPts
          BY DEF StreamTypes
        <4> QED
          BY <4>1, <4>2 DEF Beats, Tx!GstBuffers
      <3>2. gst \in Seq(Beats)
        BY DEF OutputOwners
      <3> QED
        BY <3>1, <3>2, SeqDef
    <2>5. Tx!StreamerTypeOK
      BY <2>1, <2>4 DEF OutputOwners, Referenced, StreamTypes, Tx!StreamerTypeOK
    <2> QED
      BY <2>2, <2>3, <2>5 DEF ThreadTypes, UiPlaces, MainPlaces, StageTypes, Marks, UI!UiTypeOK, TypeOK
  <1>4. Spec => []Owned
    BY InputOwnersInvariant, OutputOwnersInvariant, BufferOwnersInvariant, DrainingInvariant,
       PicturesInvariant, CommittingInvariant, ReferencedInvariant, PTL
  <1> QED
    BY <1>1, <1>2, <1>3, <1>4, PTL DEF Spec
=============================================================================
