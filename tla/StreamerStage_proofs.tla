------------------------- MODULE StreamerStage_proofs -------------------------
(***************************************************************************)
(* Proofs about StreamerStage for buffers of any size, any number of       *)
(* clients, any length of GStreamer's queue and any bound on timestamps.   *)
(***************************************************************************)
EXTENDS StreamerStage, CommonLemmas

\* GStreamer holds frame f, in m_appsrc or in one that was m_appsrc before.
InGst(f) == \E k \in 1 .. Len(gst) : gst[k].frame = f
Held(f)  == InGst(f) \/ f \in oldGst

\* The tx thread has a frame from pop() on; at "send" a JPEG has replaced it.
\* Only that thread sends: while its copy is of an appsrc that was replaced, the
\* new one is empty.
TxOK ==
    /\ txPc \in {"off", "head", "pop", "exited"} => txFrame = NoFrame
    /\ txPc \in {"appsrc", "clients", "flush", "return", "wrap"} => txFrame # NoFrame
    /\ txAppsrc # "none" => appsrc /\ txPc \in {"clients", "flush", "return", "wrap", "send"}
    /\ txAppsrc = "replaced" => gst = << >>

\* PoppedFramesAccounted, frame by frame.
LentOK ==
    /\ \A f \in OutPool : output.place[f] = "reading" <=> f = txFrame \/ Held(f)
    /\ txFrame # NoFrame => ~Held(txFrame)
    /\ \A f \in oldGst : ~InGst(f)
    /\ \A j, k \in 1 .. Len(gst) :
          j # k /\ gst[j].frame # NoFrame => gst[j].frame # gst[k].frame

\* The bound on what is produced keeps the timestamps within theirs.
BoundOK == MaxPts # 0 => timestamp + FramesOnTheWay <= MaxPts

PtsOK ==
    MaxPts # 0 => /\ \A j, k \in 1 .. Len(gst) : j < k => gst[j].pts < gst[k].pts
                  /\ \A k \in 1 .. Len(gst) : gst[k].pts < timestamp

IInv == TypeOK /\ Sound(output, OutPool) /\ TxOK /\ LentOK /\ BoundOK /\ PtsOK

-----------------------------------------------------------------------------
LEMMA OutTypes == Out!Channels = ChannelsOf(OutPool)
  BY DEF Out!Channels, Out!Places, ChannelsOf, FramePlaces

LEMMA GstIs ==
    ASSUME TypeOK
    PROVE  /\ Len(gst) \in Nat
           /\ \A k \in 1 .. Len(gst) : gst[k].frame \in OutPool \cup {NoFrame} /\ gst[k].pts \in 0 .. MaxPts
           /\ MaxPts \in Nat /\ NoFrame \notin OutPool
  <1>1. gst \in Seq(GstBuffers)
    BY DEF TypeOK, StreamerTypeOK
  <1>2. \A k \in 1 .. Len(gst) : gst[k] \in GstBuffers
    BY <1>1, ElementOfSeq
  <1> QED BY <1>1, <1>2, LenProperties, StreamerAssumption DEF GstBuffers

\* The frames of GStreamer, as the set of the model and one by one.
LEMMA LentIs == \A f : f \in Lent(gst) <=> InGst(f) /\ f # NoFrame
  BY DEF Lent, InGst

LEMMA QueueLength == Sound(output, OutPool) => Len(output.queue) \in Nat /\ output.place \in [OutPool -> FramePlaces]
  BY LenProperties DEF Sound, ChannelsOf

\* The frame of the tx thread counts as one on the way.
InHand == IF txPc \in {"off", "head", "pop", "exited"} THEN 0 ELSE 1

LEMMA OnTheWay ==
    /\ FramesOnTheWay = Len(output.queue) + InHand
    /\ InHand \in {0, 1}
  BY DEF FramesOnTheWay, InHand

LEMMA AtMost ==
    ASSUME NEW m \in Nat, NEW t \in Nat, NEW a \in Nat, NEW b \in Nat, b <= a, t + a <= m
    PROVE  t + b <= m
  OBVIOUS

LEMMA InitIInv == Init => IInv
  <1> SUFFICES ASSUME Init PROVE IInv
    OBVIOUS
  <1> USE StreamerAssumption DEF Init, StreamerInit
  <1>1. output = [place |-> [f \in OutPool |-> "free"], queue |-> << >>, closed |-> FALSE]
    BY DEF Out!NewChannel
  <1>2. Sound(output, OutPool)
    BY <1>1 DEF Sound, ChannelsOf, FramePlaces
  <1>3. TypeOK
    <2>1. output \in Out!Channels /\ gst \in Seq(GstBuffers) /\ 0 \in 0 .. MaxPts /\ 0 \in 0 .. MaxClients
      BY <1>2, OutTypes, EmptySeq DEF Sound
    <2> QED BY <2>1 DEF TypeOK, StreamerTypeOK
  <1>4. TxOK /\ PtsOK
    BY DEF TxOK, PtsOK
  <1>5. LentOK
    BY <1>1 DEF LentOK, InGst, Held
  <1>6. BoundOK
    BY <1>1 DEF BoundOK, FramesOnTheWay
  <1> QED BY <1>2, <1>3, <1>4, <1>5, <1>6 DEF IInv

-----------------------------------------------------------------------------
(* Steps that move no frame                                                *)

LEMMA Flags ==
    /\ IInv
    /\ \/ StartStreamer \/ StopStreaming \/ LoopStep \/ QuitLoop \/ UnrefAppsrc
       \/ TxHead \/ TxPopThrows \/ TxReadAppsrc \/ TxReadClients
       \/ OnClientConnected \/ OnClientClosed
    => IInv'
  <1> SUFFICES ASSUME IInv,
                      \/ StartStreamer \/ StopStreaming \/ LoopStep \/ QuitLoop \/ UnrefAppsrc
                      \/ TxHead \/ TxPopThrows \/ TxReadAppsrc \/ TxReadClients
                      \/ OnClientConnected \/ OnClientClosed
               PROVE  IInv'
    OBVIOUS
  <1> USE DEF IInv
  <1>1. UNCHANGED <<output, gst, oldGst, txFrame, timestamp>>
    BY DEF StartStreamer, StopStreaming, LoopStep, LoopRuns, LoopEnds, QuitLoop, UnrefAppsrc, TxHead,
           TxPopThrows, TxReadAppsrc, TxReadClients, OnClientConnected, OnClientClosed, txVars, libVars
  <1>2. Sound(output, OutPool)'
    BY <1>1
  <1>3. LentOK' /\ PtsOK'
    BY <1>1 DEF LentOK, InGst, Held, PtsOK
  <1>4. (txPc \in {"off", "head", "pop", "exited"})' <=> txPc \in {"off", "head", "pop", "exited"}
    BY DEF StartStreamer, StopStreaming, LoopStep, LoopRuns, LoopEnds, QuitLoop, UnrefAppsrc, TxHead,
           TxPopThrows, TxReadAppsrc, TxReadClients, OnClientConnected, OnClientClosed, txVars
  <1>5. BoundOK'
    BY <1>1, <1>4 DEF BoundOK, FramesOnTheWay
  <1>6. CASE StartStreamer \/ StopStreaming \/ LoopStep \/ QuitLoop \/ UnrefAppsrc
    <2>1. TypeOK'
      BY <1>1, <1>6
         DEF StartStreamer, StopStreaming, LoopStep, LoopRuns, LoopEnds, QuitLoop, UnrefAppsrc,
             TypeOK, StreamerTypeOK, txVars, libVars
    <2>2. TxOK'
      BY <1>1, <1>6
         DEF StartStreamer, StopStreaming, LoopStep, LoopRuns, LoopEnds, QuitLoop, UnrefAppsrc,
             TxOK, txVars, libVars
    <2> QED BY <1>2, <1>3, <1>5, <2>1, <2>2
  <1>7. CASE TxHead \/ TxPopThrows \/ TxReadAppsrc
    BY <1>1, <1>2, <1>3, <1>5, <1>7
       DEF TxHead, TxPopThrows, TxReadAppsrc, TypeOK, StreamerTypeOK, TxOK, libVars
  <1>8. CASE TxReadClients
    <2>1. txPc' \in {"wrap", "flush", "return"} /\ (txPc' # "return" => txAppsrc # "none") /\ prevHadClients' \in BOOLEAN
      BY <1>8 DEF TxReadClients, TxHasClients
    <2> QED BY <1>1, <1>2, <1>3, <1>5, <1>8, <2>1
               DEF TxReadClients, TypeOK, StreamerTypeOK, TxOK, libVars
  <1>9. CASE OnClientConnected \/ OnClientClosed
    <2>1. clientCount' \in 0 .. MaxClients
      BY <1>9, StreamerAssumption DEF OnClientConnected, OnClientClosed, TypeOK, StreamerTypeOK
    <2>2. TypeOK'
      BY <1>1, <1>9, <2>1 DEF OnClientConnected, OnClientClosed, TypeOK, StreamerTypeOK, txVars
    <2>3. TxOK'
      BY <1>1, <1>9 DEF OnClientConnected, OnClientClosed, TxOK, txVars
    <2> QED BY <1>2, <1>3, <1>5, <2>2, <2>3
  <1> QED BY <1>6, <1>7, <1>8, <1>9

\* A second media: the buffers stay with the appsrc that was m_appsrc.
LEMMA Configures == IInv /\ OnMediaConfigure => IInv'
  <1> SUFFICES ASSUME IInv, OnMediaConfigure PROVE IInv'
    OBVIOUS
  <1> USE DEF IInv
  <1>1. /\ UNCHANGED <<encoding, output, streaming, txPc, txFrame, prevHadClients, timestamp,
                       loop, clientCount>>
        /\ gst' = << >> /\ appsrc' = TRUE /\ oldGst' = oldGst \cup Lent(gst)
        /\ txAppsrc' = IF txAppsrc = "current" THEN "replaced" ELSE txAppsrc
    BY DEF OnMediaConfigure
  <1>2. Lent(gst) \subseteq OutPool /\ (\A f : ~InGst(f)') /\ gst' \in Seq(GstBuffers)
    <2>1. Len(gst') = 0 /\ gst' \in Seq(GstBuffers)
      BY <1>1, EmptySeq
    <2> QED BY <2>1, GstIs DEF Lent, InGst
  <1>3. \A f \in OutPool : Held(f)' <=> Held(f)
    BY <1>1, <1>2, LentIs, GstIs DEF Held
  <1>4. TypeOK' /\ Sound(output, OutPool)'
    BY <1>1, <1>2 DEF TypeOK, StreamerTypeOK
  <1>5. TxOK' /\ PtsOK'
    BY <1>1 DEF TxOK, PtsOK, TypeOK, StreamerTypeOK
  <1>6. LentOK'
    <2>1. txFrame' # NoFrame => ~Held(txFrame)'
      <3> PICK t : t = txFrame
        OBVIOUS
      <3>1. t # NoFrame => t \in OutPool /\ ~Held(t)
        BY DEF LentOK, TypeOK, StreamerTypeOK
      <3>2. t # NoFrame => ~Held(t)'
        BY <1>3, <3>1
      <3> QED BY <1>1, <3>2 DEF Held, InGst
    <2>2. \A f \in OutPool : output'.place[f] = "reading" <=> f = txFrame' \/ Held(f)'
      BY <1>1, <1>3 DEF LentOK
    <2>3. \A j, k \in 1 .. Len(gst') : FALSE
      BY <1>1
    <2> QED BY <1>2, <2>1, <2>2, <2>3 DEF LentOK
  <1>7. BoundOK'
    BY <1>1 DEF BoundOK, FramesOnTheWay
  <1> QED BY <1>4, <1>5, <1>6, <1>7

-----------------------------------------------------------------------------
(* Steps that move a frame between buffer and tx thread                    *)

\* The producer's side and forceNotify(): the popped frames stay as they are.
LEMMA OutputSide == IInv /\ (CloseOutput \/ Produce \/ Deliver) => IInv'
  <1> SUFFICES ASSUME IInv, CloseOutput \/ Produce \/ Deliver PROVE IInv'
    OBVIOUS
  <1> USE DEF IInv
  <1>1. UNCHANGED <<txVars, libVars>>
    BY DEF CloseOutput, Produce, Deliver
  <1>2. ASSUME Sound(output', OutPool),
               \A f \in OutPool : output'.place[f] = "reading" <=> output.place[f] = "reading",
               MaxPts # 0 => timestamp + FramesOnTheWay' <= MaxPts
        PROVE  IInv'
    <2>1. TypeOK'
      BY <1>1, <1>2, OutTypes DEF TypeOK, StreamerTypeOK, Sound, txVars, libVars
    <2>2. TxOK' /\ PtsOK'
      BY <1>1 DEF TxOK, PtsOK, txVars, libVars
    <2>3. LentOK'
      BY <1>1, <1>2 DEF LentOK, InGst, Held, txVars, libVars
    <2>4. BoundOK'
      BY <1>1, <1>2 DEF BoundOK, txVars
    <2> QED BY <1>2, <2>1, <2>2, <2>3, <2>4
  <1>3. CASE CloseOutput
    <2>1. output' = [output EXCEPT !.closed = TRUE]
      BY <1>3 DEF CloseOutput, Out!Closed
    <2>2. Sound(output', OutPool) /\ output'.place = output.place /\ output'.queue = output.queue
      BY <2>1, CloseSound
    <2>3. FramesOnTheWay' = FramesOnTheWay
      BY <1>1, <2>2 DEF FramesOnTheWay, txVars
    <2> QED BY <1>2, <2>2, <2>3 DEF BoundOK
  <1>4. CASE Produce
    <2>1. PICK f \in OutPool : output.place[f] = "free" /\ output' = Moved(output, f, "filling")
      BY <1>4 DEF Produce, Out!At, Out!Borrowed, Moved
    <2>2. /\ Sound(output', OutPool) /\ output'.place = [output.place EXCEPT ![f] = "filling"]
          /\ output'.queue = output.queue
      BY <2>1, Somewhere, MoveSound
    <2>3. FramesOnTheWay' = FramesOnTheWay
      BY <1>1, <2>2 DEF FramesOnTheWay, txVars
    <2> QED BY <1>2, <2>1, <2>2, <2>3, QueueLength DEF BoundOK
  <1>5. CASE Deliver
    <2>1. PICK f \in OutPool : output.place[f] = "filling" /\ output' = Put(output, f)
      BY <1>5 DEF Deliver, Out!At, Out!Pushed, Put
    <2>2. /\ Sound(output', OutPool) /\ output'.place = [output.place EXCEPT ![f] = "queued"]
          /\ Len(output'.queue) = Len(output.queue) + 1 /\ Len(output.queue) \in Nat
      BY <2>1, PushSound
    <2>3. FramesOnTheWay' = FramesOnTheWay + 1 /\ FramesOnTheWay \in Nat
      <3>1. InHand' = InHand
        BY <1>1 DEF InHand, txVars
      <3>2. FramesOnTheWay' = Len(output'.queue) + InHand'
        BY DEF FramesOnTheWay, InHand
      <3> QED BY <2>2, <3>1, <3>2, OnTheWay
    <2>4. MaxPts = 0 \/ timestamp + FramesOnTheWay < MaxPts
      BY <1>5 DEF Deliver
    <2>5. timestamp \in Nat /\ MaxPts \in Nat
      BY StreamerAssumption DEF TypeOK, StreamerTypeOK
    <2>6. MaxPts # 0 => timestamp + FramesOnTheWay' <= MaxPts
      BY <2>3, <2>4, <2>5
    <2> QED BY <1>2, <2>1, <2>2, <2>6, QueueLength
  <1> QED BY <1>3, <1>4, <1>5

LEMMA Pops == IInv /\ TxPop => IInv'
  <1> SUFFICES ASSUME IInv, TxPop PROVE IInv'
    OBVIOUS
  <1> USE StreamerAssumption DEF IInv
  <1> PICK h : h = Head(output.queue)
    OBVIOUS
  <1>1. /\ output.queue # << >>
        /\ output' = [output EXCEPT !.place[Head(output.queue)] = "reading", !.queue = Tail(@)]
        /\ txFrame' = h /\ txPc = "pop" /\ txPc' = "appsrc"
        /\ UNCHANGED <<streaming, txAppsrc, prevHadClients, timestamp, libVars>>
    BY DEF TxPop, Out!CanPop, Out!Popped
  <1>2. /\ Sound(output', OutPool) /\ h \in OutPool /\ output.place[h] = "queued"
        /\ output'.place = [output.place EXCEPT ![h] = "reading"]
        /\ Len(output'.queue) = Len(output.queue) - 1 /\ Len(output.queue) \in Nat
    BY <1>1, PopSound
  <1>3. TypeOK'
    BY <1>1, <1>2, OutTypes DEF TypeOK, StreamerTypeOK, Sound, libVars
  <1>4. TxOK' /\ PtsOK'
    BY <1>1, <1>2 DEF TxOK, PtsOK, libVars
  <1>5. LentOK'
    <2>1. txFrame = NoFrame /\ ~Held(h)
      BY <1>1, <1>2 DEF TxOK, LentOK
    <2> QED BY <1>1, <1>2, <2>1, QueueLength DEF LentOK, InGst, Held, libVars
  <1>6. BoundOK'
    BY <1>1, <1>2 DEF BoundOK, FramesOnTheWay
  <1> QED BY <1>2, <1>3, <1>4, <1>5, <1>6

\* The frame goes back to the pool and the tx thread on without it.
LEMMA GivesBack == IInv /\ (TxReturn \/ TxWrap) => IInv'
  <1> SUFFICES ASSUME IInv, TxReturn \/ TxWrap PROVE IInv'
    OBVIOUS
  <1> USE StreamerAssumption DEF IInv
  <1> PICK f : f = txFrame
    OBVIOUS
  <1>1. f \in OutPool /\ output.place[f] = "reading" /\ ~Held(f)
    BY DEF TxReturn, TxWrap, TxOK, LentOK, TypeOK, StreamerTypeOK
  <1>2. UNCHANGED <<streaming, prevHadClients, timestamp, libVars>>
    BY DEF TxReturn, TxWrap
  <1>3. CASE TxWrap /\ ZeroCopy
    <2>1. UNCHANGED <<output, txFrame, txAppsrc>> /\ txPc = "wrap" /\ txPc' = "send"
      BY <1>3 DEF TxWrap
    <2>2. TypeOK' /\ Sound(output, OutPool)'
      BY <1>2, <2>1 DEF TypeOK, StreamerTypeOK, libVars
    <2>3. TxOK' /\ PtsOK'
      BY <1>2, <2>1 DEF TxOK, PtsOK, libVars
    <2>4. LentOK' /\ BoundOK'
      BY <1>2, <2>1 DEF LentOK, InGst, Held, BoundOK, FramesOnTheWay, libVars
    <2> QED BY <2>2, <2>3, <2>4
  <1>4. CASE TxReturn \/ (TxWrap /\ ~ZeroCopy)
    <2>1. /\ output' = Moved(output, f, "free") /\ txFrame' = NoFrame
          /\ txPc \in {"return", "wrap"} /\ txPc' \in {"head", "send"}
          /\ txAppsrc' = "none" \/ (txAppsrc' = txAppsrc /\ txPc' = "send")
      <3>1. CASE TxReturn
        BY <3>1 DEF TxReturn, Out!Returned, Moved
      <3>2. CASE TxWrap /\ ~ZeroCopy
        BY <3>2 DEF TxWrap, Out!Returned, Moved
      <3> QED BY <1>4, <3>1, <3>2
    <2>2. /\ Sound(output', OutPool) /\ output'.place = [output.place EXCEPT ![f] = "free"]
          /\ output'.queue = output.queue
      BY <1>1, <2>1, Somewhere, MoveSound
    <2>3. TypeOK'
      BY <1>2, <2>1, <2>2, OutTypes DEF TypeOK, StreamerTypeOK, Sound, libVars
    <2>4. TxOK' /\ PtsOK'
      BY <1>2, <2>1 DEF TxOK, PtsOK, libVars
    <2>5. LentOK'
      BY <1>1, <1>2, <2>1, <2>2, QueueLength DEF LentOK, InGst, Held, libVars
    <2>6. FramesOnTheWay' <= FramesOnTheWay /\ FramesOnTheWay \in Nat /\ FramesOnTheWay' \in Nat
      <3>1. FramesOnTheWay' = Len(output'.queue) + InHand' /\ InHand' \in {0, 1} /\ InHand = 1
        BY <2>1 DEF FramesOnTheWay, InHand
      <3> QED BY <2>2, <3>1, OnTheWay, QueueLength
    <2>7. BoundOK'
      <3>1. timestamp \in Nat /\ MaxPts \in Nat
        BY DEF TypeOK, StreamerTypeOK
      <3>2. timestamp' = timestamp /\ (MaxPts # 0 => timestamp + FramesOnTheWay <= MaxPts)
        BY <1>2 DEF BoundOK
      <3>3. MaxPts # 0 => timestamp + FramesOnTheWay' <= MaxPts
        BY <2>6, <3>1, <3>2, AtMost
      <3> QED BY <3>2, <3>3 DEF BoundOK
    <2> QED BY <2>2, <2>3, <2>4, <2>5, <2>7
  <1> QED BY <1>3, <1>4

-----------------------------------------------------------------------------
(* Steps of GStreamer's queue                                              *)

\* Tick keeps m_timestamp in its range, as the frame that is sent was counted.
LEMMA Ticks ==
    ASSUME IInv, Tick, txPc = "send"
    PROVE  /\ timestamp' \in 0 .. MaxPts
           /\ MaxPts # 0 => timestamp' = timestamp + 1
  <1>1. FramesOnTheWay >= 1 /\ FramesOnTheWay \in Nat
    BY OnTheWay, QueueLength DEF IInv, InHand
  <1>2. timestamp \in 0 .. MaxPts /\ MaxPts \in Nat
    BY StreamerAssumption DEF IInv, TypeOK, StreamerTypeOK
  <1>3. MaxPts # 0 => timestamp + FramesOnTheWay <= MaxPts
    BY DEF IInv, BoundOK
  <1>4. timestamp' = IF MaxPts = 0 THEN 0 ELSE timestamp + 1
    BY DEF Tick
  <1> QED BY <1>1, <1>2, <1>3, <1>4

\* One frame less is on the way and one duration more has passed.
LEMMA SendBound ==
    ASSUME IInv, Tick, txPc = "send", txPc' = "head", output'.queue = output.queue
    PROVE  BoundOK'
  <1>1. InHand = 1 /\ InHand' = 0 /\ Len(output.queue) \in Nat
    BY QueueLength DEF InHand, IInv
  <1>2. FramesOnTheWay = Len(output.queue) + 1 /\ FramesOnTheWay' = Len(output.queue)
    BY <1>1 DEF FramesOnTheWay, InHand
  <1>3. timestamp \in Nat /\ (MaxPts # 0 => timestamp' = timestamp + 1 /\ timestamp + FramesOnTheWay <= MaxPts)
    BY Ticks DEF IInv, BoundOK, TypeOK, StreamerTypeOK
  <1>4. MaxPts # 0 => timestamp' + FramesOnTheWay' <= MaxPts
    BY <1>1, <1>2, <1>3
  <1> QED BY <1>4 DEF BoundOK

\* To an appsrc that has been replaced: m_appsrc, whose buffers have the
\* timestamps this is about, is empty.
LEMMA SendsToReplaced == IInv /\ TxSend /\ txAppsrc = "replaced" => IInv'
  <1> SUFFICES ASSUME IInv, TxSend, txAppsrc = "replaced" PROVE IInv'
    OBVIOUS
  <1> USE DEF IInv
  <1>1. /\ txPc = "send" /\ txPc' = "head" /\ Tick /\ txFrame' = NoFrame /\ txAppsrc' = "none"
        /\ UNCHANGED <<encoding, output, streaming, prevHadClients, appsrc, loop, clientCount, gst>>
        /\ oldGst' = oldGst \cup ({txFrame} \ {NoFrame})
    BY DEF TxSend
  <1>2. gst = << >>
    BY DEF TxOK
  <1>3. (\A f : ~InGst(f)) /\ (\A f : ~InGst(f)')
    BY <1>1, <1>2 DEF InGst
  <1>4. TypeOK'
    BY <1>1, Ticks DEF TypeOK, StreamerTypeOK
  <1>5. TxOK' /\ BoundOK' /\ Sound(output, OutPool)' /\ PtsOK'
    BY <1>1, <1>2, SendBound DEF TxOK, PtsOK
  <1>6. LentOK'
    <2>1. \A f \in OutPool : output'.place[f] = "reading" <=> f = txFrame' \/ Held(f)'
      BY <1>1, <1>3, GstIs DEF LentOK, Held
    <2> QED BY <1>1, <1>2, <1>3, <2>1 DEF LentOK
  <1> QED BY <1>4, <1>5, <1>6

LEMMA Sends == IInv /\ TxSend /\ txAppsrc # "replaced" => IInv'
  <1> SUFFICES ASSUME IInv, TxSend, txAppsrc # "replaced" PROVE IInv'
    OBVIOUS
  <1> USE DEF IInv
  <1> PICK b : b = [frame |-> txFrame, pts |-> timestamp]
    OBVIOUS
  <1>1. /\ txPc = "send" /\ txPc' = "head" /\ Tick /\ txFrame' = NoFrame /\ txAppsrc' = "none"
        /\ UNCHANGED <<encoding, output, streaming, prevHadClients, appsrc, loop, clientCount, oldGst>>
        /\ gst' = Append(gst, b)
    BY DEF TxSend
  <1>2. b \in GstBuffers /\ b.frame = txFrame /\ b.pts = timestamp
    BY DEF GstBuffers, TypeOK, StreamerTypeOK
  <1>3. /\ gst' \in Seq(GstBuffers) /\ Len(gst) \in Nat /\ Len(gst') = Len(gst) + 1
        /\ \A k \in 1 .. Len(gst) : gst'[k] = gst[k]
        /\ gst'[Len(gst) + 1] = b
    BY <1>1, <1>2, AppendProperties, LenProperties DEF TypeOK, StreamerTypeOK
  <1>4. \A k \in 1 .. Len(gst') : k \in 1 .. Len(gst) \/ k = Len(gst) + 1
    BY <1>3
  <1>5. \A f : InGst(f)' <=> InGst(f) \/ f = txFrame
    BY <1>2, <1>3, <1>4 DEF InGst
  <1>6. TypeOK'
    BY <1>1, <1>3, Ticks DEF TypeOK, StreamerTypeOK
  <1>7. TxOK' /\ BoundOK' /\ Sound(output, OutPool)'
    BY <1>1, SendBound DEF TxOK
  <1>8. LentOK'
    <2>1. \A f \in OutPool : output'.place[f] = "reading" <=> f = txFrame' \/ Held(f)'
      BY <1>1, <1>5, GstIs DEF LentOK, Held
    <2>2. \A f \in oldGst : f # txFrame
      BY GstIs DEF LentOK, Held, TypeOK, StreamerTypeOK
    <2>3. \A f \in oldGst' : ~InGst(f)'
      BY <1>1, <1>5, <2>2 DEF LentOK
    <2>4. ASSUME NEW j \in 1 .. Len(gst'), NEW k \in 1 .. Len(gst'), j # k, gst'[j].frame # NoFrame
          PROVE  gst'[j].frame # gst'[k].frame
      BY <1>2, <1>3, <1>4, <2>4 DEF LentOK, InGst, Held
    <2> QED BY <1>1, <2>1, <2>3, <2>4 DEF LentOK
  <1>9. PtsOK'
    <2> SUFFICES ASSUME MaxPts # 0
                 PROVE  /\ \A j, k \in 1 .. Len(gst') : j < k => gst'[j].pts < gst'[k].pts
                        /\ \A k \in 1 .. Len(gst') : gst'[k].pts < timestamp'
      BY DEF PtsOK
    <2>1. timestamp' = timestamp + 1 /\ timestamp \in Nat
      BY <1>1, Ticks DEF TypeOK, StreamerTypeOK
    <2>2. \A k \in 1 .. Len(gst) : gst[k].pts \in Nat /\ gst[k].pts < timestamp
      BY GstIs DEF PtsOK
    <2>3. \A k \in 1 .. Len(gst') : gst'[k].pts < timestamp'
      BY <1>2, <1>3, <1>4, <2>1, <2>2
    <2>4. ASSUME NEW j \in 1 .. Len(gst'), NEW k \in 1 .. Len(gst'), j < k
          PROVE  gst'[j].pts < gst'[k].pts
      <3>1. j \in 1 .. Len(gst)
        BY <1>3, <2>4
      <3>2. CASE k \in 1 .. Len(gst)
        BY <1>3, <2>4, <3>1, <3>2 DEF PtsOK
      <3>3. CASE k = Len(gst) + 1
        BY <1>2, <1>3, <2>2, <3>1, <3>3
      <3> QED BY <1>4, <3>2, <3>3
    <2> QED BY <2>3, <2>4
  <1> QED BY <1>6, <1>7, <1>8, <1>9

\* Destroy callbacks give frames back; which ones GStreamer keeps is a premise.
LEMMA Destroys ==
    ASSUME IInv, NEW frames, output' = ReturnAll(output, frames),
           txFrame' \in {txFrame, NoFrame},
           \A f \in OutPool : f \in frames => f = txFrame \/ Held(f),
           \A f \in OutPool : f = txFrame' \/ Held(f)' <=> (f = txFrame \/ Held(f)) /\ f \notin frames
    PROVE  /\ Sound(output', OutPool) /\ output'.queue = output.queue
           /\ \A f \in OutPool : output'.place[f] = "reading" <=> f = txFrame' \/ Held(f)'
  <1>1. \A f \in OutPool : output.place[f] = "reading" <=> f = txFrame \/ Held(f)
    BY DEF IInv, LentOK
  <1>2. Sound(output, OutPool) /\ \A f \in OutPool : f \in frames => output.place[f] # "queued"
    BY <1>1 DEF IInv
  <1>3. output' = Freed(output, OutPool, frames)
    BY DEF ReturnAll, Freed
  <1>4. /\ Sound(output', OutPool) /\ output'.queue = output.queue
        /\ output'.place = [f \in OutPool |-> IF f \in frames THEN "free" ELSE output.place[f]]
    BY <1>2, <1>3, FreeSound
  <1> QED BY <1>1, <1>4

LEMMA Refuses == IInv /\ TxSendRefused => IInv'
  <1> SUFFICES ASSUME IInv, TxSendRefused PROVE IInv'
    OBVIOUS
  <1> USE DEF IInv
  <1>1. /\ txPc = "send" /\ txPc' = "head" /\ Tick /\ txFrame' = NoFrame /\ txAppsrc' = "none"
        /\ UNCHANGED <<streaming, prevHadClients, libVars>>
        /\ output' = ReturnAll(output, {txFrame})
    BY DEF TxSendRefused
  <1>2. \A f : (InGst(f)' <=> InGst(f)) /\ (Held(f)' <=> Held(f))
    BY <1>1 DEF InGst, Held, libVars
  <1>3. \A f \in OutPool : f = txFrame' \/ Held(f)' <=> (f = txFrame \/ Held(f)) /\ f \notin {txFrame}
    BY <1>1, <1>2, GstIs DEF LentOK
  <1>4. /\ Sound(output', OutPool) /\ output'.queue = output.queue
        /\ \A f \in OutPool : output'.place[f] = "reading" <=> f = txFrame' \/ Held(f)'
    BY <1>1, <1>3, Destroys
  <1>5. TypeOK'
    BY <1>1, <1>4, Ticks, OutTypes DEF TypeOK, StreamerTypeOK, Sound, libVars
  <1>6. TxOK' /\ BoundOK'
    BY <1>1, <1>4, SendBound DEF TxOK, libVars
  <1>7. LentOK'
    BY <1>1, <1>2, <1>4 DEF LentOK, libVars
  <1>8. PtsOK'
    <2> SUFFICES ASSUME MaxPts # 0 PROVE \A k \in 1 .. Len(gst) : gst[k].pts < timestamp'
      BY <1>1 DEF PtsOK, libVars
    <2>1. timestamp' = timestamp + 1 /\ timestamp \in Nat
      BY <1>1, Ticks DEF TypeOK, StreamerTypeOK
    <2>2. \A k \in 1 .. Len(gst) : gst[k].pts \in Nat /\ gst[k].pts < timestamp
      BY GstIs DEF PtsOK
    <2> QED BY <2>1, <2>2
  <1> QED BY <1>4, <1>5, <1>6, <1>7, <1>8

\* A flush starts the timestamps again and moves no frame of the queue.
LEMMA FlushBound ==
    ASSUME IInv, txPc = "flush", txPc' = "return", timestamp' = 0, output'.queue = output.queue
    PROVE  BoundOK' /\ timestamp' \in 0 .. MaxPts
  <1>1. InHand = 1 /\ InHand' = 1 /\ Len(output.queue) \in Nat
    BY QueueLength DEF InHand, IInv
  <1>2. FramesOnTheWay' = Len(output.queue) + 1 /\ FramesOnTheWay = Len(output.queue) + 1
    BY <1>1 DEF FramesOnTheWay, InHand
  <1>3. timestamp \in Nat /\ MaxPts \in Nat /\ (MaxPts # 0 => timestamp + FramesOnTheWay <= MaxPts)
    BY GstIs DEF IInv, TypeOK, StreamerTypeOK, BoundOK
  <1>4. MaxPts # 0 => 0 + FramesOnTheWay' <= MaxPts
    BY <1>1, <1>2, <1>3
  <1> QED BY <1>3, <1>4 DEF BoundOK

LEMMA FlushesReplaced == IInv /\ TxFlush /\ txAppsrc = "replaced" => IInv'
  <1> SUFFICES ASSUME IInv, TxFlush, txAppsrc = "replaced" PROVE IInv'
    OBVIOUS
  <1> USE DEF IInv
  <1>1. PICK frames \in SUBSET oldGst :
           oldGst' = oldGst \ frames /\ output' = ReturnAll(output, frames)
    BY DEF TxFlush
  <1>2. /\ txPc = "flush" /\ txPc' = "return" /\ timestamp' = 0
        /\ UNCHANGED <<encoding, streaming, txFrame, txAppsrc, prevHadClients, appsrc, loop, clientCount, gst>>
    BY DEF TxFlush
  <1>3. gst = << >>
    BY DEF TxOK
  <1>4. (\A f : ~InGst(f)) /\ (\A f : ~InGst(f)')
    BY <1>2, <1>3 DEF InGst
  <1>5. \A f \in frames : Held(f) /\ f # txFrame /\ f \in OutPool
    BY <1>1, GstIs DEF Held, LentOK, TypeOK, StreamerTypeOK
  <1>6. \A f \in OutPool : f = txFrame' \/ Held(f)' <=> (f = txFrame \/ Held(f)) /\ f \notin frames
    BY <1>1, <1>2, <1>4, <1>5 DEF Held
  <1>7. /\ Sound(output', OutPool) /\ output'.queue = output.queue
        /\ \A f \in OutPool : output'.place[f] = "reading" <=> f = txFrame' \/ Held(f)'
    BY <1>1, <1>2, <1>5, <1>6, Destroys
  <1>8. TypeOK' /\ BoundOK'
    BY <1>1, <1>2, <1>7, FlushBound, OutTypes DEF TypeOK, StreamerTypeOK, Sound
  <1>9. TxOK' /\ PtsOK'
    BY <1>2, <1>3 DEF TxOK, PtsOK
  <1>10. LentOK'
    <2>1. txFrame' # NoFrame => ~Held(txFrame)'
      BY <1>1, <1>2, <1>4 DEF LentOK, Held
    <2> QED BY <1>2, <1>3, <1>4, <1>7, <2>1 DEF LentOK
  <1> QED BY <1>7, <1>8, <1>9, <1>10

LEMMA Flushes == IInv /\ TxFlush /\ txAppsrc # "replaced" => IInv'
  <1> SUFFICES ASSUME IInv, TxFlush, txAppsrc # "replaced" PROVE IInv'
    OBVIOUS
  <1> USE DEF IInv
  <1>1. /\ txPc = "flush" /\ txPc' = "return" /\ gst' = << >> /\ timestamp' = 0
        /\ output' = ReturnAll(output, Lent(gst))
        /\ UNCHANGED <<encoding, streaming, txFrame, txAppsrc, prevHadClients, appsrc, loop, clientCount, oldGst>>
    BY DEF TxFlush
  <1>2. \A f : ~InGst(f)' /\ (Held(f)' <=> f \in oldGst)
    BY <1>1 DEF InGst, Held
  <1>3. \A f \in OutPool : f \in Lent(gst) => f = txFrame \/ Held(f)
    BY LentIs DEF Held
  <1>4. \A f \in OutPool : f = txFrame' \/ Held(f)' <=> (f = txFrame \/ Held(f)) /\ f \notin Lent(gst)
    <2>1. \A f \in OutPool : f \in Lent(gst) <=> InGst(f)
      BY LentIs, GstIs
    <2>2. \A f \in OutPool : f = txFrame => ~InGst(f) /\ f \notin oldGst
      BY GstIs DEF LentOK, Held
    <2> QED BY <1>1, <1>2, <2>1, <2>2 DEF LentOK, Held
  <1>5. /\ Sound(output', OutPool) /\ output'.queue = output.queue
        /\ \A f \in OutPool : output'.place[f] = "reading" <=> f = txFrame' \/ Held(f)'
    BY <1>1, <1>3, <1>4, Destroys
  <1>6. TypeOK' /\ BoundOK'
    <2>1. gst' \in Seq(GstBuffers)
      BY <1>1, EmptySeq
    <2> QED BY <1>1, <1>5, <2>1, FlushBound, OutTypes DEF TypeOK, StreamerTypeOK, Sound
  <1>7. TxOK' /\ PtsOK'
    BY <1>1 DEF TxOK, PtsOK
  <1>8. LentOK'
    <2>1. txFrame' # NoFrame => ~Held(txFrame)'
      BY <1>1, <1>2 DEF LentOK, Held
    <2> QED BY <1>1, <1>2, <1>5, <2>1 DEF LentOK
  <1> QED BY <1>5, <1>6, <1>7, <1>8

LEMMA PlaysOut == IInv /\ PlayOut => IInv'
  <1> SUFFICES ASSUME IInv, PlayOut PROVE IInv'
    OBVIOUS
  <1> USE DEF IInv
  <1> PICK h : h = gst[1].frame
    OBVIOUS
  <1>1. gst # << >> /\ gst' = Tail(gst) /\ UNCHANGED <<encoding, txVars, appsrc, loop, clientCount, oldGst>>
    BY DEF PlayOut
  <1>2. /\ gst' \in Seq(GstBuffers) /\ Len(gst) \in Nat \ {0} /\ Len(gst') = Len(gst) - 1
        /\ \A k \in 1 .. Len(gst') : gst'[k] = gst[k + 1]
        /\ Head(gst) = gst[1]
    BY <1>1, HeadTailProperties, EmptySeq, LenProperties DEF TypeOK, StreamerTypeOK
  <1>3. \A k \in 1 .. Len(gst') : k + 1 \in 1 .. Len(gst) /\ k + 1 # 1
    BY <1>2
  <1>4. \A k \in 1 .. Len(gst) : k # 1 => k - 1 \in 1 .. Len(gst') /\ (k - 1) + 1 = k
    BY <1>2
  <1>5. output' = ReturnAll(output, {h} \ {NoFrame})
    <2>1. Lent(<<Head(gst)>>) = {h} \ {NoFrame}
      BY <1>2 DEF Lent
    <2> QED BY <2>1 DEF PlayOut
  <1>6. InGst(h) /\ \A k \in 1 .. Len(gst) : k # 1 /\ h # NoFrame => gst[k].frame # h
    BY <1>2 DEF InGst, LentOK
  <1>7. \A f \in OutPool : InGst(f)' <=> InGst(f) /\ f # h
    <2> TAKE f \in OutPool
    <2>1. f # NoFrame
      BY GstIs
    <2>2. ASSUME InGst(f)' PROVE InGst(f) /\ f # h
      <3>1. PICK k \in 1 .. Len(gst') : gst'[k].frame = f
        BY <2>2 DEF InGst
      <3>2. k + 1 \in 1 .. Len(gst) /\ k + 1 # 1 /\ gst[k + 1].frame = f
        BY <1>2, <1>3, <3>1
      <3> QED BY <1>6, <2>1, <3>2 DEF InGst
    <2>3. ASSUME InGst(f), f # h PROVE InGst(f)'
      <3>1. PICK k \in 1 .. Len(gst) : gst[k].frame = f
        BY <2>3 DEF InGst
      <3>2. k # 1
        BY <2>3, <3>1
      <3> QED BY <1>2, <1>4, <3>1, <3>2 DEF InGst
    <2> QED BY <2>2, <2>3
  <1>8. /\ Sound(output', OutPool) /\ output'.queue = output.queue
        /\ \A f \in OutPool : output'.place[f] = "reading" <=> f = txFrame' \/ Held(f)'
    <2>1. /\ txFrame' = txFrame /\ (txFrame # NoFrame => txFrame # h)
          /\ h \notin oldGst /\ oldGst' = oldGst
      BY <1>1, <1>6 DEF LentOK, Held, txVars
    <2>2. \A f \in OutPool : f \in {h} \ {NoFrame} => f = txFrame \/ Held(f)
      BY <1>6 DEF Held
    <2>3. \A f \in OutPool : f = txFrame' \/ Held(f)' <=> (f = txFrame \/ Held(f)) /\ f \notin {h} \ {NoFrame}
      BY <1>7, <2>1, GstIs DEF Held
    <2> QED BY <1>5, <2>1, <2>2, <2>3, Destroys
  <1>9. TypeOK'
    BY <1>1, <1>2, <1>8, OutTypes DEF TypeOK, StreamerTypeOK, Sound, txVars
  <1>10. TxOK'
    BY <1>1 DEF TxOK, txVars
  <1>11. LentOK'
    <2>1. txFrame' # NoFrame => ~Held(txFrame)'
      <3>1. txFrame' = txFrame /\ (txFrame # NoFrame => txFrame \in OutPool /\ ~Held(txFrame))
        BY <1>1 DEF txVars, LentOK, TypeOK, StreamerTypeOK
      <3> PICK t : t = txFrame
        OBVIOUS
      <3>2. t # NoFrame => ~Held(t)'
        BY <1>1, <1>7, <3>1 DEF Held
      <3> QED BY <3>1, <3>2 DEF Held, InGst
    <2>2. ASSUME NEW j \in 1 .. Len(gst'), NEW k \in 1 .. Len(gst'), j # k, gst'[j].frame # NoFrame
          PROVE  gst'[j].frame # gst'[k].frame
      <3>1. j + 1 # k + 1
        BY <1>2, <2>2
      <3> QED BY <1>2, <1>3, <2>2, <3>1 DEF LentOK
    <2>3. \A f \in oldGst' : ~InGst(f)'
      BY <1>1, <1>7 DEF LentOK, TypeOK, StreamerTypeOK
    <2> QED BY <1>8, <2>1, <2>2, <2>3 DEF LentOK
  <1>12. BoundOK'
    BY <1>1, <1>8 DEF BoundOK, FramesOnTheWay, txVars
  <1>13. PtsOK'
    <2> SUFFICES ASSUME MaxPts # 0
                 PROVE  /\ \A j, k \in 1 .. Len(gst') : j < k => gst'[j].pts < gst'[k].pts
                        /\ \A k \in 1 .. Len(gst') : gst'[k].pts < timestamp
      BY <1>1 DEF PtsOK, txVars
    <2>1. ASSUME NEW j \in 1 .. Len(gst'), NEW k \in 1 .. Len(gst'), j < k
          PROVE  gst'[j].pts < gst'[k].pts
      <3>1. j + 1 < k + 1
        BY <1>2, <2>1
      <3> QED BY <1>2, <1>3, <3>1 DEF PtsOK
    <2>2. \A k \in 1 .. Len(gst') : gst'[k].pts < timestamp
      BY <1>2, <1>3 DEF PtsOK
    <2> QED BY <2>1, <2>2
  <1> QED BY <1>8, <1>9, <1>10, <1>11, <1>12, <1>13

LEMMA PlaysOutOld == IInv /\ PlayOutOld => IInv'
  <1> SUFFICES ASSUME IInv, PlayOutOld PROVE IInv'
    OBVIOUS
  <1> USE DEF IInv
  <1>1. PICK h \in oldGst : oldGst' = oldGst \ {h} /\ output' = ReturnAll(output, {h})
    BY DEF PlayOutOld
  <1>2. UNCHANGED <<encoding, txVars, appsrc, loop, clientCount, gst>>
    BY DEF PlayOutOld
  <1>3. h \in OutPool /\ h # NoFrame /\ h # txFrame /\ ~InGst(h)
    BY <1>1, GstIs DEF LentOK, Held, TypeOK, StreamerTypeOK
  <1>4. \A f : (InGst(f)' <=> InGst(f)) /\ (Held(f)' <=> Held(f) /\ f # h)
    BY <1>1, <1>2, <1>3 DEF InGst, Held
  <1>5. /\ Sound(output', OutPool) /\ output'.queue = output.queue
        /\ \A f \in OutPool : output'.place[f] = "reading" <=> f = txFrame' \/ Held(f)'
    <2>1. txFrame' = txFrame /\ Held(h)
      BY <1>1, <1>2 DEF txVars, Held
    <2>2. \A f \in OutPool : f = txFrame' \/ Held(f)' <=> (f = txFrame \/ Held(f)) /\ f \notin {h}
      BY <1>3, <1>4, <2>1
    <2> QED BY <1>1, <2>1, <2>2, Destroys
  <1>6. TypeOK'
    BY <1>1, <1>2, <1>5, OutTypes DEF TypeOK, StreamerTypeOK, Sound, txVars
  <1>7. TxOK' /\ PtsOK'
    BY <1>2 DEF TxOK, PtsOK, txVars
  <1>8. LentOK'
    <2>1. txFrame' # NoFrame => ~Held(txFrame)'
      BY <1>1, <1>2 DEF LentOK, Held, InGst, txVars
    <2> QED BY <1>1, <1>2, <1>4, <1>5, <2>1 DEF LentOK
  <1>9. BoundOK'
    BY <1>2, <1>5 DEF BoundOK, FramesOnTheWay, txVars
  <1> QED BY <1>5, <1>6, <1>7, <1>8, <1>9

LEMMA NextIInv == IInv /\ [Next]_streamerVars => IInv'
  <1>1. ASSUME IInv, UNCHANGED streamerVars PROVE IInv'
    <2> USE <1>1 DEF streamerVars, txVars, libVars
    <2>1. TypeOK' /\ TxOK' /\ Sound(output, OutPool)'
      BY DEF IInv, TypeOK, StreamerTypeOK, TxOK
    <2>2. LentOK'
      BY DEF IInv, LentOK, InGst, Held
    <2>3. BoundOK' /\ PtsOK'
      BY DEF IInv, BoundOK, FramesOnTheWay, PtsOK
    <2> QED BY <2>1, <2>2, <2>3 DEF IInv
  <1> QED BY <1>1, Flags, OutputSide, Configures, Pops, GivesBack, Sends, SendsToReplaced, Refuses,
             Flushes, FlushesReplaced, PlaysOut, PlaysOutOld
          DEF Next, TxStep, LibraryStep, StopStep

-----------------------------------------------------------------------------
\* What the tx thread and GStreamer hold is consistent with the pool.
THEOREM Invariance == Spec => []IInv
  BY InitIInv, NextIInv, PTL DEF Spec

\* Every variable of the streamer keeps its type.
THEOREM StreamerTypeCorrect == Spec => []TypeOK
  <1>1. IInv => TypeOK
    BY DEF IInv
  <1> QED BY <1>1, Invariance, PTL

(***************************************************************************)
(* Zero-copy frames are given back once: by txThread() or by the destroy   *)
(* callback of the one buffer that wraps them, and only by the one of the  *)
(* two that has them, however often a new media has replaced m_appsrc.     *)
(***************************************************************************)
THEOREM FramesGivenBackOnce == Spec => []PoppedFramesAccounted
  <1>1. IInv => PoppedFramesAccounted
    <2> SUFFICES ASSUME IInv PROVE PoppedFramesAccounted
      OBVIOUS
    <2> USE DEF IInv
    <2>1. \A f \in OutPool : Held(f) <=> f \in Lent(gst) \cup oldGst
      BY LentIs, GstIs DEF Held
    <2>2. Out!At(output, "reading") = Lent(gst) \cup oldGst \cup ({txFrame} \ {NoFrame})
      <3>1. Lent(gst) \subseteq OutPool /\ oldGst \subseteq OutPool
        BY GstIs DEF Lent, TypeOK, StreamerTypeOK
      <3>2. txFrame \in OutPool \cup {NoFrame}
        BY DEF TypeOK, StreamerTypeOK
      <3>3. \A f \in OutPool : f # NoFrame
        BY GstIs
      <3> QED BY <2>1, <3>1, <3>2, <3>3 DEF LentOK, Out!At
    <2>3. txFrame \notin Lent(gst) \cup oldGst /\ Lent(gst) \cap oldGst = {}
      BY LentIs, GstIs DEF LentOK, Held, TypeOK, StreamerTypeOK
    <2> QED BY <2>2, <2>3 DEF PoppedFramesAccounted, LentOK, TxOK
  <1> QED BY <1>1, Invariance, PTL

\* Timestamps increase in GStreamer's queue, also after a flush.
THEOREM TimeGoesOn == ASSUME MaxPts # 0 PROVE Spec => []TimestampsIncrease
  <1>1. IInv => TimestampsIncrease
    <2> SUFFICES ASSUME IInv PROVE TimestampsIncrease
      OBVIOUS
    <2>1. Len(gst) \in Nat /\ (gst # << >> => Len(gst) \in 1 .. Len(gst))
      BY GstIs, EmptySeq DEF IInv, TypeOK, StreamerTypeOK
    <2>2. \A k \in 1 .. Len(gst) - 1 : k \in 1 .. Len(gst) /\ k + 1 \in 1 .. Len(gst) /\ k < k + 1
      BY <2>1
    <2> QED BY <2>1, <2>2 DEF IInv, PtsOK, TimestampsIncrease
  <1> QED BY <1>1, Invariance, PTL
=============================================================================
