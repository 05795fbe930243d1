------------------------ MODULE CameraFrontEnd_proofs ------------------------
(***************************************************************************)
(* The types, FullPacketsAreFrames and ResetReachesInterface for every     *)
(* frame size, every depth of the FIFO and every camera.                   *)
(*                                                                         *)
(* A packet can stay open: its end is lost when the FIFO is full in the    *)
(* cycle of the last byte.  What saves the next packet is that the         *)
(* interface, whenever it is between two frames or waits, still holds the  *)
(* byte it sent last, so that the bare end of packet it will send either   *)
(* completes that frame or leaves it too short (Closing below).  And the   *)
(* first byte of a frame is never lost: the FIFO can only have filled up   *)
(* in a cycle in which it took a beat.                                     *)
(***************************************************************************)
EXTENDS CameraFrontEnd, SequenceTheorems, TLAPS

Prefix(frame, n) == [k \in 1 .. n |-> [frame |-> frame, at |-> k - 1]]

ShortOrWhole(bytes) ==
    Len(bytes) < FrameSize \/ \E frame \in 0 .. 1 : bytes = Whole(frame)

\* The open packet with the byte that is on the outputs.
Closing == Append(packet, st.data)

\* Between two frames, and while the sink is waited for.
Idle ==
    /\ state = "WAIT_SYNC" /\ ~st.valid => ShortOrWhole(Closing)
    /\ state = "WAIT_SYNC" /\ st.valid  => st.eop /\ ~st.sop /\ ShortOrWhole(Closing)
    /\ state = "WAIT_READY" => ~st.valid /\ ShortOrWhole(Closing)

\* Within a frame: the interface and the camera count the same bytes, and all
\* of them have been taken, but for the one on the outputs.
Acquiring ==
    state = "ACQUIRE" =>
        /\ stat_byte_cnt = camSent /\ camSent < FrameSize
        /\ camPhase \in {"blank", "byte"}
        /\ camSent = 0 => ~st.valid /\ ShortOrWhole(Closing)
        /\ camSent > 0 /\ ~st.valid => packet = Prefix(camFrame, camSent) /\ camSent < FrameSize - 1
        /\ st.valid => /\ ~st.eop
                       /\ Packet = Prefix(camFrame, camSent)
                       /\ st.sop <=> camSent = 1
                       /\ st.sop => Ready

InStep ==
    /\ vsync_r => camPhase = "vsync" \/ (camPhase = "blank" /\ camSent = 0)
    /\ Idle
    /\ Acquiring

Types ==
    /\ ResetTypeOK
    /\ state \in {"WAIT_SYNC", "ACQUIRE", "WAIT_READY"}
    /\ stat_byte_cnt \in Nat
    /\ vsync_r \in BOOLEAN
    /\ st \in [valid : BOOLEAN, sop : BOOLEAN, eop : BOOLEAN, data : Bytes]
    /\ camPhase \in {"off", "vsync", "blank", "byte"}
    /\ camSent \in 0 .. FrameSize
    /\ camPhase = "byte" => camSent < FrameSize
    /\ camPhase = "blank" => camSent # FrameSize - 1
    /\ camFrame \in 0 .. 1
    /\ level \in 0 .. Depth
    /\ packet \in Seq(Bytes)
    /\ resetDue \in BOOLEAN

ResetInv ==
    /\ sync_ff2 => reset_combined /\ sync_ff1
    /\ ResetReachesInterface
    /\ ~sync_ff2 => packet = << >>

FInv == Types /\ ResetInv /\ (~resetDue => InStep)

-----------------------------------------------------------------------------
LEMMA SizeFact == FrameSize \in Nat /\ FrameSize > 1 /\ Depth \in Nat /\ Depth > 0
  BY FrontEndAssumption

LEMMA PrefixType ==
    ASSUME NEW frame \in 0 .. 1, NEW n \in 0 .. FrameSize
    PROVE  Prefix(frame, n) \in Seq(Bytes) /\ Len(Prefix(frame, n)) = n
  <1>1. n \in Nat /\ n <= FrameSize
    BY SizeFact
  <1>2. \A k \in 1 .. n : [frame |-> frame, at |-> k - 1] \in Bytes
    BY <1>1, SizeFact DEF Bytes
  <1>3. Prefix(frame, n) \in [1 .. n -> Bytes]
    BY <1>2 DEF Prefix
  <1> QED
    BY <1>1, <1>3, SeqDef, LenProperties

\* The next byte of a frame continues the prefix.
LEMMA PrefixAppend ==
    ASSUME NEW frame \in 0 .. 1, NEW n \in 0 .. FrameSize - 1
    PROVE  Append(Prefix(frame, n), [frame |-> frame, at |-> n]) = Prefix(frame, n + 1)
  <1> DEFINE byte == [frame |-> frame, at |-> n]
             longer == Append(Prefix(frame, n), byte)
  <1>1. n \in Nat /\ n < FrameSize /\ byte \in Bytes
    BY SizeFact DEF Bytes
  <1>2. Prefix(frame, n) \in Seq(Bytes) /\ Len(Prefix(frame, n)) = n
    BY <1>1, SizeFact, PrefixType
  <1>3. Prefix(frame, n + 1) \in Seq(Bytes) /\ Len(Prefix(frame, n + 1)) = n + 1
    BY <1>1, SizeFact, PrefixType
  <1>4. /\ longer \in Seq(Bytes) /\ Len(longer) = n + 1
        /\ \A k \in 1 .. n : longer[k] = Prefix(frame, n)[k]
        /\ longer[n + 1] = byte
    BY <1>1, <1>2, AppendProperties
  <1>5. \A k \in 1 .. n + 1 : longer[k] = Prefix(frame, n + 1)[k]
    <2> TAKE k \in 1 .. n + 1
    <2>1. CASE k = n + 1
      BY <1>1, <1>4, <2>1 DEF Prefix
    <2>2. CASE k # n + 1
      BY <1>1, <1>4, <2>2 DEF Prefix
    <2> QED
      BY <2>1, <2>2
  <1> HIDE DEF longer
  <1>6. longer = Prefix(frame, n + 1)
    BY <1>3, <1>4, <1>5, SeqEqual
  <1> QED
    BY <1>6 DEF longer

LEMMA PrefixOne ==
    ASSUME NEW frame \in 0 .. 1
    PROVE  Append(<< >>, [frame |-> frame, at |-> 0]) = Prefix(frame, 1)
  <1>1. Prefix(frame, 0) = << >>
    BY SizeFact, PrefixType, EmptySeq
  <1>2. Append(Prefix(frame, 0), [frame |-> frame, at |-> 0]) = Prefix(frame, 0 + 1)
    <2>1. 0 \in 0 .. FrameSize - 1
      BY SizeFact
    <2> QED
      BY <2>1, PrefixAppend
  <1>3. 0 + 1 = 1
    OBVIOUS
  <1> QED
    BY <1>1, <1>2, <1>3

\* A byte behind nothing, or behind less than a frame but one, is short.
LEMMA ShortAppend ==
    ASSUME NEW bytes \in Seq(Bytes), NEW byte \in Bytes, Len(bytes) + 1 < FrameSize
    PROVE  ShortOrWhole(Append(bytes, byte))
  BY AppendProperties DEF ShortOrWhole

-----------------------------------------------------------------------------
(* The parts of a step                                                     *)

LEMMA CameraStep ==
    ASSUME Types, CameraEdge
    PROVE  /\ camPhase' \in {"vsync", "blank", "byte"}
           /\ camSent' \in 0 .. FrameSize
           /\ camPhase' = "byte" => camSent' < FrameSize
           /\ camPhase' = "blank" => camSent' # FrameSize - 1
           /\ camFrame' \in 0 .. 1
           /\ camPhase = "vsync" => camPhase' = "vsync" \/ (camPhase' = "blank" /\ camSent' = 0)
           /\ camPhase = "byte" =>
                 camPhase' \in {"blank", "byte"} /\ camSent' = camSent + 1 /\ camFrame' = camFrame
           /\ camPhase = "blank" /\ camSent < FrameSize =>
                 camPhase' \in {"blank", "byte"} /\ camSent' = camSent /\ camFrame' = camFrame
  BY SizeFact DEF Types, CameraEdge, Send, Phase, NewFrame

LEMMA PacketType ==
    ASSUME Types
    PROVE  /\ Packet \in Seq(Bytes) /\ Closing \in Seq(Bytes)
           /\ Len(Closing) = Len(packet) + 1
           /\ ~st.sop => Packet = Closing
  <1>1. st.data \in Bytes /\ packet \in Seq(Bytes) /\ << >> \in Seq(Bytes)
    BY EmptySeq DEF Types
  <1> QED
    BY <1>1, AppendProperties DEF Packet, Closing

LEMMA FifoStep ==
    ASSUME Types, FifoEdge
    PROVE  /\ level' \in 0 .. Depth
           /\ packet' \in Seq(Bytes)
           /\ ~Takes => packet' = packet /\ level' = level
           /\ Takes => packet' = IF st.eop THEN << >> ELSE Packet
  <1>1. << >> \in Seq(Bytes) /\ Packet \in Seq(Bytes)
    BY EmptySeq, PacketType
  <1>2. packet \in Seq(Bytes) /\ level \in 0 .. Depth
    BY DEF Types
  <1>3. CASE Takes
    <2>1. level' = level + 1 /\ packet' = IF st.eop THEN << >> ELSE Packet
      BY <1>3 DEF FifoEdge
    <2>2. level < Depth
      BY <1>3 DEF Takes, Ready
    <2>3. level' \in 0 .. Depth
      BY <1>2, <2>1, <2>2, SizeFact
    <2> QED
      BY <1>1, <1>3, <2>1, <2>3
  <1>4. CASE ~Takes
    BY <1>2, <1>4 DEF FifoEdge, fifoVars
  <1> QED
    BY <1>3, <1>4

LEMMA FsmTypes ==
    ASSUME Types, If!Fsm(In)
    PROVE  /\ state' \in {"WAIT_SYNC", "ACQUIRE", "WAIT_READY"}
           /\ stat_byte_cnt' \in Nat
           /\ vsync_r' \in BOOLEAN
           /\ st' \in [valid : BOOLEAN, sop : BOOLEAN, eop : BOOLEAN, data : Bytes]
  <1>1. Zero \in Bytes /\ Byte \in Bytes
    BY SizeFact DEF Types, Bytes, Zero, Byte, Href
  <1>2. In.data \in Bytes /\ In.vsync \in BOOLEAN
    BY <1>1 DEF In, Vsync
  <1>3. CASE If!Reset(In)
    BY <1>1, <1>3 DEF If!Reset, If!Silence
  <1>4. CASE If!WaitSync(In) /\ vsync_r' = In.vsync
    BY <1>2, <1>4 DEF Types, If!WaitSync, If!Silence
  <1>5. CASE If!AcquireStalled(In) /\ vsync_r' = In.vsync
    BY <1>2, <1>5 DEF Types, If!AcquireStalled, If!Silence
  <1>6. CASE If!AcquireByte(In) /\ vsync_r' = In.vsync
    BY <1>2, <1>6 DEF Types, If!AcquireByte, If!Beat
  <1>7. CASE If!AcquireBlank(In) /\ vsync_r' = In.vsync
    BY <1>2, <1>7 DEF Types, If!AcquireBlank, If!Silence
  <1>8. CASE If!CloseDropped(In) /\ vsync_r' = In.vsync
    BY <1>2, <1>8 DEF Types, If!CloseDropped, If!Beat
  <1>9. CASE If!StillWaiting(In) /\ vsync_r' = In.vsync
    BY <1>2, <1>9 DEF Types, If!StillWaiting, If!Silence
  <1> QED
    BY <1>3, <1>4, <1>5, <1>6, <1>7, <1>8, <1>9 DEF If!Fsm

-----------------------------------------------------------------------------
(* An edge of pclk out of reset, by the branches of the FSM                *)

Edge(write) ==
    /\ Types /\ ResetInv /\ InStep
    /\ sync_ff2
    /\ CameraEdge /\ FifoEdge
    /\ vsync_r' = Vsync

\* Outside a frame, and while the sink is waited for, nothing is on the
\* outputs but an end of packet, which the FIFO takes or does not.
LEMMA EdgeWaitSync ==
    ASSUME NEW write, Edge(write), If!WaitSync(In)
    PROVE  Idle' /\ Acquiring'
  <1> USE SizeFact
  <1>1. /\ state = "WAIT_SYNC" /\ stat_byte_cnt' = 0
        /\ st' = [valid |-> FALSE, sop |-> FALSE, eop |-> FALSE, data |-> st.data]
        /\ state' = IF vsync_r /\ ~Vsync /\ ctrl_enabled THEN "ACQUIRE" ELSE state
    BY DEF If!WaitSync, If!Silence, If!FallingEdge, In
  <1>2. Closing' = Append(packet', st.data) /\ st.data \in Bytes
    BY <1>1 DEF Closing, Edge, Types
  <1>3. ShortOrWhole(Closing')
    <2>1. CASE Takes
      <3>1. packet' = << >>
        BY <1>1, <2>1, FifoStep DEF Edge, InStep, Idle, Takes
      <3>2. << >> \in Seq(Bytes) /\ Len(<< >>) + 1 < FrameSize
        BY EmptySeq
      <3>3. ShortOrWhole(Append(<< >>, st.data))
        BY <1>2, <3>2, ShortAppend
      <3> QED
        BY <1>2, <3>1, <3>3 DEF ShortOrWhole, Whole
    <2>2. CASE ~Takes
      <3>1. packet' = packet
        BY <2>2, FifoStep DEF Edge
      <3>2. ShortOrWhole(Closing)
        BY <1>1 DEF Edge, InStep, Idle, Types
      <3> QED
        BY <1>2, <3>1, <3>2 DEF Closing
    <2> QED
      BY <2>1, <2>2
  <1>4. state' = "ACQUIRE" => camPhase' \in {"blank", "byte"} /\ camSent' = 0
    BY <1>1, CameraStep DEF Edge, InStep, Vsync
  <1>5. Idle'
    BY <1>1, <1>3 DEF Idle, ShortOrWhole, Whole
  <1>6. Acquiring'
    BY <1>1, <1>3, <1>4 DEF Acquiring, ShortOrWhole, Whole
  <1> QED
    BY <1>5, <1>6

\* A sink that is not ready has left the byte on the outputs untaken: it is
\* not the first of its frame, and never the last.
LEMMA EdgeAcquireStalled ==
    ASSUME NEW write, Edge(write), If!AcquireStalled(In)
    PROVE  Idle' /\ Acquiring'
  <1> USE SizeFact
  <1>1. /\ state = "ACQUIRE" /\ state' = "WAIT_READY" /\ ~Ready
        /\ st' = [valid |-> FALSE, sop |-> FALSE, eop |-> FALSE, data |-> st.data]
    BY DEF If!AcquireStalled, If!Silence, In
  <1>2. packet' = packet
    BY <1>1, FifoStep DEF Edge, Takes
  <1>3. Closing' = Closing
    BY <1>1, <1>2 DEF Closing
  <1>4. packet \in Seq(Bytes) /\ st.data \in Bytes /\ st.valid \in BOOLEAN /\ camFrame \in 0 .. 1
    BY DEF Edge, Types
  <1>5. camSent \in 0 .. FrameSize /\ camSent < FrameSize
    BY <1>1 DEF Edge, Types, InStep, Acquiring
  <1>6. Len(Prefix(camFrame, camSent)) = camSent
    BY <1>4, <1>5, PrefixType
  <1>7. ShortOrWhole(Closing)
    <2>1. CASE camSent = 0
      BY <1>1, <2>1 DEF Edge, InStep, Acquiring
    <2>2. CASE camSent > 0 /\ ~st.valid
      <3>1. packet = Prefix(camFrame, camSent) /\ camSent < FrameSize - 1
        BY <1>1, <2>2 DEF Edge, InStep, Acquiring
      <3>2. Len(packet) + 1 < FrameSize
        BY <1>5, <1>6, <3>1
      <3> QED
        BY <1>4, <3>2, ShortAppend DEF Closing
    <2>3. CASE st.valid
      <3>1. Packet = Prefix(camFrame, camSent) /\ ~st.sop
        BY <1>1, <2>3 DEF Edge, InStep, Acquiring
      <3>2. Packet = Closing
        BY <3>1, PacketType DEF Edge
      <3> QED
        BY <1>5, <1>6, <3>1, <3>2 DEF ShortOrWhole
    <2> QED
      BY <1>4, <1>5, <2>1, <2>2, <2>3
  <1>8. Idle'
    BY <1>1, <1>3, <1>7 DEF Idle, ShortOrWhole, Whole
  <1> QED
    BY <1>1, <1>8 DEF Acquiring

\* Ready: the byte on the outputs is taken, and the packet has all the bytes
\* of the frame that the camera has sent.
LEMMA TakenSoFar ==
    ASSUME Types, Acquiring, FifoEdge, state = "ACQUIRE", Ready, sync_ff2, camSent > 0
    PROVE  packet' = Prefix(camFrame, camSent)
  <1>1. CASE st.valid
    <2>1. Takes /\ ~st.eop /\ Packet = Prefix(camFrame, camSent)
      BY <1>1 DEF Acquiring, Takes
    <2> QED
      BY <2>1, FifoStep
  <1>2. CASE ~st.valid
    <2>1. ~Takes /\ packet = Prefix(camFrame, camSent)
      BY <1>2 DEF Acquiring, Takes
    <2> QED
      BY <2>1, FifoStep
  <1> QED
    BY <1>1, <1>2

LEMMA EdgeAcquireByte ==
    ASSUME NEW write, Edge(write), If!AcquireByte(In)
    PROVE  Idle' /\ Acquiring'
  <1> USE SizeFact
  <1> DEFINE byte == [frame |-> camFrame, at |-> camSent]
             last == camSent = FrameSize - 1
  <1>1. /\ state = "ACQUIRE" /\ Ready /\ camPhase = "byte"
        /\ stat_byte_cnt = camSent /\ camSent < FrameSize
    BY DEF If!AcquireByte, In, Href, Edge, InStep, Acquiring
  <1>2. /\ st' = [valid |-> TRUE, sop |-> camSent = 0, eop |-> last, data |-> byte]
        /\ state' = IF last THEN "WAIT_SYNC" ELSE "ACQUIRE"
        /\ stat_byte_cnt' = camSent + 1
    BY <1>1 DEF If!AcquireByte, If!Beat, In, Byte, Href
  <1>3. camSent' = camSent + 1 /\ camFrame' = camFrame /\ camPhase' \in {"blank", "byte"}
    BY <1>1, CameraStep DEF Edge
  <1>4. camFrame \in 0 .. 1 /\ camSent \in 0 .. FrameSize - 1
    BY <1>1 DEF Edge, Types
  <1>5. Append(Prefix(camFrame, camSent), byte) = Prefix(camFrame, camSent + 1)
    BY <1>4, PrefixAppend
  <1>6. camSent > 0 => packet' = Prefix(camFrame, camSent)
    BY <1>1, TakenSoFar DEF Edge, InStep
  <1>7. CASE last
    <2>1. camSent > 0 /\ camSent + 1 = FrameSize
      BY <1>4, <1>7
    <2>2. Closing' = Prefix(camFrame, FrameSize)
      BY <1>2, <1>5, <1>6, <2>1 DEF Closing
    <2>3. ShortOrWhole(Closing')
      BY <1>4, <2>2 DEF ShortOrWhole, Prefix, Whole
    <2>4. /\ state' = "WAIT_SYNC"
          /\ st' = [valid |-> TRUE, sop |-> FALSE, eop |-> TRUE, data |-> byte]
      <3>1. (camSent = 0) = FALSE /\ last = TRUE
        BY <1>4, <1>7, <2>1
      <3> HIDE DEF last, byte
      <3> QED
        BY <1>2, <3>1
    <2>5. Idle'
      BY <2>3, <2>4 DEF Idle, ShortOrWhole, Whole
    <2> QED
      BY <2>4, <2>5 DEF Acquiring
  <1>8. CASE ~last
    <2>1. /\ state' = "ACQUIRE"
          /\ st' = [valid |-> TRUE, sop |-> camSent = 0, eop |-> FALSE, data |-> byte]
      BY <1>2, <1>8
    <2>2. Packet' = Prefix(camFrame, camSent + 1)
      <3>1. Packet' = Append(IF camSent = 0 THEN << >> ELSE packet', byte)
        BY <2>1 DEF Packet
      <3>2. CASE camSent = 0
        BY <1>4, <3>1, <3>2, PrefixOne
      <3>3. CASE camSent > 0
        BY <1>5, <1>6, <3>1, <3>3
      <3> QED
        BY <1>4, <3>2, <3>3
    <2>3. camSent = 0 => Ready'
      <3>1. camSent = 0 => ~Takes
        BY <1>1 DEF Edge, InStep, Acquiring, Takes
      <3> QED
        BY <1>1, <3>1, FifoStep DEF Edge, Ready
    <2>4. camSent' > 0 /\ camSent' < FrameSize
      BY <1>3, <1>4, <1>8
    <2>5. st'.sop <=> camSent' = 1
      <3>1. camSent = 0 <=> camSent' = 1
        BY <1>3, <1>4
      <3> QED
        BY <2>1, <3>1, Zenon
    <2>6. Acquiring'
      BY <1>2, <1>3, <2>1, <2>2, <2>3, <2>4, <2>5 DEF Acquiring, Prefix
    <2> QED
      BY <2>1, <2>6 DEF Idle
  <1> QED
    BY <1>7, <1>8

LEMMA EdgeAcquireBlank ==
    ASSUME NEW write, Edge(write), If!AcquireBlank(In)
    PROVE  Idle' /\ Acquiring'
  <1> USE SizeFact
  <1>1. /\ state = "ACQUIRE" /\ Ready /\ camPhase = "blank"
        /\ stat_byte_cnt = camSent /\ camSent < FrameSize
    BY DEF If!AcquireBlank, In, Href, Edge, InStep, Acquiring
  <1>2. /\ st' = [valid |-> FALSE, sop |-> FALSE, eop |-> FALSE, data |-> st.data]
        /\ state' = "ACQUIRE" /\ stat_byte_cnt' = camSent
    BY <1>1 DEF If!AcquireBlank, If!Silence
  <1>3. camSent' = camSent /\ camFrame' = camFrame /\ camPhase' \in {"blank", "byte"}
    BY <1>1, CameraStep DEF Edge
  <1>4. camSent \in 0 .. FrameSize - 2
    BY <1>1 DEF Edge, Types
  <1>5. camSent = 0 => ShortOrWhole(Closing')
    <2> SUFFICES ASSUME camSent = 0
                 PROVE  ShortOrWhole(Closing')
      OBVIOUS
    <2>1. ~st.valid /\ ShortOrWhole(Closing)
      BY <1>1 DEF Edge, InStep, Acquiring
    <2>2. packet' = packet
      BY <2>1, FifoStep DEF Edge, Takes
    <2>3. Closing' = Closing
      BY <1>2, <2>2 DEF Closing
    <2> QED
      BY <2>1, <2>3 DEF ShortOrWhole, Whole
  <1>6. camSent > 0 => packet' = Prefix(camFrame, camSent)
    BY <1>1, TakenSoFar DEF Edge, InStep
  <1>7. Acquiring'
    BY <1>2, <1>3, <1>4, <1>5, <1>6 DEF Acquiring, ShortOrWhole, Whole, Prefix
  <1> QED
    BY <1>2, <1>7 DEF Idle

LEMMA EdgeWaitReady ==
    ASSUME NEW write, Edge(write), If!CloseDropped(In) \/ If!StillWaiting(In)
    PROVE  Idle' /\ Acquiring'
  <1>1. /\ state = "WAIT_READY" /\ state' \in {"WAIT_SYNC", "WAIT_READY"}
        /\ st'.data = st.data /\ st'.sop = FALSE
        /\ state' = "WAIT_SYNC" => st'.valid = TRUE /\ st'.eop = TRUE
        /\ state' = "WAIT_READY" => st'.valid = FALSE
    BY DEF If!CloseDropped, If!StillWaiting, If!Beat, If!Silence
  <1>2. ~st.valid /\ ShortOrWhole(Closing)
    BY <1>1 DEF Edge, InStep, Idle
  <1>3. packet' = packet
    BY <1>2, FifoStep DEF Edge, Takes
  <1>4. Closing' = Closing
    BY <1>1, <1>3 DEF Closing
  <1>5. Idle'
    BY <1>1, <1>2, <1>4 DEF Idle, ShortOrWhole, Whole
  <1> QED
    BY <1>1, <1>5 DEF Acquiring

-----------------------------------------------------------------------------
(* The steps of the front end                                              *)

LEMMA InitInv == ASSUME Init PROVE FInv
  <1>1. Zero \in Bytes /\ << >> \in Seq(Bytes) /\ 0 \in 0 .. FrameSize /\ 0 \in 0 .. Depth
    BY SizeFact, EmptySeq DEF Bytes, Zero
  <1>2. Types
    <2>1. /\ state = "WAIT_SYNC" /\ stat_byte_cnt = 0 /\ vsync_r = FALSE
          /\ st = [valid |-> FALSE, sop |-> FALSE, eop |-> FALSE, data |-> Zero]
      BY DEF Init, If!IfInit, If!Silence
    <2>2. /\ ResetTypeOK
          /\ camPhase = "off" /\ camSent = 0 /\ camFrame = 0
          /\ level = 0 /\ packet = << >> /\ resetDue = TRUE
      BY DEF Init, ResetInit, ResetTypeOK
    <2>3. st \in [valid : BOOLEAN, sop : BOOLEAN, eop : BOOLEAN, data : Bytes]
      BY <1>1, <2>1
    <2> QED
      <3>1. /\ camSent \in 0 .. FrameSize /\ camFrame \in 0 .. 1 /\ level \in 0 .. Depth
            /\ packet \in Seq(Bytes) /\ stat_byte_cnt \in Nat
        BY <1>1, <2>1, <2>2
      <3>2. vsync_r \in BOOLEAN /\ resetDue \in BOOLEAN
        BY <2>1, <2>2
      <3>3. camPhase # "byte" /\ camPhase # "blank"
        BY <2>2
      <3> QED
        BY <2>1, <2>2, <2>3, <3>1, <3>2, <3>3 DEF Types
  <1>3. ResetInv /\ resetDue
    BY DEF Init, ResetInit, ResetInv, ResetReachesInterface
  <1> QED
    BY <1>2, <1>3 DEF FInv

LEMMA EdgeTypes ==
    ASSUME Types, ResetInv, NEW write, PclkEdge(write)
    PROVE  Types' /\ ResetInv'
  <1>1. Types'
    <2>1. ResetTypeOK' /\ resetDue' \in BOOLEAN
      BY DEF Types, ResetTypeOK, PclkEdge, Synchronise, reset_combined
    <2>2. /\ state' \in {"WAIT_SYNC", "ACQUIRE", "WAIT_READY"}
          /\ stat_byte_cnt' \in Nat
          /\ vsync_r' \in BOOLEAN
          /\ st' \in [valid : BOOLEAN, sop : BOOLEAN, eop : BOOLEAN, data : Bytes]
      BY FsmTypes DEF PclkEdge
    <2>3. /\ camPhase' \in {"off", "vsync", "blank", "byte"}
          /\ camSent' \in 0 .. FrameSize
          /\ camPhase' = "byte" => camSent' < FrameSize
          /\ camPhase' = "blank" => camSent' # FrameSize - 1
          /\ camFrame' \in 0 .. 1
      BY CameraStep DEF Types, PclkEdge, cameraVars
    <2>4. level' \in 0 .. Depth /\ packet' \in Seq(Bytes)
      BY FifoStep DEF PclkEdge
    <2> QED
      BY <2>1, <2>2, <2>3, <2>4 DEF Types, Bytes
  <1>2. (sync_ff2 => reset_combined /\ sync_ff1)'
    BY DEF PclkEdge, Synchronise, reset_combined
  <1>3. ResetReachesInterface'
    BY DEF ResetInv, ResetReachesInterface, PclkEdge, Synchronise
  <1>4. (~sync_ff2 => packet = << >>)'
    BY FifoStep DEF ResetInv, PclkEdge, Synchronise, Takes
  <1> QED
    BY <1>1, <1>2, <1>3, <1>4 DEF ResetInv

LEMMA EdgeInStep ==
    ASSUME FInv, NEW write, PclkEdge(write)
    PROVE  (~resetDue => InStep)'
  <1>1. CASE sync_ff2
    <2>1. Edge(write)
      BY <1>1 DEF FInv, ResetInv, ResetReachesInterface, PclkEdge, Edge, If!Fsm, If!Reset, In
    <2>2. (vsync_r => camPhase = "vsync" \/ (camPhase = "blank" /\ camSent = 0))'
      BY <2>1, CameraStep DEF Edge, Vsync
    <2>3. \/ If!WaitSync(In) \/ If!AcquireStalled(In) \/ If!AcquireByte(In)
          \/ If!AcquireBlank(In) \/ If!CloseDropped(In) \/ If!StillWaiting(In)
      BY <1>1 DEF PclkEdge, If!Fsm, If!Reset, In
    <2>4. Idle' /\ Acquiring'
      BY <2>1, <2>3, EdgeWaitSync, EdgeAcquireStalled, EdgeAcquireByte,
         EdgeAcquireBlank, EdgeWaitReady
    <2> QED
      BY <2>2, <2>4 DEF InStep
  <1>2. CASE ~sync_ff2
    <2>1. state' = "WAIT_SYNC" /\ vsync_r' = FALSE
      BY <1>2 DEF PclkEdge, If!Fsm, If!Reset, In
    <2>2. st' = [valid |-> FALSE, sop |-> FALSE, eop |-> FALSE, data |-> Zero]
      BY <1>2 DEF PclkEdge, If!Fsm, If!Reset, If!Silence, In
    <2>3. packet' = << >>
      BY <1>2, FifoStep DEF FInv, ResetInv, PclkEdge, Takes
    <2>4. << >> \in Seq(Bytes) /\ Len(<< >>) + 1 < FrameSize /\ Zero \in Bytes
      BY SizeFact, EmptySeq DEF Bytes, Zero
    <2>5. ShortOrWhole(Append(<< >>, Zero))
      BY <2>4, ShortAppend
    <2>6. Closing' = Append(<< >>, Zero)
      BY <2>2, <2>3 DEF Closing
    <2>7. Idle'
      BY <2>1, <2>2, <2>5, <2>6 DEF Idle, ShortOrWhole, Whole
    <2> QED
      BY <2>1, <2>7 DEF InStep, Acquiring
  <1> QED
    BY <1>1, <1>2

\* A reset that comes is still due; one that goes disturbs nothing.
LEMMA ResetStep ==
    ASSUME FInv, SystemReset \/ \E bit \in BOOLEAN : Release(bit)
    PROVE  FInv'
  <1>1. /\ ResetTypeOK'
        /\ AsyncClear /\ OnReset /\ UNCHANGED interfaceVars
    BY DEF FInv, Types, ResetTypeOK, SystemReset, Release, SysReset, SysClock, AsyncClear
  <1>2. CASE reset_combined'
    <2>1. UNCHANGED <<cameraVars, fifoVars, resetDue, interfaceVars, sync_ff1, sync_ff2>>
      BY <1>1, <1>2 DEF OnReset, AsyncClear
    <2>2. Types'
      BY <1>1, <2>1 DEF FInv, Types, cameraVars, fifoVars, interfaceVars
    <2>3. ResetInv'
      BY <1>2, <2>1 DEF FInv, ResetInv, ResetReachesInterface, fifoVars
    <2>4. (~resetDue => InStep)'
      BY <2>1 DEF FInv, InStep, Idle, Acquiring, ShortOrWhole, Whole, Closing, Packet, Prefix,
                  Ready, cameraVars, fifoVars, interfaceVars
    <2> QED
      BY <2>2, <2>3, <2>4 DEF FInv
  <1>3. CASE ~reset_combined'
    <2>1. sync_ff1' = FALSE /\ sync_ff2' = FALSE
      BY <1>1, <1>3 DEF AsyncClear
    <2>2. camPhase' = "off" /\ camSent' = 0 /\ camFrame' = camFrame /\ resetDue' = TRUE
      BY <1>1, <1>3 DEF OnReset
    <2>3. level' \in 0 .. Depth /\ packet' = << >>
      BY <1>1, <1>3 DEF OnReset, fifoVars, FInv, Types, ResetInv
    <2>4. Types'
      BY <1>1, <2>2, <2>3, SizeFact, EmptySeq DEF FInv, Types, interfaceVars
    <2>5. ResetInv'
      BY <2>1, <2>3 DEF ResetInv, ResetReachesInterface
    <2> QED
      BY <2>2, <2>4, <2>5 DEF FInv
  <1> QED
    BY <1>2, <1>3

LEMMA NextInv == ASSUME FInv, [Next]_vars PROVE FInv'
  <1>1. CASE SystemReset \/ \E bit \in BOOLEAN : Release(bit)
    BY <1>1, ResetStep
  <1>2. CASE Clocked
    <2>1. PICK write \in Writes : PclkEdge(write)
      BY <1>2 DEF Clocked
    <2>2. Types' /\ ResetInv'
      BY <2>1, EdgeTypes DEF FInv
    <2>3. (~resetDue => InStep)'
      BY <2>1, EdgeInStep
    <2> QED
      BY <2>2, <2>3 DEF FInv
  <1>3. CASE Drain
    <2>1. level' = level - 1 /\ level > 0 /\ packet' = packet /\ resetDue' = resetDue
      BY <1>3 DEF Drain
    <2>2. UNCHANGED <<resetVars, interfaceVars, cameraVars>>
      BY <1>3 DEF Drain
    <2>3. level' \in 0 .. Depth /\ (Ready => Ready')
      BY <2>1, SizeFact DEF FInv, Types, Ready
    <2>4. Types'
      BY <2>1, <2>2, <2>3 DEF FInv, Types, ResetTypeOK, resetVars, interfaceVars, cameraVars
    <2>5. ResetInv'
      BY <2>1, <2>2 DEF FInv, ResetInv, ResetReachesInterface, reset_combined, resetVars
    <2>6. (~resetDue => InStep)'
      BY <2>1, <2>2, <2>3 DEF FInv, InStep, Idle, Acquiring, ShortOrWhole, Whole, Closing,
                              Packet, Prefix, interfaceVars, cameraVars
    <2> QED
      BY <2>4, <2>5, <2>6 DEF FInv
  <1>4. CASE UNCHANGED vars
    <2>1. UNCHANGED <<resetVars, interfaceVars, cameraVars, level, packet, resetDue>>
      BY <1>4 DEF vars, fifoVars
    <2> QED
      <3>1. Types'
        BY <2>1 DEF FInv, Types, ResetTypeOK, resetVars, interfaceVars, cameraVars
      <3>2. ResetInv'
        BY <2>1 DEF FInv, ResetInv, ResetReachesInterface, reset_combined, resetVars
      <3>3. (~resetDue => InStep)'
        BY <2>1 DEF FInv, InStep, Idle, Acquiring, ShortOrWhole, Whole, Closing, Packet,
                    Prefix, Ready, interfaceVars, cameraVars
      <3> QED
        BY <3>1, <3>2, <3>3 DEF FInv
  <1> QED
    BY <1>1, <1>2, <1>3, <1>4 DEF Next

(***************************************************************************)
(* FInv is an invariant of the front end.                                  *)
(***************************************************************************)
THEOREM FrontEndInStep == Spec => []FInv
  <1>1. Init => FInv
    BY InitInv
  <1>2. FInv /\ [Next]_vars => FInv'
    BY NextInv
  <1> QED
    BY <1>1, <1>2, PTL DEF Spec

(***************************************************************************)
(* ResetReachesInterface: the asynchronous clear of the synchroniser and   *)
(* its two edges outlast the synchronous reset of the interface.           *)
(***************************************************************************)
THEOREM EveryResetArrives == Spec => []ResetReachesInterface
  <1>1. FInv => ResetReachesInterface
    BY DEF FInv, ResetInv
  <1> QED
    BY <1>1, FrontEndInStep, PTL

\* The packet a state is about to close is short or a frame.
LEMMA ClosedPackets ==
    ASSUME FInv, Closes, Len(Packet) >= FrameSize
    PROVE  \E frame \in 0 .. 1 : Packet = Whole(frame)
  <1>1. sync_ff2 /\ st.valid /\ st.eop /\ InStep /\ Types
    BY DEF FInv, ResetInv, ResetReachesInterface, Closes, Takes
  <1>2. state = "WAIT_SYNC"
    BY <1>1 DEF Types, InStep, Idle, Acquiring
  <1>3. ~st.sop /\ ShortOrWhole(Closing)
    BY <1>1, <1>2 DEF InStep, Idle
  <1>4. Packet = Closing /\ Len(Closing) \in Nat
    BY <1>1, <1>3, PacketType, LenProperties
  <1> QED
    BY <1>3, <1>4, SizeFact DEF ShortOrWhole

(***************************************************************************)
(* FullPacketsAreFrames: the driver may take a packet of full length for a *)
(* picture.                                                                *)
(***************************************************************************)
THEOREM FullPacketsAreWhole == Spec => FullPacketsAreFrames
  <1>1. FInv => [Clocked /\ Closes /\ Len(Packet) >= FrameSize
                    => \E frame \in 0 .. 1 : Packet = Whole(frame)]_vars
    BY ClosedPackets
  <1> QED
    BY <1>1, FrontEndInStep, PTL DEF FullPacketsAreFrames
-----------------------------------------------------------------------------
(* The types in full: a packet that stays open never grows to a frame, and *)
(* the counters keep within their registers.                               *)

BoundsOK ==
    /\ ctrl_enabled \in BOOLEAN /\ ctrl_clear_counters \in BOOLEAN
    /\ stat_byte_cnt \in 0 .. FrameSize
    /\ state = "ACQUIRE" => stat_byte_cnt < FrameSize
    /\ stat_dropped_cnt \in 0 .. DropCounts - 1
    /\ Len(packet) < FrameSize

LEMMA DroppedType ==
    ASSUME BoundsOK, NEW n \in Nat, If!Drop(n)
    PROVE  stat_dropped_cnt' \in 0 .. DropCounts - 1
  <1>1. DropCounts \in Nat \ {0} /\ stat_dropped_cnt + n \in Nat
    BY FrontEndAssumption DEF BoundsOK
  <1>2. (stat_dropped_cnt + n) % DropCounts \in 0 .. DropCounts - 1
    BY <1>1
  <1> QED
    BY <1>1, <1>2 DEF If!Drop

LEMMA FsmBounds ==
    ASSUME Types, BoundsOK, If!Fsm(In)
    PROVE  /\ stat_byte_cnt' \in 0 .. FrameSize
           /\ state' = "ACQUIRE" => stat_byte_cnt' < FrameSize
           /\ stat_dropped_cnt' \in 0 .. DropCounts - 1
  <1> USE SizeFact
  <1>1. CASE If!Reset(In)
    BY <1>1, FrontEndAssumption DEF If!Reset
  <1>2. CASE ~If!Reset(In)
    <2>1. If!Drop(0) \/ If!Drop(1)
      BY <1>2 DEF If!Fsm, If!WaitSync, If!AcquireStalled, If!AcquireByte, If!AcquireBlank,
                  If!CloseDropped, If!StillWaiting
    <2>2. stat_dropped_cnt' \in 0 .. DropCounts - 1
      BY <2>1, DroppedType
    <2>3. CASE If!WaitSync(In)
      BY <2>2, <2>3 DEF If!WaitSync
    <2>4. CASE If!AcquireByte(In)
      BY <2>2, <2>4 DEF If!AcquireByte, BoundsOK
    <2>5. CASE If!AcquireStalled(In) \/ If!AcquireBlank(In) \/ If!CloseDropped(In) \/ If!StillWaiting(In)
      <3>1. stat_byte_cnt' = stat_byte_cnt /\ (state' = "ACQUIRE" => state = "ACQUIRE")
        BY <2>5 DEF If!AcquireStalled, If!AcquireBlank, If!CloseDropped, If!StillWaiting
      <3> QED
        BY <2>2, <3>1 DEF BoundsOK
    <2> QED
      BY <1>2, <2>3, <2>4, <2>5 DEF If!Fsm
  <1> QED
    BY <1>1, <1>2

\* A byte that leaves the packet open is not the last of its frame.
LEMMA OpenPacket ==
    ASSUME FInv, BoundsOK, FifoEdge
    PROVE  Len(packet') < FrameSize
  <1> USE SizeFact
  <1>1. CASE Takes /\ ~st.eop
    <2>1. packet' = Packet
      BY <1>1 DEF FifoEdge
    <2>2. sync_ff2 /\ st.valid /\ InStep /\ Types
      BY <1>1 DEF FInv, ResetInv, ResetReachesInterface, Takes
    <2>3. state = "ACQUIRE"
      BY <1>1, <2>2 DEF Types, InStep, Idle
    <2>4. Packet = Prefix(camFrame, camSent) /\ camSent < FrameSize
      BY <2>2, <2>3 DEF InStep, Acquiring
    <2>5. Len(Prefix(camFrame, camSent)) = camSent
      BY <2>2, PrefixType DEF Types
    <2> QED
      BY <2>1, <2>4, <2>5
  <1>2. CASE ~(Takes /\ ~st.eop)
    BY <1>2, EmptySeq DEF FifoEdge, fifoVars, BoundsOK
  <1> QED
    BY <1>1, <1>2

LEMMA BoundsStep == ASSUME FInv, BoundsOK, [Next]_vars PROVE BoundsOK'
  <1>1. CASE SystemReset \/ \E bit \in BOOLEAN : Release(bit)
    <2>1. UNCHANGED interfaceVars /\ (packet' = packet \/ packet' = << >>)
      BY <1>1 DEF SystemReset, Release, OnReset, fifoVars
    <2> QED
      BY <2>1, SizeFact, EmptySeq DEF BoundsOK, interfaceVars
  <1>2. CASE Clocked
    <2>1. PICK write \in Writes : PclkEdge(write)
      BY <1>2 DEF Clocked
    <2>2. ctrl_enabled' \in BOOLEAN /\ ctrl_clear_counters' \in BOOLEAN
      <3>1. If!Registers(In, write)
        BY <2>1 DEF PclkEdge
      <3>2. CASE ~In.reset_n
        BY <3>1, <3>2 DEF If!Registers
      <3>3. CASE In.reset_n
        <4>1. /\ ctrl_enabled' = IF write = If!NoWrite THEN ctrl_enabled ELSE "enabled" \in write
              /\ ctrl_clear_counters' = (~ctrl_clear_counters /\ "clear" \in write)
          BY <3>1, <3>3 DEF If!Registers
        <4>2. ctrl_enabled \in BOOLEAN
          BY DEF BoundsOK
        <4>3. ("enabled" \in write) \in BOOLEAN /\ (~ctrl_clear_counters /\ "clear" \in write) \in BOOLEAN
          OBVIOUS
        <4>4. ctrl_enabled' = ctrl_enabled \/ ctrl_enabled' = ("enabled" \in write)
          BY <4>1
        <4>5. ctrl_enabled' \in BOOLEAN
          BY <4>2, <4>3, <4>4
        <4>6. ctrl_clear_counters' \in BOOLEAN
          BY <4>1, <4>3
        <4> QED
          BY <4>5, <4>6
      <3> QED
        BY <3>2, <3>3
    <2>3. If!Fsm(In) /\ FifoEdge /\ Types
      BY <2>1 DEF PclkEdge, FInv
    <2> QED
      BY <2>2, <2>3, FsmBounds, OpenPacket DEF BoundsOK
  <1>3. CASE Drain \/ UNCHANGED vars
    <2>1. UNCHANGED <<interfaceVars, packet>>
      BY <1>3 DEF Drain, vars, fifoVars
    <2> QED
      BY <2>1 DEF BoundsOK, interfaceVars
  <1> QED
    BY <1>1, <1>2, <1>3 DEF Next

(***************************************************************************)
(* TypeOK: the byte counter does not run past a frame, the counter of      *)
(* dropped frames wraps, and what the interface sends without an end of    *)
(* packet between stays shorter than a frame.                              *)
(***************************************************************************)
THEOREM FrontEndTypeCorrect == Spec => []TypeOK
  <1>1. Init => BoundsOK
    <2> SUFFICES ASSUME Init PROVE BoundsOK
      OBVIOUS
    <2>1. /\ ctrl_enabled = FALSE /\ ctrl_clear_counters = FALSE /\ stat_byte_cnt = 0
          /\ stat_dropped_cnt = 0 /\ state = "WAIT_SYNC" /\ packet = << >>
      BY DEF Init, If!IfInit
    <2>2. Len(<< >>) = 0 /\ FrameSize > 1 /\ FrameSize \in Nat /\ DropCounts \in Nat \ {0}
      BY SizeFact, FrontEndAssumption, EmptySeq
    <2>3. Len(packet) < FrameSize
      BY <2>1, <2>2
    <2>4. 0 \in 0 .. FrameSize /\ 0 \in 0 .. DropCounts - 1
      BY <2>2
    <2> QED
      BY <2>1, <2>3, <2>4, Zenon DEF BoundsOK
  <1>2. FInv /\ BoundsOK /\ [Next]_vars => BoundsOK'
    BY BoundsStep
  <1>3. FInv /\ BoundsOK => TypeOK
    <2> SUFFICES ASSUME FInv, BoundsOK PROVE TypeOK
      OBVIOUS
    <2>1. Len(packet) \in Nat /\ FrameSize \in Nat
      BY SizeFact, LenProperties DEF FInv, Types
    <2>2. Len(packet) <= FrameSize
      BY <2>1 DEF BoundsOK
    <2> QED
      BY <2>2 DEF FInv, Types, BoundsOK, TypeOK, If!IfTypeOK
  <1> QED
    BY <1>1, <1>2, <1>3, FrontEndInStep, PTL DEF Spec
=============================================================================
