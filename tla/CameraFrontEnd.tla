---------------------------- MODULE CameraFrontEnd ----------------------------
(***************************************************************************)
(* The two camera components of the FPGA as soc_system.qsys connects them: *)
(* pclk_reset_controller resets the camera, ov7670_data_interface and the  *)
(* FIFO behind it, and ov7670_data_interface feeds that FIFO.              *)
(*                                                                         *)
(* External: the camera, which sends frames of FrameSize bytes between     *)
(* pulses of vsync, in lines of any length but one; the dual-clock FIFO,   *)
(* which takes a beat when it is valid in a cycle in which the FIFO is     *)
(* ready (the interface is declared with readyLatency 0), is ready while   *)
(* it has room, and is emptied by the DMA from the other side; and the     *)
(* software on the bus.                                                    *)
(***************************************************************************)
EXTENDS PclkResetController, Integers, Sequences

CONSTANTS
    FrameSize,           \* bytes per frame, Lines times LineLength
    Depth,               \* of the FIFO
    DropCounts           \* values of stat_dropped_cnt

ASSUME FrontEndAssumption ==
    /\ FrameSize \in Nat \ {0, 1}
    /\ Depth \in Nat \ {0} /\ DropCounts \in Nat \ {0}

\* A byte is its place in its frame, and which of two successive frames.
Bytes == [frame : 0 .. 1, at : 0 .. FrameSize - 1]
Zero  == [frame |-> 0, at |-> 0]

VARIABLES
    state, ctrl_enabled, ctrl_clear_counters, stat_byte_cnt, stat_dropped_cnt,
    vsync_r, st,    \* of ov7670_data_interface
    camPhase,       \* what the camera sends in this cycle
    camSent,        \* bytes of its frame before this cycle
    camFrame,       \* which of two successive frames it sends
    level,          \* beats in the FIFO
    packet,         \* the bytes the FIFO has taken since the last sop or eop
    resetDue        \* history: ov7670_data_interface has still to be reset

If == INSTANCE Ov7670DataInterface WITH FRAME_SIZE <- FrameSize, CounterSize <- DropCounts

interfaceVars == <<state, ctrl_enabled, ctrl_clear_counters, stat_byte_cnt,
                   stat_dropped_cnt, vsync_r, st>>
cameraVars    == <<camPhase, camSent, camFrame>>
fifoVars      == <<level, packet>>
vars          == <<resetVars, interfaceVars, cameraVars, fifoVars, resetDue>>

-----------------------------------------------------------------------------
(* The camera.  Every line has at least two bytes, so that it never blanks *)
(* before the last byte of a frame alone; there is a blank cycle at least  *)
(* on either side of vsync.  In reset it is silent.                        *)

Vsync == camPhase = "vsync"
Href  == camPhase = "byte"
Byte  == IF Href THEN [frame |-> camFrame, at |-> camSent] ELSE Zero

Phase(phase, sent) ==
    /\ camPhase' = phase
    /\ camSent' = sent
    /\ phase = "byte"  => sent < FrameSize
    /\ phase = "blank" => sent # FrameSize - 1
    /\ phase = "vsync" => sent = 0

Send(sent) == Phase("byte", sent) \/ Phase("blank", sent)

NewFrame == Phase("vsync", 0) /\ camFrame' = 1 - camFrame

\* After its reset the camera may start anywhere in a frame.
CameraEdge ==
    \/ /\ \/ /\ camPhase = "off"
             /\ Phase("vsync", 0) \/ \E sent \in 0 .. FrameSize : Send(sent)
          \/ camPhase = "vsync" /\ (Phase("vsync", 0) \/ Phase("blank", 0))
          \/ camPhase = "blank" /\ Send(camSent)
          \/ camPhase = "byte" /\ Send(camSent + 1)
       /\ UNCHANGED camFrame
    \/ camPhase = "blank" /\ camSent = FrameSize /\ NewFrame

-----------------------------------------------------------------------------
(* The FIFO                                                                *)

Ready   == level < Depth
Takes   == sync_ff2 /\ st.valid /\ Ready
Packet  == Append(IF st.sop THEN << >> ELSE packet, st.data)

FifoEdge ==
    IF Takes
    THEN level' = level + 1 /\ packet' = IF st.eop THEN << >> ELSE Packet
    ELSE UNCHANGED fifoVars

Drain ==
    /\ level > 0
    /\ level' = level - 1
    /\ UNCHANGED <<resetVars, interfaceVars, cameraVars, packet, resetDue>>

-----------------------------------------------------------------------------
Init ==
    /\ ResetInit
    /\ If!IfInit
    /\ camPhase = "off"
    /\ camSent = 0
    /\ camFrame = 0
    /\ level = 0
    /\ packet = << >>
    /\ resetDue = TRUE

\* What a change of the reset does at once: the camera falls silent, and what
\* the FIFO holds after a reset of its input side alone is undefined.
OnReset ==
    IF reset_combined'
    THEN UNCHANGED <<cameraVars, fifoVars, resetDue>>
    ELSE /\ camPhase' = "off" /\ camSent' = 0
         /\ resetDue' = TRUE
         /\ IF sync_ff2
            THEN level' \in 0 .. Depth /\ packet' = << >>
            ELSE UNCHANGED fifoVars
         /\ UNCHANGED camFrame

SystemReset == SysReset /\ OnReset /\ UNCHANGED interfaceVars

\* Software writes sw_release.
Release(bit) == SysClock(bit) /\ OnReset /\ UNCHANGED interfaceVars

In == [reset_n |-> sync_ff2, href |-> Href, vsync |-> Vsync,
       data |-> Byte, ready |-> Ready]

\* An edge of pclk, with or without a write to ctrl that has come through the
\* clock crossing bridge.  A camera in reset may or may not send edges.
PclkEdge(write) ==
    /\ Synchronise
    /\ If!Registers(In, write)
    /\ If!Fsm(In)
    /\ IF reset_combined THEN CameraEdge ELSE UNCHANGED cameraVars
    /\ FifoEdge
    /\ resetDue' = (resetDue /\ sync_ff2)

Writes == {If!NoWrite} \cup SUBSET {"enabled", "clear"}

Clocked == \E write \in Writes : PclkEdge(write)

Next ==
    \/ SystemReset
    \/ \E bit \in BOOLEAN : Release(bit)
    \/ Clocked
    \/ Drain

Spec == Init /\ [][Next]_vars

\* A camera that is not in reset sends its clock, and ends its blanks.
FairSpec ==
    /\ Spec
    /\ WF_vars(reset_combined /\ Clocked)
    /\ WF_vars(reset_combined /\ Clocked /\ camPhase' # camPhase)

-----------------------------------------------------------------------------
TypeOK ==
    /\ ResetTypeOK
    /\ If!IfTypeOK
    /\ camPhase \in {"off", "vsync", "blank", "byte"}
    /\ camSent \in 0 .. FrameSize
    /\ camFrame \in 0 .. 1
    /\ level \in 0 .. Depth
    /\ packet \in Seq(Bytes)
    /\ Len(packet) <= FrameSize
    /\ resetDue \in BOOLEAN

Whole(frame) == [k \in 1 .. FrameSize |-> [frame |-> frame, at |-> k - 1]]
Closes       == Takes /\ st.eop

(***************************************************************************)
(* A packet with as many bytes as a frame is a frame: all its bytes are    *)
(* of one picture and in order, whenever the sink stalls, software         *)
(* switches the acquisition or the camera is reset in the middle of a      *)
(* frame.  Everything else the interface closes is shorter, which is what  *)
(* the driver tells a damaged frame by.                                    *)
(***************************************************************************)
FullPacketsAreFrames ==
    [][Clocked /\ Closes /\ Len(Packet) >= FrameSize
          => \E frame \in 0 .. 1 : Packet = Whole(frame)]_vars

(***************************************************************************)
(* However short a reset is, and although the camera's clock may stand     *)
(* still all through it: before the interface does anything else, its own, *)
(* synchronous reset has been done.                                        *)
(***************************************************************************)
ResetReachesInterface == resetDue => ~sync_ff2

(***************************************************************************)
(* The interface finds back into step: with the reset released, the        *)
(* acquisition enabled and a sink that keeps up, whole frames come again   *)
(* and again, whatever was dropped before.                                 *)
(***************************************************************************)
FramesComeAgain ==
    <>[](reset_combined /\ ctrl_enabled /\ Ready)
        => []<>(Closes /\ Len(Packet) = FrameSize)

(***************************************************************************)
(* README.md of the components promises "SOP/EOP framing and backpressure  *)
(* support": no packet is begun before the last one was closed.            *)
(***************************************************************************)
PacketsClosed == [][Clocked /\ Takes /\ st.sop => packet = << >>]_vars
=============================================================================
