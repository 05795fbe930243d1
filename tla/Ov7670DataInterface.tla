------------------------- MODULE Ov7670DataInterface -------------------------
(***************************************************************************)
(* hw/my_vhdl/qsys_components/ov7670_data_interface.vhd: it cuts the bytes *)
(* of the camera into packets of FRAME_SIZE, drops a frame when the sink   *)
(* is not ready, and counts what it drops.                                 *)
(*                                                                         *)
(* Both processes run on the rising edge of pclk, so a step of either is   *)
(* parameterised by the inputs just before the edge:                       *)
(*     [reset_n, href, vsync, data, ready]                                 *)
(* and an unprimed variable is the registered value the edge finds.  The   *)
(* power-down bit, which only drives a pin, is left out.                   *)
(***************************************************************************)
EXTENDS Naturals

CONSTANTS
    FRAME_SIZE,    \* bytes per frame
    CounterSize,   \* values of stat_dropped_cnt, 2^32 in the code
    Bytes,         \* what cam_data may carry
    Zero           \* the byte of zeros, one of Bytes

VARIABLES
    state,                              \* of the FSM
    ctrl_enabled, ctrl_clear_counters,  \* bits of ctrl
    stat_byte_cnt, stat_dropped_cnt,
    vsync_r,                            \* cam_vsync at the previous edge
    st                                  \* the registered outputs to the sink

IfTypeOK ==
    /\ state \in {"WAIT_SYNC", "ACQUIRE", "WAIT_READY"}
    /\ ctrl_enabled \in BOOLEAN
    /\ ctrl_clear_counters \in BOOLEAN
    /\ stat_byte_cnt \in 0 .. FRAME_SIZE
    /\ stat_dropped_cnt \in 0 .. CounterSize - 1
    /\ vsync_r \in BOOLEAN
    /\ st \in [valid : BOOLEAN, sop : BOOLEAN, eop : BOOLEAN, data : Bytes]

Beat(sop, eop, data) == [valid |-> TRUE, sop |-> sop, eop |-> eop, data |-> data]
Silence(data) == [valid |-> FALSE, sop |-> FALSE, eop |-> FALSE, data |-> data]

IfInit ==
    /\ state = "WAIT_SYNC"
    /\ ctrl_enabled = FALSE
    /\ ctrl_clear_counters = FALSE
    /\ stat_byte_cnt = 0
    /\ stat_dropped_cnt = 0
    /\ vsync_r = FALSE
    /\ st = Silence(Zero)

-----------------------------------------------------------------------------
(* The Avalon-MM process.  A write is a set of bits; NoWrite is its        *)
(* absence.                                                                *)

NoWrite == {"none"}

Registers(in, write) ==
    IF ~in.reset_n
    THEN ctrl_enabled' = FALSE /\ ctrl_clear_counters' = FALSE
    ELSE /\ ctrl_enabled' = IF write = NoWrite THEN ctrl_enabled ELSE "enabled" \in write
         \* The bit clears itself one cycle later, whatever is written then.
         /\ ctrl_clear_counters' = (~ctrl_clear_counters /\ "clear" \in write)

-----------------------------------------------------------------------------
(* The FSM process                                                         *)

FallingEdge(in) == vsync_r /\ ~in.vsync

\* Clearing the counter goes before counting.
Drop(n) ==
    stat_dropped_cnt' = IF ctrl_clear_counters THEN 0
                        ELSE (stat_dropped_cnt + n) % CounterSize

Reset(in) ==
    /\ ~in.reset_n
    /\ state' = "WAIT_SYNC"
    /\ stat_byte_cnt' = 0
    /\ stat_dropped_cnt' = 0
    /\ vsync_r' = FALSE
    /\ st' = Silence(Zero)

\* Mutant of WaitSync: vsync is looked at as a level.
WaitSyncLow(in) ==
    /\ state = "WAIT_SYNC"
    /\ state' = IF ~in.vsync /\ ctrl_enabled THEN "ACQUIRE" ELSE state
    /\ st' = Silence(st.data)
    /\ stat_byte_cnt' = 0
    /\ Drop(0)

\* A frame is begun at the end of the vertical sync pulse.
WaitSync(in) ==
    /\ state = "WAIT_SYNC"
    /\ state' = IF FallingEdge(in) /\ ctrl_enabled THEN "ACQUIRE" ELSE state
    /\ st' = Silence(st.data)
    /\ stat_byte_cnt' = 0
    /\ Drop(0)

\* Back-pressure: the rest of the frame is dropped.
AcquireStalled(in) ==
    /\ state = "ACQUIRE"
    /\ ~in.ready
    /\ state' = "WAIT_READY"
    /\ st' = Silence(st.data)
    /\ UNCHANGED stat_byte_cnt
    /\ Drop(1)

AcquireByte(in) ==
    /\ state = "ACQUIRE"
    /\ in.ready /\ in.href
    /\ LET last == stat_byte_cnt = FRAME_SIZE - 1
       IN  /\ st' = Beat(stat_byte_cnt = 0, last, in.data)
           /\ state' = IF last THEN "WAIT_SYNC" ELSE state
    /\ stat_byte_cnt' = stat_byte_cnt + 1
    /\ Drop(0)

AcquireBlank(in) ==
    /\ state = "ACQUIRE"
    /\ in.ready /\ ~in.href
    /\ st' = Silence(st.data)
    /\ UNCHANGED <<state, stat_byte_cnt>>
    /\ Drop(0)

\* Mutant of CloseDropped: the FSM does not leave the state.
CloseDroppedStays(in) ==
    /\ state = "WAIT_READY"
    /\ in.ready
    /\ st' = Beat(FALSE, TRUE, st.data)
    /\ UNCHANGED <<state, stat_byte_cnt>>
    /\ Drop(0)

\* The sink is ready again: the packet is closed with a bare end of packet,
\* whose data is whatever st_data still holds.
CloseDropped(in) ==
    /\ state = "WAIT_READY"
    /\ in.ready
    /\ state' = "WAIT_SYNC"
    /\ st' = Beat(FALSE, TRUE, st.data)
    /\ UNCHANGED stat_byte_cnt
    /\ Drop(0)

\* Another frame goes by unread.
StillWaiting(in) ==
    /\ state = "WAIT_READY"
    /\ ~in.ready
    /\ st' = Silence(st.data)
    /\ UNCHANGED <<state, stat_byte_cnt>>
    /\ Drop(IF FallingEdge(in) THEN 1 ELSE 0)

Fsm(in) ==
    \/ Reset(in)
    \/ /\ in.reset_n
       /\ vsync_r' = in.vsync
       /\ \/ WaitSync(in)
          \/ AcquireStalled(in) \/ AcquireByte(in) \/ AcquireBlank(in)
          \/ CloseDropped(in) \/ StillWaiting(in)
=============================================================================
