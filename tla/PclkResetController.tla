------------------------- MODULE PclkResetController -------------------------
(***************************************************************************)
(* hw/my_vhdl/qsys_components/pclk_reset_controller.vhd: the register with *)
(* which software holds the camera in reset, and the synchroniser that     *)
(* carries its release into the domain of the camera's pixel clock.        *)
(*                                                                         *)
(* The reset is asserted without a clock and released by two edges of      *)
(* pclk, which the camera may have stopped meanwhile.                      *)
(***************************************************************************)
EXTENDS Naturals

VARIABLES
    sys_reset_n,          \* reset of the system clock domain, an input
    sw_release,           \* the register
    sync_ff1, sync_ff2    \* the synchroniser; sync_ff2 drives pclk_reset_n

resetVars == <<sys_reset_n, sw_release, sync_ff1, sync_ff2>>

ResetTypeOK ==
    /\ sys_reset_n \in BOOLEAN
    /\ sw_release \in BOOLEAN
    /\ sync_ff1 \in BOOLEAN
    /\ sync_ff2 \in BOOLEAN

ResetInit ==
    /\ sys_reset_n = FALSE
    /\ sw_release = FALSE
    /\ sync_ff1 = FALSE
    /\ sync_ff2 = FALSE

reset_combined == sys_reset_n /\ sw_release     \* also camera_reset_n

\* Mutant of AsyncClear: the flip-flops have no asynchronous clear.
AsyncClearNot == UNCHANGED <<sync_ff1, sync_ff2>>

\* The flip-flops are cleared the moment reset_combined falls.
AsyncClear ==
    IF reset_combined'
    THEN UNCHANGED <<sync_ff1, sync_ff2>>
    ELSE sync_ff1' = FALSE /\ sync_ff2' = FALSE

\* The system's reset comes and goes on its own.
SysReset ==
    /\ sys_reset_n' = ~sys_reset_n
    /\ UNCHANGED sw_release
    /\ AsyncClear

\* An edge of sys_clk that changes the register: a write, or the reset.
SysClock(bit) ==
    /\ sw_release' = (sys_reset_n /\ bit)
    /\ sw_release' # sw_release
    /\ UNCHANGED sys_reset_n
    /\ AsyncClear

\* An edge of pclk.
Synchronise ==
    /\ sync_ff1' = reset_combined
    /\ sync_ff2' = (reset_combined /\ sync_ff1)
    /\ UNCHANGED <<sys_reset_n, sw_release>>
=============================================================================
