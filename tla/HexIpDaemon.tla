----------------------------- MODULE HexIpDaemon -----------------------------
(***************************************************************************)
(* sw/hexip_daemon/src/main.c, which shows the IP address of an interface  *)
(* octet by octet on the hex display, with the display behind it, an       *)
(* interface whose address comes, goes and changes, and the two signals    *)
(* whose handler switches the display off.                                 *)
(*                                                                         *)
(* Time is what the daemon makes of it: age is time() minus last_poll, to  *)
(* which a sleep adds at least a second, and which chrony may set back, as *)
(* the board has no clock of its own (sdcard/rootfs_overlay/etc/           *)
(* chrony.conf).                                                           *)
(***************************************************************************)
EXTENDS HexDisplay, Sequences

CONSTANTS
    Addresses,    \* addresses the interface may have, tuples of four octets
    None,         \* no address, or getifaddrs() fails
    Pokes,        \* values another bus master may write
    Back,         \* how far a clock step may go back, in seconds
    MaxSteps      \* bound on clock steps; chrony makes at most three

ASSUME DaemonAssumption ==
    /\ \A a \in Addresses : a \in [1 .. 4 -> 0 .. 255]
    /\ None \notin Addresses
    /\ Pokes \subseteq Ctrls
    /\ Back \in Nat /\ MaxSteps \in Nat
    /\ 255 \in Bins /\ TenTo[Digits] \in Bins

VARIABLES
    iface,        \* external: the address of the interface
    daemonPc,     \* where main() is
    hex_reg,      \* "null", "mapped", or pointing to what has been unmapped
    handlers,     \* signal handlers that have begun, the one that runs last
    has_ip, oct, blink_on, i,    \* local variables of main()
    age,          \* time(NULL) - last_poll, as far as it matters
    steps,        \* clock steps so far
    began, shown  \* history: the address at the start of a sweep, its octets shown

processVars == <<daemonPc, hex_reg, handlers, has_ip, oct, blink_on, i, age>>
history     == <<began, shown>>
daemonVars  == <<ctrl, iface, processVars, steps, history>>

IP_POLL_SEC == 3
CTRL_OFF    == [enabled |-> FALSE, value |-> 0]
CTRL_DASH   == [enabled |-> TRUE, value |-> TenTo[Digits]]
Octet(n)    == [enabled |-> TRUE, value |-> n]
Signals     == {"SIGTERM", "SIGINT"}
Ended       == daemonPc \in {"exited", "crashed"}

DaemonTypeOK ==
    /\ ctrl \in Ctrls
    /\ iface \in Addresses \cup {None}
    /\ daemonPc \in {"start", "poll", "octet", "hold", "blank", "dash", "blink", "rest",
                     "exited", "crashed"}
    /\ hex_reg \in {"null", "mapped", "unmapped"}
    /\ handlers \in Seq([sig : Signals, at : {"off", "unmap", "exit"}])
    /\ has_ip \in BOOLEAN /\ blink_on \in BOOLEAN
    /\ oct \in [1 .. 4 -> 0 .. 255]
    /\ i \in 1 .. 5
    /\ age \in -Back .. IP_POLL_SEC
    /\ steps \in 0 .. MaxSteps
    /\ began \in Addresses \cup {None}
    /\ shown \in Seq(0 .. 255)

DaemonInit ==
    /\ DisplayInit
    /\ iface \in Addresses \cup {None}
    /\ daemonPc = "start"
    /\ hex_reg = "null"
    /\ handlers = << >>
    /\ has_ip = FALSE
    /\ oct = <<0, 0, 0, 0>>
    /\ blink_on = TRUE
    /\ i = 1
    /\ age = IP_POLL_SEC
    /\ steps = 0
    /\ began = None
    /\ shown = << >>

-----------------------------------------------------------------------------
(* main()                                                                  *)

At(pc)   == daemonPc = pc /\ handlers = << >>
Goto(pc) == daemonPc' = pc /\ UNCHANGED <<iface, hex_reg, handlers, steps>>

\* map_display(): open() or mmap() may fail.
MapDisplay ==
    /\ At("start")
    /\ \/ hex_reg' = "mapped" /\ daemonPc' = "poll"
       \/ daemonPc' = "exited" /\ UNCHANGED hex_reg
    /\ UNCHANGED <<ctrl, iface, handlers, has_ip, oct, blink_on, i, age, steps, history>>

\* Mutant of PollDue: the address is kept once there is one.
PollDueUntilFound == ~has_ip /\ age >= IP_POLL_SEC

PollDue == age >= IP_POLL_SEC

\* The top of the loop, with get_ip_octets().
Poll ==
    /\ At("poll")
    /\ IF PollDue
       THEN /\ has_ip' = (iface # None)
            /\ oct' = IF iface # None THEN iface ELSE oct
            /\ age' = 0
       ELSE UNCHANGED <<has_ip, oct, age>>
    /\ Goto(IF has_ip' THEN "octet" ELSE "blink")
    /\ i' = 1
    /\ began' = iface
    /\ shown' = << >>
    /\ UNCHANGED <<ctrl, blink_on>>

ShowOctet ==
    /\ At("octet")
    /\ WriteCtrl(Octet(oct[i]))
    /\ shown' = Append(shown, oct[i])
    /\ Goto("hold")
    /\ UNCHANGED <<has_ip, oct, blink_on, i, age, began>>

\* The separator, with nothing that would keep it there.
Blank ==
    /\ At("blank")
    /\ WriteCtrl(CTRL_OFF)
    /\ i' = i + 1
    /\ Goto(IF i = 4 THEN "dash" ELSE "octet")
    /\ UNCHANGED <<has_ip, oct, blink_on, age, history>>

Dash ==
    /\ At("dash")
    /\ WriteCtrl(CTRL_DASH)
    /\ Goto("rest")
    /\ UNCHANGED <<has_ip, oct, blink_on, i, age, history>>

\* Mutant of Blink: blink_on is not toggled.
BlinkNot ==
    /\ At("blink")
    /\ WriteCtrl(IF blink_on THEN CTRL_DASH ELSE CTRL_OFF)
    /\ Goto("rest")
    /\ UNCHANGED <<has_ip, oct, blink_on, i, age, history>>

Blink ==
    /\ At("blink")
    /\ WriteCtrl(IF blink_on THEN CTRL_DASH ELSE CTRL_OFF)
    /\ blink_on' = ~blink_on
    /\ Goto("rest")
    /\ UNCHANGED <<has_ip, oct, i, age, history>>

\* usleep(STEP_MS * 1000): a second by the clock, or longer on a busy board.
Sleep ==
    /\ \/ At("hold") /\ Goto("blank")
       \/ At("rest") /\ Goto("poll")
    /\ age' \in {IF age < IP_POLL_SEC THEN age + 1 ELSE age, IP_POLL_SEC}
    /\ UNCHANGED <<ctrl, has_ip, oct, blink_on, i, history>>

DaemonStep == MapDisplay \/ Poll \/ ShowOctet \/ Blank \/ Dash \/ Blink \/ Sleep

-----------------------------------------------------------------------------
(* sig_handler() and cleanup().  A signal is blocked in its own handler    *)
(* only, so the other one may interrupt it.                                *)

Top == handlers[Len(handlers)]
OnlyHandlers == UNCHANGED <<iface, has_ip, oct, blink_on, i, age, steps, history>>
HandlerAt(at) == ~Ended /\ handlers # << >> /\ Top.at = at
HandlerGoto(at) == handlers' = [handlers EXCEPT ![Len(handlers)].at = at]

Signal(sig) ==
    /\ ~Ended
    /\ \A k \in 1 .. Len(handlers) : handlers[k].sig # sig
    /\ handlers' = Append(handlers, [sig |-> sig, at |-> "off"])
    /\ UNCHANGED <<ctrl, daemonPc, hex_reg>> /\ OnlyHandlers

\* Mutant of SwitchOff: the display keeps what it shows.
SwitchOffNot ==
    /\ HandlerAt("off")
    /\ HandlerGoto("unmap")
    /\ UNCHANGED <<ctrl, daemonPc, hex_reg>> /\ OnlyHandlers

\* A write through a pointer to what the interrupted handler has unmapped
\* kills the process.
SwitchOff ==
    /\ HandlerAt("off")
    /\ IF hex_reg = "mapped" THEN WriteCtrl(CTRL_OFF) ELSE UNCHANGED ctrl
    /\ IF hex_reg = "unmapped"
       THEN daemonPc' = "crashed" /\ UNCHANGED handlers
       ELSE HandlerGoto("unmap") /\ UNCHANGED daemonPc
    /\ UNCHANGED hex_reg /\ OnlyHandlers

Unmap ==
    /\ HandlerAt("unmap")
    /\ hex_reg' = IF hex_reg = "mapped" THEN "unmapped" ELSE hex_reg
    /\ HandlerGoto("exit")
    /\ UNCHANGED <<ctrl, daemonPc>> /\ OnlyHandlers

Exit ==
    /\ HandlerAt("exit")
    /\ daemonPc' = "exited"
    /\ UNCHANGED <<ctrl, hex_reg, handlers>> /\ OnlyHandlers

HandlerStep == SwitchOff \/ Unmap \/ Exit

-----------------------------------------------------------------------------
(* Around it                                                               *)

Interface ==
    /\ ~Ended
    /\ iface' \in (Addresses \cup {None}) \ {iface}
    /\ UNCHANGED <<ctrl, processVars, steps, history>>

ClockStep ==
    /\ ~Ended
    /\ steps < MaxSteps
    /\ steps' = steps + 1
    /\ age' \in {-Back, IP_POLL_SEC}
    /\ UNCHANGED <<ctrl, iface, daemonPc, hex_reg, handlers, has_ip, oct, blink_on, i, history>>

\* Another master of the bus, through the JTAG bridge, on a board on which the
\* daemon could not map the register.  Bound: one write after each reset.
Poke ==
    /\ daemonPc = "exited" /\ hex_reg = "null" /\ handlers = << >>
    /\ ctrl = CTRL_OFF
    /\ \E word \in Pokes : WriteCtrl(word)
    /\ UNCHANGED <<iface, processVars, steps, history>>

SystemReset == ResetCtrl /\ UNCHANGED <<iface, processVars, steps, history>>

DaemonNext ==
    \/ DaemonStep
    \/ HandlerStep
    \/ \E sig \in Signals : Signal(sig)
    \/ Interface
    \/ ClockStep
    \/ Poke
    \/ SystemReset

DaemonSpec == DaemonInit /\ [][DaemonNext]_daemonVars

\* The kernel runs the daemon and the handlers of its signals.
FairSpec == DaemonSpec /\ WF_daemonVars(DaemonStep) /\ WF_daemonVars(HandlerStep)

-----------------------------------------------------------------------------
(***************************************************************************)
(* Whatever the daemon was doing when a signal came, and even if the       *)
(* second signal comes while the handler of the first is unmapping the     *)
(* register (in which case the process dies of it): it leaves the display  *)
(* dark.                                                                   *)
(***************************************************************************)
OffAfterExit == Ended /\ hex_reg # "null" => ~ctrl.enabled

(***************************************************************************)
(* A sweep shows the four octets of one address, the one the interface had *)
(* when the sweep began: oct is kept while the interface changes, and a    *)
(* sweep lasts longer than IP_POLL_SEC, so that the next one never goes by *)
(* an old answer, unless the clock was set back.                           *)
(***************************************************************************)
SweepsAreFresh == [][At("dash") /\ Dash /\ steps = 0 => shown = began]_daemonVars

(***************************************************************************)
(* An address that stays is shown again and again, and an interface that   *)
(* stays without one makes the dashes blink, also after the clock was set  *)
(* back.                                                                   *)
(***************************************************************************)
DisplayFollowsInterface ==
    /\ \A a \in Addresses :
          <>[](iface = a /\ ~Ended /\ handlers = << >>) => []<>(daemonPc = "dash" /\ shown = a)
    /\ <>[](iface = None /\ ~Ended /\ handlers = << >>)
          => <>[](ctrl \in {CTRL_DASH, CTRL_OFF})
             /\ []<>(daemonPc = "rest" /\ ctrl.enabled) /\ []<>(daemonPc = "rest" /\ ~ctrl.enabled)

(***************************************************************************)
(* "show each octet with a brief blank between them" (main.c:109): the     *)
(* display stays dark for a while before the next octet, so that equal     *)
(* neighbours are told apart.                                              *)
(***************************************************************************)
BlankBetweenOctets == [][Blank /\ i < 4 => daemonPc' \in {"hold", "rest"}]_daemonVars
=============================================================================
