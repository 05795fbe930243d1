---------------------------- MODULE PixelGenerator ----------------------------
(***************************************************************************)
(* The test sources of hw/my_vhdl/qsys_components: simple_byte_pixel_      *)
(* counter_generator.vhd, simple_qword_pixel_cnt_generator.vhd and         *)
(* unstable/simple_qword_pixel_cnt_generator_with_garbage.vhd, of which    *)
(* one is built into the FPGA in the place of the camera.                  *)
(*                                                                         *)
(* A step is an edge of the clock.  The sink is any circuit that is ready  *)
(* when it likes; with readyLatency 0 it takes a beat at an edge at which  *)
(* valid and ready are both high.                                          *)
(***************************************************************************)
EXTENDS Integers

CONSTANTS
    Pixels,      \* WIDTH * HEIGHT
    Garbage,     \* GARBAGE_QWORDS
    ByteSize,    \* values of a byte, 256
    Kinds        \* the generators to choose from

ASSUME PixelsAssumption  == Pixels \in Nat /\ Pixels > 1
ASSUME GarbageAssumption == Garbage \in Nat
ASSUME ByteAssumption    == ByteSize \in Nat \ {0}
ASSUME KindsAssumption   == Kinds \subseteq {"byte", "qword", "garbage"}

VARIABLES
    kind,             \* which generator
    pixel_counter,
    source,           \* the registered outputs valid, data, startofpacket, endofpacket
    expected          \* history: place in its frame of the beat the sink takes next

genVars == <<kind, pixel_counter, source, expected>>

\* The 64-bit counters never wrap around; garbage is all ones.
Ones   == -1
Silent == [valid |-> FALSE, sop |-> FALSE, eop |-> FALSE, data |-> 0]

GenInit ==
    /\ kind \in Kinds
    /\ pixel_counter = 0
    /\ source = Silent
    /\ expected = 0

Output(counter, data) ==
    [valid |-> TRUE, sop |-> counter = 0, eop |-> counter = Pixels - 1, data |-> data]

\* Mutant of ByteClock: the counter steps on while the sink is not ready.
ByteClockRuns(ready) ==
    /\ pixel_counter' = IF pixel_counter = Pixels - 1 THEN 0 ELSE pixel_counter + 1
    /\ source' = IF ready THEN Output(pixel_counter, pixel_counter % ByteSize) ELSE source

\* Without ready the outputs hold.
ByteClock(ready) ==
    IF ready
    THEN /\ pixel_counter' = IF pixel_counter = Pixels - 1 THEN 0 ELSE pixel_counter + 1
         /\ source' = Output(pixel_counter, pixel_counter % ByteSize)
    ELSE UNCHANGED <<pixel_counter, source>>

QwordClock(ready) ==
    IF ready
    THEN /\ pixel_counter' = IF pixel_counter = Pixels - 1 THEN 0 ELSE pixel_counter + 1
         /\ source' = Output(pixel_counter, pixel_counter)
    ELSE UNCHANGED <<pixel_counter, source>>

\* Behind every frame, Garbage beats of ones that belong to no packet.
GarbageClock(ready) ==
    IF ready
    THEN IF pixel_counter = Pixels + Garbage
         THEN pixel_counter' = 1 /\ source' = Output(0, 0)
         ELSE /\ pixel_counter' = pixel_counter + 1
              /\ source' = Output(pixel_counter,
                                  IF pixel_counter < Pixels THEN pixel_counter ELSE Ones)
    ELSE UNCHANGED <<pixel_counter, source>>

Period == IF kind = "garbage" THEN Pixels + Garbage ELSE Pixels

Taken(ready) == ready /\ source.valid

GenReset ==
    /\ pixel_counter' = 0
    /\ source' = Silent
    /\ expected' = 0
    /\ UNCHANGED kind

GenClock(ready) ==
    /\ \/ kind = "byte" /\ ByteClock(ready)
       \/ kind = "qword" /\ QwordClock(ready)
       \/ kind = "garbage" /\ GarbageClock(ready)
    /\ expected' = IF ~Taken(ready) THEN expected
                   ELSE IF expected = Period - 1 THEN 0 ELSE expected + 1
    /\ UNCHANGED kind

GenNext == GenReset \/ \E ready \in BOOLEAN : GenClock(ready)

GenSpec == GenInit /\ [][GenNext]_genVars

-----------------------------------------------------------------------------
GenTypeOK ==
    /\ kind \in Kinds
    /\ pixel_counter \in 0 .. Pixels + Garbage
    /\ source \in [valid : BOOLEAN, sop : BOOLEAN, eop : BOOLEAN, data : Nat \cup {Ones}]
    /\ expected \in 0 .. Period - 1

\* What the sink should be offered as the beat at place n of the period.
BeatAt(n) ==
    Output(n, IF n >= Pixels THEN Ones ELSE IF kind = "byte" THEN n % ByteSize ELSE n)

(***************************************************************************)
(* "Produces one complete frame [...] with correct SOP/EOP framing.        *)
(* Respects backpressure" (README.md of the components): however ready     *)
(* comes and goes, the beats the sink takes are those of whole frames in   *)
(* their order, none twice and none left out.                              *)
(***************************************************************************)
BeatsInOrder == source.valid => source = BeatAt(expected)
=============================================================================
