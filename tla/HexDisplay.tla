------------------------------ MODULE HexDisplay ------------------------------
(***************************************************************************)
(* hw/my_vhdl/qsys_components/hex_display_controller.vhd: a register, a    *)
(* combinatorial binary-to-decimal converter (double dabble) and the six   *)
(* seven-segment digits, which are a function of the register.             *)
(*                                                                         *)
(* The register is the record of its two fields.  The 44-bit scratch word  *)
(* of the converter is the record of its two halves, the nibbles and what  *)
(* is left of the binary number.                                           *)
(***************************************************************************)
EXTENDS Integers

CONSTANTS
    Width,      \* bits of the value field, 20
    Digits      \* digits of the display, 6

ASSUME DisplayAssumption == Width \in Nat \ {0} /\ Digits \in Nat \ {0}

Places == 0 .. Digits - 1       \* 0 is the rightmost, HEX0

TwoTo[n \in 0 .. Width]  == IF n = 0 THEN 1 ELSE 2 * TwoTo[n - 1]
TenTo[n \in 0 .. Digits] == IF n = 0 THEN 1 ELSE 10 * TenTo[n - 1]

Bins  == 0 .. TwoTo[Width] - 1
Ctrls == [enabled : BOOLEAN, value : Bins]

VARIABLE ctrl

DisplayInit == ctrl = [enabled |-> FALSE, value |-> 0]

\* A bus write, and the reset.
WriteCtrl(word) == ctrl' = word
ResetCtrl       == ctrl' = [enabled |-> FALSE, value |-> 0]

-----------------------------------------------------------------------------
(* bin_to_bcd_6digit                                                       *)

Nibbles   == 0 .. 15
Scratches == [bcd : [Places -> Nibbles], bin : Bins]

\* Mutant of Adjust: a nibble of exactly 5 is not adjusted.
AdjustAboveFive(n) == IF n > 5 THEN (n + 3) % 16 ELSE n

Adjust(n) == IF n >= 5 THEN (n + 3) % 16 ELSE n

\* What a shift of the scratch word moves out of the binary number.
Msb(bin) == IF bin >= TwoTo[Width - 1] THEN 1 ELSE 0

\* Every nibble is adjusted, and the whole scratch word shifted left by one.
dabble_stage[s \in Scratches] ==
    LET v == [k \in Places |-> Adjust(s.bcd[k])]
        carry(k) == IF k = 0 THEN Msb(s.bin) ELSE v[k - 1] \div 8
    IN  [bcd |-> [k \in Places |-> (2 * v[k] + carry(k)) % 16],
         bin |-> 2 * (s.bin - Msb(s.bin) * TwoTo[Width - 1])]

scratch(bin) ==
    LET stages[n \in 0 .. Width] ==
            IF n = 0 THEN [bcd |-> [k \in Places |-> 0], bin |-> bin]
            ELSE dabble_stage[stages[n - 1]]
    IN  stages

Bcd(bin) == scratch(bin)[Width].bcd

-----------------------------------------------------------------------------
(* The outputs, active low with segment a in bit 0                         *)

SEG_BLANK == 127
SEG_DASH  == 63
SEG_LUT   == <<64, 121, 36, 48, 25, 18, 2, 120, 0, 16>>    \* of the digit before the index

overflow == ctrl.value > TenTo[Digits] - 1

LeadingZero(bcd, k) == k > 0 /\ \A j \in k .. Digits - 1 : bcd[j] = 0

hex_n ==
    LET bcd == Bcd(ctrl.value)
    IN  [k \in Places |->
            CASE ~ctrl.enabled            -> SEG_BLANK
              [] ctrl.enabled /\ overflow -> SEG_DASH
              [] OTHER -> IF LeadingZero(bcd, k) THEN SEG_BLANK ELSE SEG_LUT[bcd[k] + 1]]

-----------------------------------------------------------------------------
\* What someone who looks at the digits reads: the number that the n leftmost
\* form, the blanks passed over.
DigitOf(seg) == CHOOSE d \in 0 .. 9 : SEG_LUT[d + 1] = seg

Reading(segs) ==
    LET read[n \in 0 .. Digits] ==
            IF n = 0 THEN 0
            ELSE IF segs[Digits - n] = SEG_BLANK THEN read[n - 1]
            ELSE 10 * read[n - 1] + DigitOf(segs[Digits - n])
    IN  read

(***************************************************************************)
(* "Displays a 20-bit integer" with "leading zeros suppressed" and ------  *)
(* for what does not fit (README.md of the components): the twenty stages  *)
(* of shifts and adjustments leave the decimal digits of the value, none   *)
(* of them beyond 9, where SEG_LUT ends; nothing is shown to the left of   *)
(* the first digit, and zero is shown as 0.                                *)
(***************************************************************************)
DisplayShowsValue ==
    IF ~ctrl.enabled THEN \A k \in Places : hex_n[k] = SEG_BLANK
    ELSE IF overflow THEN \A k \in Places : hex_n[k] = SEG_DASH
    ELSE LET bcd == Bcd(ctrl.value)
             segs == hex_n
         IN  /\ \A k \in Places : bcd[k] \in 0 .. 9
             /\ Reading(segs)[Digits] = ctrl.value
             /\ \A k \in Places : segs[k] = SEG_BLANK <=> k > 0 /\ ctrl.value < TenTo[k]
=============================================================================
