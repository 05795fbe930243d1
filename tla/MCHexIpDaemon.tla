---------------------------- MODULE MCHexIpDaemon ----------------------------
(* Small instances of HexIpDaemon for TLC. *)
EXTENDS HexIpDaemon

\* Two addresses with an octet in common, one of them repeated within it.
MCAddresses == {<<192, 168, 1, 1>>, <<10, 0, 255, 1>>}

\* Every value of up to three digits (and some more), what the steps between numbers of digits
\* and the end of the range are made of, and the display switched off.
MCValues == (0 .. 2047)
    \cup UNION {{d * 10 ^ k - 1, d * 10 ^ k, d * 10 ^ k + 1} : d \in 1 .. 9, k \in 3 .. 5}
    \cup {123456, 987654, 555555, 999998, 999999, 1000000, 1000001, 2 ^ 20 - 1}
MCPokes == {[enabled |-> TRUE, value |-> n] : n \in MCValues}
           \cup {[enabled |-> FALSE, value |-> 123456]}
=============================================================================
