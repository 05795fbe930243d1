---------------------------- MODULE MCVisionCore ----------------------------
(* Small instances of VisionCore for TLC. *)
EXTENDS VisionCore, TLC

CONSTANTS v1, v2, i1, i2, o1, o2, sobel

\* Where nobody types or sends a signal, main() starts the UI, tests g_stop and
\* enters pause() before anything else happens: no other step reads or is kept
\* from anything by these.
PausesAtOnce == mainPc \in {"start ui", "check", "call pause"} => mainPc' # mainPc

PoolSymmetry == Permutations(Buffers) \cup Permutations(InPool) \cup Permutations(OutPool)
=============================================================================
