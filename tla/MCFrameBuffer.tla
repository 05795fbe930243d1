---------------------------- MODULE MCFrameBuffer ----------------------------
(* Small instances of FrameBuffer for TLC. *)
EXTENDS FrameBuffer, TLC

CONSTANTS p1, p2, c1, c2

\* Frames are numbered and scanned in order: only the threads are symmetric.
ThreadSymmetry == Permutations(Producers) \cup Permutations(Consumers)
=============================================================================
