--------------------------- MODULE MCCapturerStage ---------------------------
(* Small instances of CapturerStage for TLC. *)
EXTENDS CapturerStage, TLC

CONSTANTS v1, v2, i1, i2

BufferSymmetry == Permutations(Buffers) \cup Permutations(InPool)
=============================================================================
