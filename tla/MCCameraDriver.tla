--------------------------- MODULE MCCameraDriver ---------------------------
(* Small instances of CameraDriver for TLC. *)
EXTENDS CameraDriver, TLC

CONSTANTS v1, v2, v3

BufferSymmetry == Permutations(Buffers)
=============================================================================
