\* The module parameter ignore_residue is set.
CONSTANTS
    v1 = v1   v2 = v2   v3 = v3
    Buffers = {v1, v2}
    NoBuffer = NoBuffer
    MaxSessions = 1
    IgnoreResidue = TRUE
    SubmitMayFail = FALSE
    MinBuffers = 2
SPECIFICATION Spec
INVARIANT ShortFramesDiscarded
