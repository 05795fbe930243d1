\* The frames stop coming after the driver has run out of buffers once.
CONSTANTS
    v1 = v1   v2 = v2   v3 = v3
    Buffers = {v1, v2}
    NoBuffer = NoBuffer
    MaxSessions = 1
    IgnoreResidue = FALSE
    SubmitMayFail = FALSE
    MinBuffers = 2
SPECIFICATION TimedSpec
PROPERTY DqbufUnblocked
