\* Two marked images travel from the camera to a client; the camera may fail.
CONSTANTS
    v1 = v1   v2 = v2   i1 = i1   i2 = i2   o1 = o1   o2 = o2   sobel = sobel
    Buffers = {v1}
    InPool = {i1}
    OutPool = {o1, o2}
    NoFrame = NoFrame
    NoBuffer = NoBuffer
    Pipelines = {sobel}
    Faulty = {}
    None = None
    Partial = Partial
    Decimation = 0
    DeviceMayFail = TRUE
    Encodings = {"raw"}
    MaxClients = 1
    MaxQueued = 2
    MaxPts = 0
    Marking = TRUE
    User = {}
SPECIFICATION Spec
SYMMETRY PoolSymmetry
ACTION_CONSTRAINT PausesAtOnce
INVARIANTS FramesHaveOneUser
PROPERTIES StreamedInOrder
