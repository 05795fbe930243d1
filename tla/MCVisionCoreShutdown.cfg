\* A client comes and goes; the user types sequences and sends a signal.
CONSTANTS
    v1 = v1   v2 = v2   i1 = i1   i2 = i2   o1 = o1   o2 = o2   sobel = sobel
    Buffers = {v1}
    InPool = {i1}
    OutPool = {o1}
    NoFrame = NoFrame
    NoBuffer = NoBuffer
    Pipelines = {}
    Faulty = {}
    None = None
    Partial = Partial
    Decimation = 0
    DeviceMayFail = FALSE
    Encodings = {"raw"}
    MaxClients = 1
    MaxQueued = 1
    MaxPts = 0
    Marking = FALSE
    User = {"type", "signal"}
SPECIFICATION CameraSpec
INVARIANT ThreadsOutlived
PROPERTY SignalAgainStops
