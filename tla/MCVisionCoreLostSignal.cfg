\* The signal comes between the test of g_stop and pause().
CONSTANTS
    v1 = v1   v2 = v2   i1 = i1   i2 = i2   o1 = o1   o2 = o2   sobel = sobel
    Buffers = {v1}
    InPool = {i1}
    OutPool = {o1}
    NoFrame = NoFrame
    NoBuffer = NoBuffer
    Pipelines = {sobel}
    Faulty = {}
    None = None
    Partial = Partial
    Decimation = 0
    DeviceMayFail = FALSE
    Encodings = {"mjpeg"}
    MaxClients = 0
    MaxQueued = 0
    MaxPts = 0
    Marking = FALSE
    User = {"signal"}
SPECIFICATION CameraSpec
PROPERTY SignalStops
