CONSTANTS
    OutPool = {o1, o2, o3}
    NoFrame = NoFrame
    Encodings = {"raw", "mjpeg"}
    MaxClients = 2
    MaxQueued = 3
    MaxPts = 4
SPECIFICATION FairSpec
INVARIANTS PoppedFramesAccounted TimestampsIncrease
PROPERTIES StopReturns PoolRecovers
