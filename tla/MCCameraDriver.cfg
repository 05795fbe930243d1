\* Two streaming sessions; the DMA may refuse a buffer.
CONSTANTS
    v1 = v1   v2 = v2   v3 = v3
    Buffers = {v1, v2}
    NoBuffer = NoBuffer
    MaxSessions = 2
    IgnoreResidue = FALSE
    SubmitMayFail = TRUE
    MinBuffers = 2
SPECIFICATION FairSpec
INVARIANTS DriverBuffersAccounted DmaWritesActiveOnly StopLeavesNothing
           ActiveIsUnderWay ShortFramesDiscarded
PROPERTIES StreamOffReturns WatchdogUnblocks
