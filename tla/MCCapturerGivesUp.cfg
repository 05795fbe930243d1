\* 100 ms without a frame end the drain before its work is done.
CONSTANTS
    v1 = v1   v2 = v2   i1 = i1   i2 = i2
    Buffers = {v1, v2}
    InPool = {i1, i2}
    NoFrame = NoFrame
    NoBuffer = NoBuffer
    Decimation = 1
    DeviceMayFail = FALSE
SPECIFICATION FairSpec
PROPERTY NeverOffWhileOwned
CHECK_DEADLOCK FALSE
