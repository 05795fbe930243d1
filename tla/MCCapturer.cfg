\* The capture thread ends on a select() or ioctl() error, and open() may fail.
CONSTANTS
    v1 = v1   v2 = v2   i1 = i1   i2 = i2
    Buffers = {v1, v2}
    InPool = {i1, i2}
    NoFrame = NoFrame
    NoBuffer = NoBuffer
    Decimation = 1
    DeviceMayFail = TRUE
SPECIFICATION FairSpec
INVARIANT NoBufferForgotten
PROPERTIES CapturedInOrder DrainedBeforeStreamoff StopCloses
CHECK_DEADLOCK FALSE
