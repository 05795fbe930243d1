\* The filter of pipeline awb throws on every frame.
CONSTANTS
    InPool = {i1, i2}
    OutPool = {o1, o2}
    Pipelines = {awb, sobel}
    Faulty = {awb}
    None = None
    Partial = Partial
    NoFrame = NoFrame
SPECIFICATION FairSpec
INVARIANTS TypeOK HeldFramesAreOwn
PROPERTY StopEndsThread
