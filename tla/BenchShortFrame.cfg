\* Any load, also one that begins within a frame.
CONSTANTS
    Pixels = 4
    Garbage = 2
    ByteSize = 2
    Kinds = {"byte", "qword", "garbage"}
    NumFrames = 3
    FrameLen = 4
    WordBytes = 2
    Depth = 2
    MaxLoads = 3
SPECIFICATION Spec
INVARIANT SavedFramesComplete
