\* Frames of four beats, three per load, from each of the generators.
CONSTANTS
    Pixels = 4
    Garbage = 2
    ByteSize = 2
    Kinds = {"byte", "qword", "garbage"}
    NumFrames = 3
    FrameLen = 4
    WordBytes = 2
    Depth = 2
    MaxLoads = 3
SPECIFICATION Spec
INVARIANTS BeatsInOrder NoDmaIntoFreed CapturedFramesWhole
