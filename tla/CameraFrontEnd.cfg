\* Frames of four bytes into a FIFO of three beats, one less than a frame.
CONSTANTS
    FrameSize = 4
    Depth = 3
    DropCounts = 3
SPECIFICATION FairSpec
INVARIANT ResetReachesInterface
PROPERTIES FullPacketsAreFrames FramesComeAgain
