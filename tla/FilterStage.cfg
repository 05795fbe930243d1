\* Raw Bayer images of the OV7670, written to frames of CV_8UC3; one of the four
\* sequences throws on them.
CONSTANTS
    InPool = {i1, i2}
    OutPool = {o1, o2}
    Pipelines <- UserSequences
    Faulty <- Throwing
    None <- NoFilters
    Partial = Partial
    NoFrame = NoFrame
    Camera = "ov7670"
    Format = "bgr8"
SPECIFICATION FairSpec
INVARIANTS PipelineNeverTorn CommittedIsActive OnlyUserFiltersThrow
PROPERTY CommitReturns
