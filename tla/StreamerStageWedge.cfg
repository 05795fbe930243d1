\* Timestamps are left out, so nothing bounds how many frames are produced.
CONSTANTS
    OutPool = {o1, o2}
    NoFrame = NoFrame
    Encodings = {"raw"}
    MaxClients = 1
    MaxQueued = 2
    MaxPts = 0
SPECIFICATION FairSpec
PROPERTY LentFramesComeBack
