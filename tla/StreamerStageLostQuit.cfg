\* stop() comes before the loop's thread has reached g_main_loop_run().
CONSTANTS
    OutPool = {o1, o2}
    NoFrame = NoFrame
    Encodings = {"mjpeg"}
    MaxClients = 1
    MaxQueued = 1
    MaxPts = 0
SPECIFICATION FairSpec
PROPERTY StopJoins
