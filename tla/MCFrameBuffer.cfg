\* Two threads on each side compete for the frames and for notify_one().
CONSTANTS
    p1 = p1   p2 = p2   c1 = c1   c2 = c2
    Size = 2
    Producers = {p1, p2}
    Consumers = {c1, c2}
    NoThread = NoThread
SPECIFICATION FairSpec
INVARIANTS FramesInOnePlace QueueNeverFull ExhaustedOnlyIfNoneFree NoLostWakeup
PROPERTIES ImplementsChannel ForceNotifyStopsConsumers
