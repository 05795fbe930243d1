\* The real display (20 bits, six digits); one step of the clock.
CONSTANTS
    Width = 20
    Digits = 6
    Addresses <- MCAddresses
    None = None
    Pokes <- MCPokes
    Back = 2
    MaxSteps = 1
SPECIFICATION FairSpec
INVARIANTS DisplayShowsValue OffAfterExit
PROPERTIES SweepsAreFresh DisplayFollowsInterface
