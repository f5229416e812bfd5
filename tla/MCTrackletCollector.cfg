SPECIFICATION FairSpec
CONSTANTS
    Keys = {k1, k2}
    MaxAge <- MCMaxAge
    MinFrames = 2
    MaxLag = 1
    Horizon = 1
    MaxTracklets = 3
    MaxFaults = 1
INVARIANTS
    InOnePlace
    UnannouncedAreFaults
PROPERTIES
    EventuallyClosed
CHECK_DEADLOCK FALSE
