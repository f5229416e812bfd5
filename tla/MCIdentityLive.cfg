SPECIFICATION FairSpec
CONSTANTS
    A = A
    B = B
    t1 = t1
    t2 = t2
    t3 = t3
    Cameras <- MCCameras
    Tracklets <- MCTracklets
    Links <- MCLinks
    Decay <- MCDecay
    Scenes <- MCScenesLive
    Quality = 50
    AutoMatch = 82
    Candidate = 72
    Stage3AutoMatch = 92
    AmbiguousMargin = 4
    ReidOverride = 95
    Crops = 2
    TopK = 4
    MaxTime = 1
    MaxFaults = 1
PROPERTIES
    EventuallyDecided
CHECK_DEADLOCK FALSE
