SPECIFICATION Spec
CONSTANTS
    A = A
    B = B
    t1 = t1
    t2 = t2
    t3 = t3
    Cameras <- MCCameras
    Tracklets <- MCTracklets
    Links <- MCLinks
    Decay <- MCDecay
    Scenes <- MCScenes
    Quality = 50
    AutoMatch = 82
    Candidate = 72
    Stage3AutoMatch = 92
    AmbiguousMargin = 4
    ReidOverride = 95
    Crops = 2
    TopK = 4
    MaxTime = 2
    MaxFaults = 0
INVARIANTS
    AmbiguousNotMerged
CHECK_DEADLOCK FALSE
