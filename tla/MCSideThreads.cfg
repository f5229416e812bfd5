SPECIFICATION FairSideSpec
CONSTANTS
    Pairs = {p1, p2}
    MaxOpen = 1
    DwellBatch = 2
    MaxZoneLag = 1
    DwellHorizon = 3
    MaxZoneEvents = 2
    MaxDwellFaults = 1
    OverlayCams = {c1, c2}
    Tracks = {1, 2}
    Gids = {1, 2}
    TTL = 1
    OverlayHorizon = 3
    MaxDecisions = 2
    MaxOverlayFaults = 1
    QueueSize = 2
    MaxFrames = 6
    MaxOutages = 3
    Cams = {c1, c2}
    MaxRestarts = 1
    MaxExits = 1
    MaxReconnect = 2
    MaxSpawns = 4
INVARIANTS
    SessionsHaveRows
    RepeatedRowsAreFaults
    OwnDecisionWins
    LabelsAreLocalAndFresh
    FramesInOrder
    DropsAreCounted
    OwnCamera
    NoChildLeftBehind
    NoStrayChild
PROPERTIES
    StopEndsLoops
    RecoversOnceOpened
    StallIsHandled
CHECK_DEADLOCK FALSE
