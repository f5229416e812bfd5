SPECIFICATION FairServicesSpec
CONSTANTS
    Detections <- MCDetections
    Invalid <- MCInvalid
    Copies = 4
    Count = 2
    QueueSize = 2
    MaxFaults = 3
    d1 = d1
    d2 = d2
    bad = bad
    MaxOffers = 2
    PublishQueue = 2
    MaxAttempts = 2
    RetryThreads = {r1, r2}
    MaxOutages = 2
    MaxEdits = 2
    MaxSeedFaults = 2
    FrameQueue = 2
    TrackIds = {1, 2}
    MaxCaptured = 3
    MaxChildFaults = 2
    MaxBenchmarks = 2
    MaxGateFaults = 1
    MaxLifeFaults = 2
    Streams = {c1, c2}
    HealthRequests = {q1, q2}
    CacheTTL = 3
    ProbeTimeout = 2
    MaxHealthTime = 6
    Identities = {g1, g2}
    Window = 1
    MaxLateness = 2
    MaxRetentionTime = 4
    MaxRetentionFaults = 1
    MaxCrops = 2
    RingSize = 2
    MaxStored = 3
    MaxRingFrames = 4
    MaxVisits = 2
INVARIANTS
    NoSilentLoss
    RepeatsAreFaults
    PayloadsAccounted
    ArrivalsInOrder
    SkippedRowsAreFaults
    FrameLinksHold
    GateIsSound
    ChildrenAreStopped
    CrashIsNotMasked
    AnswersAreRecent
    RevivedWereLate
    NothingIsInvented
    PointsAreOwn
PROPERTIES
    EventuallyTaken
    SignalIsHeeded
CHECK_DEADLOCK FALSE
