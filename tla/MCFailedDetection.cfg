SPECIFICATION FairSpec
CONSTANTS
    Detections <- MCDetections
    Invalid <- MCInvalid
    Copies = 3
    Count = 2
    QueueSize = 2
    MaxFaults = 2
    d1 = d1
    d2 = d2
    bad = bad
PROPERTIES
    FailedIsRetried
