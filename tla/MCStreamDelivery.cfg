SPECIFICATION FairSpec
CONSTANTS
    Groups <- MCGroups
    AckGuarded <- MCAckGuarded
    Payloads = {t1, t2}
    MaxLen = 2
    Batch <- MCBatchOne
    MaxFaults = 2
    reid_workers = reid_workers
    reid_sidecar_workers = reid_sidecar_workers
    t1 = t1
    t2 = t2
INVARIANTS
    NoLoss
PROPERTIES
    SettledForGood
    ImplementsAtLeastOnce
    EventuallyDelivered
CHECK_DEADLOCK FALSE
