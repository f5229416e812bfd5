SPECIFICATION SeedSpec
CONSTANTS
    MaxEdits = 1
    MaxSeedFaults = 1
INVARIANTS
    WarmRestartIsQuiet
CHECK_DEADLOCK FALSE
