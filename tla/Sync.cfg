SPECIFICATION FairSpec
CONSTANTS
    Events = {1, 2}
    At <- TwoAt
    Addr <- TwoAddr
    Bad = {}
    Deletions = {}
    Relays = {"r1", "r2"}
    Holds <- TwoHold
    FetchLimit = 1
    Window = 2
    Since = 1
    Lookback = 1
    MaxTime = 5
    MaxCrashes = 1
    MaxFaults = 1
INVARIANTS WatermarkSound
PROPERTIES
    SyncProgress
    NeverOlder
CHECK_DEADLOCK FALSE
