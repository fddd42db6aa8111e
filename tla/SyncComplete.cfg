SPECIFICATION Spec
CONSTANTS
    Events = {1, 2, 3, 4}
    At <- FourAt
    Addr <- FourAddr
    Bad = {}
    Deletions = {3}
    Relays = {"r1"}
    Holds <- OneHolds
    FetchLimit = 2
    Window = 4
    Since = 1
    Lookback = 1
    MaxTime = 5
    MaxCrashes = 0
    MaxFaults = 0
INVARIANTS BackfillComplete
CHECK_DEADLOCK FALSE
