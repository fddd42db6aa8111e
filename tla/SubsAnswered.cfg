SPECIFICATION FairSpec
CONSTANTS
    Conns = {c1}
    Worker = worker
    SubIDs = {s1, s2}
    NumEvents = 1
    Private <- NoSelector
    Busy = {}
    Filters <- AllEvents
    PageSize = 1
    PendingCap = 1
    SendCap = 1
    QueueCap = 1
    MaxSubs = 1
    MaxGen = 2
INVARIANTS OneOwner SnapshotFrames
PROPERTIES SnapshotEnds
CHECK_DEADLOCK FALSE
