SPECIFICATION Spec
CONSTANTS
    Conns = {c1}
    Worker = worker
    SubIDs = {s1}
    NumEvents = 3
    Private <- FirstTwo
    Busy = {c1}
    Filters <- PerKind
    PageSize = 1
    PendingCap = 1
    SendCap = 2
    QueueCap = 1
    MaxSubs = 1
    MaxGen = 1
INVARIANTS LiveAfterEOSE NoGap ClosedIsFinal PrivateOnlyToRecipient
CHECK_DEADLOCK FALSE
