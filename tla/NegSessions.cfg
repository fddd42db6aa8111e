SPECIFICATION FairSpec
CONSTANTS
    Conns = {c1, c2}
    SubIDs = {s1}
    MaxSessions = 1
    QueueCap = 1
    MaxOpens = 2
    MaxMsgs = 2
INVARIANTS SlotsExact AnswersInOrder
PROPERTIES OnlyOwnEnds SlotReleased
CHECK_DEADLOCK FALSE
