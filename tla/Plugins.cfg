SPECIFICATION FairSpec
CONSTANTS
    Settings = {"old", "new"}
    Default = "old"
    ListenCap = 1
    LogCap = 1
    LogSize = 1
    Limits = {0, 1}
    MaxInst = 2
    MaxOps = 2
    MaxFaults = 1
INVARIANTS
    PluginsConsistent
PROPERTIES
    InstallKeepsData
    ReqAnswered
    ProcessesFollow
CHECK_DEADLOCK FALSE
