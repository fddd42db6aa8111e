CONSTANTS
  a1 = a1
  a2 = a2
  b = b
  addr = addr
  Regular = Regular
  NoEvent = NoEvent
  Events = {a1, a2, b}
  Ephemeral = {}
  AddrOf <- MCAddrOf
  CreatedAt <- MCCreatedAt
  IdRank <- MCIdRank
  NumRows = 5
  TableOf <- MCTableOf
  AboutOf <- MCAboutOf
  Engines = {"turso", "postgres"}
  Old = {a1, b}
  Targets <- MCTargets
  Arrivals <- MCArrivals
  MaxCrashes = 2
  MaxJobs = 2
SPECIFICATION FairSpec
INVARIANTS
  LegacyKept
  StoreUsable
  CopyComplete
PROPERTIES
  TargetKeeps
  UpgradeEnds
CHECK_DEADLOCK FALSE
