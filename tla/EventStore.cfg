CONSTANTS
  a1 = a1
  a2 = a2
  b = b
  x = x
  g = g
  h = h
  r1 = r1
  r2 = r2
  c1 = c1
  c2 = c2
  up = up
  addr = addr
  Regular = Regular
  NoEvent = NoEvent
  Events = {a1, a2, b, g, h, x}
  Ephemeral = {x}
  AddrOf <- MCAddrOf
  CreatedAt <- MCCreatedAt
  IdRank <- MCIdRank
  Instances = {r1, r2}
  Single = r1
  Handlers = {c1, c2, up}
  Importers = {up}
  InstanceOf <- MCInstanceOf
  Engines = {"postgres", "sqlite"}
  Offers <- MCOffers
  ChanCap = 1
  MaxSends = 1
  MaxFaults = 1
  Absent = Absent
  PubkeyOf <- MCPubkeyOf
  KindOf <- MCKindOf
  TagsOf <- MCTagsOf
  Score <- MCScore
  Requests <- MCRequests
  PageSizes = {0, 1, 2}
  DefaultLimit = 3
  MaxSaves = 2
SPECIFICATION MCSpec
INVARIANTS
  ShownOnceStored SnapshotExact AnswersAgree
PROPERTIES
  ImplementsLatest
  ReachesEveryone
  Answered
CHECK_DEADLOCK FALSE
