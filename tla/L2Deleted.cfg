CONSTANTS
  p1 = p1
  p2 = p2
  q = q
  d = d
  ka = ka
  kb = kb
  other = other
  w1 = w1
  w2 = w2
  wm = wm
  ws = ws
  Syncer = Syncer
  Regular = Regular
  NoEvent = NoEvent
  NoValue = NoValue
  Events = {p1, p2, q, d}
  Ephemeral = {}
  Products = {p1, p2, q}
  Deletions = {d}
  AddrOf <- MCAddrOf
  CreatedAt <- MCCreatedAt
  IdRank <- MCIdRank
  Author <- MCAuthor
  DeleteTags <- MCDeleteTags
  Tags <- MCTags
  Json <- MCJson
  CurrencyRank <- MCCurrencyRank
  AllowMixedCurrencySort = FALSE
  MaxQueryLimit = 2
  DefaultQueryLimit = 1
  Handlers = {ws, Syncer}
  Plans <- MCPlans
  SeedLimit = 2
  MaxSends <- MCMaxSends
  MaxFaults = 1
  Keys = {ka, kb}
  Malformed = Malformed
  Wraps = {w1, w2, wm}
  PTags <- MCPTags
  Conns = {1}
  Modes = {"enforce", "challenge-only"}
  Requests <- MCRequests
  NoKey = NoKey
  Absent = Absent
  NoRequest = NoRequest
  MaxAuths = 2
SPECIFICATION Spec
INVARIANTS
  DeletedHidden
CHECK_DEADLOCK FALSE
