SPECIFICATION ContextSpec
CONSTANTS
  Flights = {"p1", "p2"}
  Callsigns = {"k1", "k2"}
  CallsignOf <- KeyOf
  Paths = {"r1", "r2"}
  Tier <- Remote
  RouteDay = 2
  Ttls = {2}
  LearnedTtl = 4
  StaleFor = 2
  Backoff = 1
  LearnAt = 1
  Threshold = 1
  Cooldown = 1
  Burst = 1
  PendingLimit = 2
  Limits = {0, 1}
  MaxRouteClock = 2
  RouteBudgets <- Spread
  QueueSize = 2
  Airframes = {"f1", "f2"}
  Visitors = {"f1"}
  Fields = {"type", "owner"}
  Order <- Names
  OwnTable = {"airports"}
  Supplies <- Dataset
  FieldRank <- RankOf
  Versions = {1, 2}
  MetadataBudgets <- ImportSpread
  MaxWrites = 2
  DirectoryBudgets <- Mishaps
  Seen <- Observations
  RemoveAfter = 1
  PhaseGrace = 2
  TrendWindow = 2
  AirBudgets <- Skies
CHECK_DEADLOCK FALSE
INVARIANTS
  
  MetadataInvariant
  DirectoryInvariant
  AirportInvariant
