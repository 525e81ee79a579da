SPECIFICATION Spec
CONSTANTS
  a1 = a1
  a2 = a2
  c1 = c1
  Aircraft <- MCAircraft
  Consumers <- MCConsumers
  QueueSize = 2
  StaleS = 1
  RemoveS = 2
  SweepEvery = 1
  ReportsAge = TRUE
  BootS = 2
  MaxNow = 5
SYMMETRY Symmetric
CHECK_DEADLOCK FALSE
INVARIANTS
  TypeOK
  NoGhosts
  StaleMeansSilent
  LastEventAgrees
PROPERTIES
  ReentryNeedsContact
  ImplementsFeed
