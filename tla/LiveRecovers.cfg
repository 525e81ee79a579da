SPECIFICATION LiveFairSpec
CONSTANTS
  a1 = a1
  ws = ws
  t1 = t1
  Aircraft <- OneAircraft
  Clients <- OneClient
  Consumers <- OnlySocket
  Socket = ws
  QueueSize = 1
  StaleS = 1
  RemoveS = 2
  SweepEvery = 1
  ReportsAge = TRUE
  BootS = 0
  MaxNow = 1
  ClientQueue = 1
  WireSize = 1
  PingEvery = 9
  MissedPingLimit = 1
  SeqModulus = 3
  MaxFaults = 1
  Lossy = FALSE
  RestAnswers = TRUE
  Detections = TRUE
CHECK_DEADLOCK FALSE
PROPERTIES
  LiveNeverOlder
  TabRecovers
