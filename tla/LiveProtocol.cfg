SPECIFICATION LiveSpec
CONSTANTS
  a1 = a1
  ws = ws
  t1 = t1
  Aircraft <- OneAircraft
  Clients <- OneClient
  Consumers <- OnlySocket
  Socket = ws
  QueueSize = 2
  StaleS = 1
  RemoveS = 2
  SweepEvery = 1
  ReportsAge = TRUE
  BootS = 0
  MaxNow = 2
  ClientQueue = 2
  WireSize = 1
  PingEvery = 1
  MissedPingLimit = 1
  SeqModulus = 4
  MaxFaults = 1
  Lossy = TRUE
  RestAnswers = FALSE
  Detections = FALSE
CHECK_DEADLOCK FALSE
INVARIANTS
  LiveTypeOK
  PictureAgrees
  NoSequenceGap
  OutageCovered
