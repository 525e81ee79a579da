SPECIFICATION Spec
CONSTANTS
  a1 = a1
  Consumers = {"persistence"}
  Aircraft <- OneAircraft
  QueueSize = 1
  RemoveS = 1
  CloseS = 2
  FlushS = 2
  MaxSilence = 0
  Routes = {}
  Severities = {}
  Airports = {}
  ApplyMidCycle = FALSE
  CancelMidCommit = TRUE
  MaxFails = 0
  MaxRestarts = 1
  BootS = 0
  MaxNow = 3
CHECK_DEADLOCK FALSE
INVARIANTS
  OneOpenSighting
