SPECIFICATION RacesSpec
CONSTANTS
  a1 = a1
  a2 = a2
  Consumers = {"persistence"}
  Aircraft <- TwoAircraft
  QueueSize = 1
  RemoveS = 1
  CloseS = 2
  FlushS = 2
  MaxSilence = 0
  Routes = {1}
  Severities = {}
  Airports = {1}
  ApplyMidCycle = TRUE
  CancelMidCommit = FALSE
  MaxFails = 0
  MaxRestarts = 1
  BootS = 0
  MaxNow = 2
CHECK_DEADLOCK FALSE
INVARIANTS
  OpenRowsOwned
  TracksLiveSet
PROPERTIES
  ImplementsLifecycle
