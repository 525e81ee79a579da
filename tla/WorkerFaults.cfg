SPECIFICATION FairSpec
CONSTANTS
  a1 = a1
  Consumers = {"persistence"}
  Aircraft <- OneAircraft
  QueueSize = 1
  RemoveS = 2
  CloseS = 3
  FlushS = 2
  MaxSilence = 1
  Routes = {}
  Severities = {1}
  Airports = {}
  ApplyMidCycle = FALSE
  CancelMidCommit = FALSE
  MaxFails = 1
  MaxRestarts = 1
  BootS = 0
  MaxNow = 3
CHECK_DEADLOCK FALSE
INVARIANTS
  WorkerInvariant
  
  EventsExactlyOnce
  FrameAgrees
PROPERTIES
  SeverityNeverLowered
  ImplementsLifecycle
  
