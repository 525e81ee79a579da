SPECIFICATION StationSpec
CONSTANTS
  Feeders = {"feeder"}
  Readings = {"up", "down", "unknown"}
  DownDebounce = 2
  SampleEvery = 2
  FlushEvery = 2
  KeepFor = 2
  MaxPending = 2
  MaxFeederClock = 4
  MaxCrashes = 1
  MaxFeederFaults = 1
  MaxSaves = 2
  DownAfter = 2
  BackoffMax = 2
  Normal = 10
  SharePct = 40
  Rates = {3, 4, 5}
  Minutes <- EachOne
  Hold <- EachOne
  MaxMonitorClock = 5
  MonitorBudgets <- Disturbed
  HourLen = 2
  DayLen = 4
  Window = 8
  MaxGap = 2
  FlushAfter = 2
  MaintainEvery = 2
  MaxBuffered = 3
  Zones = {"utc", "east"}
  Offset <- ZoneOffset
  MaxMetricsClock = 11
  MaxDown = 1
  MaxCall = 1
  MaxStops = 1
  MaxMetricsFaults = 1
  MaxZoneSaves = 1
  Visits = {1}
  ClockZones = {"utc", "east"}
  Ahead <- ZoneAhead
  DayTicks = 2
  MaxRollover = 2
  MaxBackfill = 2
  MaxRollupClock = 5
  RollupBudgets <- TwoTroubles
CHECK_DEADLOCK FALSE
INVARIANTS
  FeederInvariant
  MonitorInvariant
  MetricsInvariant
  RollupInvariant
PROPERTIES
  RaiseIsContinuous
  RestoreIsEarned
  
