SPECIFICATION RollupsOnly
CONSTANTS
  Feeders = {"feeder"}
  Readings = {"up", "down", "unknown"}
  DownDebounce = 2
  SampleEvery = 2
  FlushEvery = 2
  KeepFor = 2
  MaxPending = 2
  MaxFeederClock = 6
  MaxCrashes = 0
  MaxFeederFaults = 0
  MaxSaves = 0
  DownAfter = 2
  BackoffMax = 2
  Normal = 10
  SharePct = 40
  Rates = {3, 4, 5}
  Minutes <- EachOne
  Hold <- EachOne
  MaxMonitorClock = 5
  MonitorBudgets <- Disturbed
  HourLen = 2
  DayLen = 4
  Window = 8
  MaxGap = 2
  FlushAfter = 2
  MaintainEvery = 2
  MaxBuffered = 3
  Zones = {"utc", "east"}
  Offset <- ZoneOffset
  MaxMetricsClock = 11
  MaxDown = 1
  MaxCall = 1
  MaxStops = 1
  MaxMetricsFaults = 1
  MaxZoneSaves = 1
  Visits = {1}
  ClockZones = {"utc", "east"}
  Ahead <- ZoneAhead
  DayTicks = 2
  MaxRollover = 2
  MaxBackfill = 9
  MaxRollupClock = 6
  RollupBudgets <- FailedBoot
CHECK_DEADLOCK FALSE
PROPERTIES
  NextBootRepairs
