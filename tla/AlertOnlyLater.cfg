SPECIFICATION AlertSpec
CONSTANTS
  QueueSize = 2
  Planes = {p1}
  MaxRuleId = 1
  MaxSightings = 1
  MaxShows = 1
  MaxFaults = 1
  MaxEdits = 1
  MaxEnds = 0
  MaxVisits = 1
CHECK_DEADLOCK FALSE
PROPERTIES
  AlertIsOnlyLater
