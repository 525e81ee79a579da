SPECIFICATION FairNoticesSpec
CONSTANTS
  p1 = p1
  q1 = q1
  q2 = q2
  QueueSize = 2
  Planes <- OnePlane
  MaxRuleId = 1
  MaxSightings = 1
  MaxShows = 1
  MaxFaults = 1
  MaxEdits = 2
  MaxEnds = 0
  MaxVisits = 1
  Catalogue = 2
  Requests <- TwoRequests
  MaxRules = 2
  MaxWork = 0
  MaxBoots = 0
  MaxRuleFaults = 0
  Airframes = {"f1", "f2"}
  Type <- TypeA
  Military = {"f2"}
  Thresholds = {2}
  ScanLimit = 1
  MaxSeen = 2
  MaxLength = 1
  MaxRange = 1
  MaxGiven = 0
  MaxFeedEnds = 0
  MaxFeedFaults = 1
CHECK_DEADLOCK FALSE
PROPERTIES
  MatchIsRecorded
  NewAirframeIsAnnounced
