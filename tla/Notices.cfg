SPECIFICATION NoticesSpec
CONSTANTS
  p1 = p1
  q1 = q1
  q2 = q2
  QueueSize = 2
  Planes <- OnePlane
  MaxRuleId = 1
  MaxSightings = 2
  MaxShows = 0
  MaxFaults = 1
  MaxEdits = 1
  MaxEnds = 1
  MaxVisits = 2
  Catalogue = 2
  Requests <- TwoRequests
  MaxRules = 2
  MaxWork = 3
  MaxBoots = 1
  MaxRuleFaults = 1
  Airframes = {"f1", "f2"}
  Type <- TypeA
  Military = {"f2"}
  Thresholds = {2}
  ScanLimit = 1
  MaxSeen = 2
  MaxLength = 1
  MaxRange = 0
  MaxGiven = 1
  MaxFeedEnds = 1
  MaxFeedFaults = 1
SYMMETRY Symmetric
CHECK_DEADLOCK FALSE
INVARIANTS
  
  RulesInvariant
  FeedInvariant
PROPERTIES
  AnnouncedOnce
  PublishedOnce
