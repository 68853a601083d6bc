SPECIFICATION FairSpec
CONSTANTS
  Tracks = {t1, t2, t3}
  Slots = {1, 2}
  MaxPersons = 2
  MaxMissed = 2
  Far = 2
  Thresholds = {2, 3}
  Visitor = t1
  NULL = NULL
INVARIANTS
  OneEntryPerTrack
  EvictedInTime
PROPERTIES
  NewDetectionsFused
  NearPersonAlerts
