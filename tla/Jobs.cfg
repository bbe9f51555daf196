SPECIFICATION Spec
CONSTANTS
  MomentsOfDay = 2
  DaysOfWeek = 1
  LastMoment = 4
  Anchors = {a1}
  PastDays = 1
  MaxPoints = 6
  Deployments = {{"follower"}, {"schedule"}, {"series"}}
INVARIANTS
  PastStaleOnlyByRace
  NumberOfItsDay
  Thinned
PROPERTY RecordedOnce
CHECK_DEADLOCK FALSE
