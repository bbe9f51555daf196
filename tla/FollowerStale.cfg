SPECIFICATION NumSpec
CONSTANTS
  MomentsOfDay = 2
  DaysOfWeek = 1
  LastMoment = 3
  Anchors = {a1}
  PastDays = 1
INVARIANT LatestIsCleared
CHECK_DEADLOCK FALSE
