\* Three requests: one can expire under a second while a third arrives.
SPECIFICATION FairSpec
CONSTANTS
  Requests = {r1, r2, r3}
  MaxChunks = 1
  RedisFails = TRUE
INVARIANTS RowIsOnePrefix ExclusiveUnlessLapsed DoneIsSaved
PROPERTIES LockComesBack
CHECK_DEADLOCK FALSE
