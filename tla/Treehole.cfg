\* Two requests and the job on the topics, so that they interfere as much as they
\* can; one submission judged and read again and again; a walk through two.
SPECIFICATION NavFairSpec
CONSTANTS
  p1 = p1
  p2 = p2
  Staff <- MCStaff
  Submissions = {1, 2}
  MaxActive = 1
  MaxTopics = 2
  Crews <- MCCrews
INVARIANTS CountStaleOnlyByRace PageStaleOnlyByRace LimitUnlessRaced SkippedOnlyByRemoval
PROPERTIES JobSparesOpen ExpiredIsClosed FadesOut
CHECK_DEADLOCK FALSE
