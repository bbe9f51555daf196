\* Two workers: the job and a request, or two requests.  Two new pairs: a second
\* refresh starts from the rows the first one saved.
SPECIFICATION Spec
CONSTANTS
  Workers = {w1, w2}
  None = None
  MaxPairs = 2
INVARIANTS PairKept SuccessIsSaved
PROPERTIES RoundEnds
CHECK_DEADLOCK FALSE
