SPECIFICATION Spec
CONSTANTS
  Workers = {w1}
  None = None
  MaxPairs = 1
INVARIANTS MarkedIsRefreshed
CHECK_DEADLOCK FALSE
