\* Three requests: two refreshes overlap while a third ends all sessions.  Three
\* pairs let a session that survived be refreshed again.
SPECIFICATION Spec
CONSTANTS
  Requests = {p1, p2, p3}
  MaxPairs = 3
  MaxEras = 2
SYMMETRY Interchangeable
INVARIANTS UsedIsDead OnePairLive EndedForGood
CHECK_DEADLOCK FALSE
