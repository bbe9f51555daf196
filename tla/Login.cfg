SPECIFICATION Spec
CONSTANTS
  Clients = {c1, c2}
  Puzzles = {p1}
  MaxTokens = 2
  Sessions = {s1}
  NoKey = NoKey
INVARIANTS
  OneUsePerPuzzle
  KeyAgrees
  KeyFades
CHECK_DEADLOCK FALSE
