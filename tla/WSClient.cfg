\* One client is enough: the clients share nothing.  Three retries give four
\* generations of connections.
SPECIFICATION FairSpec
CONSTANTS
  Clients = {c1}
  MaxRetry = 3
INVARIANTS SingleDriver NeverOrphaned NothingLeaks HeartbeatCovers RetryBudget
PROPERTIES CloseQuiesces ImplementsLink
CHECK_DEADLOCK FALSE
