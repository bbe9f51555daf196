\* Two rooms; two start-up rounds; one retry per client.
SPECIFICATION ManagerFairSpec
CONSTANTS
  Clients = {c1, c2}
  MaxRetry = 1
  MaxAttempts = 2
INVARIANTS OwnedOrClosed
PROPERTIES LifelessIsDropped
CHECK_DEADLOCK FALSE
