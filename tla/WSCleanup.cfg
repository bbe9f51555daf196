SPECIFICATION ManagerSpec
CONSTANTS
  Clients = {c1}
  MaxRetry = 1
  MaxAttempts = 1
PROPERTIES CleanupSparesRecovering
CHECK_DEADLOCK FALSE
