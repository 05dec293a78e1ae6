CONSTANTS
  MaxDeliveries = 2
  Worker = {w1}
  Admin = {a1}
  MaxAttempts = 2
  Limit = 1
  MaxManual = 1
  MaxToggles = 1
  MaxCrashes = 1
  MaxOverruns = 1
SPECIFICATION FairSpec
PROPERTIES NothingStarves
CHECK_DEADLOCK FALSE
