CONSTANTS
  MaxDeliveries = 1
  Worker = {w1}
  Admin = {a1}
  MaxAttempts = 2
  Limit = 1
  MaxManual = 1
  MaxToggles = 0
  MaxCrashes = 0
  MaxOverruns = 0
SPECIFICATION Spec
PROPERTIES ReplayedIsClaimable
CHECK_DEADLOCK FALSE
