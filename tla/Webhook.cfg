CONSTANTS
  MaxDeliveries = 2
  Worker = {w1, w2}
  Admin = {a1}
  MaxAttempts = 2
  Limit = 2
  MaxManual = 1
  MaxToggles = 1
  MaxCrashes = 0
  MaxOverruns = 1
SPECIFICATION Spec
SYMMETRY Symmetry
INVARIANTS TypeOK OneWorkerPosts NeverGivenUpEarly
PROPERTIES DeliveredUndisturbed
CHECK_DEADLOCK FALSE
