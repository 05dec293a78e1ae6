CONSTANTS
  Orgs = 1
  Keys = 2
  Dispatcher = {d1, d2}
  Nobody = Nobody
  NoDraft = NoDraft
  MaxSources = 2
  PerOrg = 2
  MaxCuts = 0
  MaxOverruns = 1
  MaxActivations = 2
SPECIFICATION Spec
SYMMETRY Symmetry
INVARIANTS OneHolder ActiveIsScheduled
PROPERTIES StaleCompletionIsVoid
