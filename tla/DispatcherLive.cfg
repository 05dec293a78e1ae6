CONSTANTS
  Orgs = 2
  Keys = 2
  Dispatcher = {d1}
  Nobody = Nobody
  NoDraft = NoDraft
  MaxSources = 2
  PerOrg = 1
  MaxCuts = 1
  MaxOverruns = 0
  MaxActivations = 1
SPECIFICATION FairSpec
INVARIANTS TypeOK
PROPERTIES DueIsDispatched
