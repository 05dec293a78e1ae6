CONSTANTS
  RecordCount = 3
  PageSize = 2
  MaxPages = 1
  Caller = {c1, c2}
  Snapshot = {s1, s2, s3, s4, s5}
  NoSnapshot = NoSnapshot
  NotAsked = NotAsked
  Nobody = Nobody
  RetireNum = 1
  RetireDen = 2
  AllowEmpty = FALSE
  MaxEdits = 1
  MaxFaults = 2
  MaxFresh = 1
SPECIFICATION Spec
SYMMETRY Symmetry
INVARIANTS TypeOK NothingSkipped
PROPERTIES RetiredWasNotOwed
