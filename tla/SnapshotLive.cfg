CONSTANTS
  RecordCount = 3
  PageSize = 2
  MaxPages = 1
  Caller = {c1}
  Snapshot = {s1, s2, s3, s4}
  NoSnapshot = NoSnapshot
  NotAsked = NotAsked
  Nobody = Nobody
  RetireNum = 2
  RetireDen = 2
  AllowEmpty = TRUE
  MaxEdits = 2
  MaxFaults = 1
  MaxFresh = 1
SPECIFICATION FairSpec
PROPERTIES Converges
