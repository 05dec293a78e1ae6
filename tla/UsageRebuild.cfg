SPECIFICATION UsageSpec
CONSTANTS
  Buckets = {b1}
  NoRebuild = NoRebuild
  MaxRecords = 3
  MaxRebuilds = 1
PROPERTY RebuildRestores
CHECK_DEADLOCK FALSE
