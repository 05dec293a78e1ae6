SPECIFICATION BrandSerialSpec
CONSTANTS
  Permits = {p1, p2}
  Brands = {"b"}
  Teams = {"t"}
  Addrs = {1, 2}
  Filings <- BrandFilings
  NoTeam = NoTeam
  NoFiling = NoFiling
  NoJob = NoJob
  MaxJobs = 3
  MaxReviews = 2
  MaxDesks = 1
INVARIANT RetiredNotTraining
CHECK_DEADLOCK FALSE
