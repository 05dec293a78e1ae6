SPECIFICATION PlatformSpec
CONSTANTS
  Permits = {p1, p2, p3}
  Brands = {"b"}
  Teams = {"t"}
  Addrs = {1, 2}
  Filings <- BrandFilings
  NoTeam = NoTeam
  NoFiling = NoFiling
  NoJob = NoJob
  MaxJobs = 4
  MaxReviews = 2
  MaxDesks = 2
  Plans = {q1}
  Papers = {k1, k2}
  Sayings <- LinkSayings
  NoRef = NoRef
  NoCity = NoCity
  Unsaid = Unsaid
  NoWork = NoWork
  MaxLinkJobs = 5
  ResetTokens = {t1}
  MaxRequests = 4
  MaxInFlight = 2
  Orgs = {o1, o2}
  Users = {u1, u2, u3}
  MaxMemberJobs = 2
  Buckets = {b1, b2}
  NoRebuild = NoRebuild
  MaxRecords = 4
  MaxRebuilds = 2
  Contents <- TimelineContents
  Methods = {m1, m2}
  NoValue = NoValue
  MaxPolls = 4
  MaxMerges = 1
  SearchHits = {h1, h2}
  MaxCaseJobs = 4
  MaxCaseDesks = 2
  MaxDeals = 2
  Analysts = {a1, a2}
  NoAnalyst = NoAnalyst
  MaxReleaseJobs = 5
  Tracts = {x1, x2}
  SheetSayings <- ParcelSheets
  TractSayings <- ParcelTracts
  NotActive = NotActive
  NoAddr = NoAddr
  MaxForms = 2
  MaxRewrites = 6
  Folders = {f1, f2}
  PartyNames = {"n", "o"}
  Mentions <- EntityMentions
  NoMention = NoMention
  NoNaming = NoNaming
  MaxEntities = 3
  MaxNamings = 4
  MaxJoins = 2
  MaxAttempts = 3
  MaxLogins = 8
  MaxAtOnce = 3
  Persons = {w1, w2}
  Demo = Demo
  NoUser = NoUser
  MaxClicks = 3
  Connectors = {"window", "socrata", "listing", "cached", "verified"}
  Entries = {1, 2, 3, 4, 5, 6}
  FirstList <- PagingList
  PageSize = 2
  MaxPages = 2
  NoList = NoList
  MaxChanges = 2
  MaxTrips = 1
SYMMETRY PermitSymmetry
INVARIANTS
  PlatformTypeOK
  FingerprintsRestOnNames
  EdgesFollowTheFiling
  LinkedInEitherOrder
  AcceptedUntilRevoked
  TimelineIsTheHistory
  EventsFollowTheRecord
  OneOpportunityPerParcel
  ReleasedOnLatestApproval
  RelatedToOneParty
  SpeaksForWhoSignedIn
  PassedOverOnlyByWithdrawals
PROPERTIES
  VerdictFallsOnlyBlindly
  OnlyStaleWritersBreakEnrolment
  OrphanedOnlyByAStaleCount
  RollupsFollowEvents
  AcceptedOnWhatWasSeen
  FrozenButForTheLate
CHECK_DEADLOCK FALSE
