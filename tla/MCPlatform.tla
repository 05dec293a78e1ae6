----------------------------- MODULE MCPlatform -----------------------------
(* One run for the components that share no variable with each other: their  *)
(* product has no behaviour that they do not have one by one, so each        *)
(* behaviour is one component's, chosen at the start, and the others rest.   *)
EXTENDS MCBrand, MCLinks, UserSessions, OrgMembers, ApiUsage, MCTimeline, Acquisition,
        Publication, MCParcel, MCEntity, Lockout, BrowserSession, OffsetPaging, TLC

VARIABLE scene

platformVars ==
  <<scene, brandVars, linkVars, sessionVars, memberVars, usageVars, timelineVars, caseVars, releaseVars, tractVars, entityVars, lockoutVars,
    browserVars, pagingVars>>

PlatformInit ==
  /\ scene \in {"brand", "links", "sessions", "members", "usage", "timeline", "case", "release", "tract", "entity", "lockout",
               "browser", "paging"}
  /\ BrandInit
  /\ LinkInit
  /\ SessionInit
  /\ MemberInit
  /\ UsageInit
  /\ TimelineInit
  /\ CaseInit
  /\ ReleaseInit
  /\ TractInit
  /\ EntityInit
  /\ LockoutInit
  /\ BrowserInit
  /\ PagingInit
  /\ scene # "browser" => jar = NoUser
  /\ scene # "paging" => connector = "window"
  /\ scene # "release" => author = CHOOSE a \in Analysts : TRUE

BrandMoves ==
  /\ scene = "brand" /\ BrandNext
  /\ UNCHANGED <<scene, linkVars, sessionVars, memberVars, usageVars, timelineVars,
                 caseVars, releaseVars, tractVars, entityVars, lockoutVars, browserVars, pagingVars>>

LinkMoves ==
  /\ scene = "links" /\ LinkNext
  /\ UNCHANGED <<scene, brandVars, sessionVars, memberVars, usageVars, timelineVars,
                 caseVars, releaseVars, tractVars, entityVars, lockoutVars, browserVars, pagingVars>>

SessionMoves ==
  /\ scene = "sessions" /\ SessionNext
  /\ UNCHANGED <<scene, brandVars, linkVars, memberVars, usageVars, timelineVars,
                 caseVars, releaseVars, tractVars, entityVars, lockoutVars, browserVars, pagingVars>>

MemberMoves ==
  /\ scene = "members" /\ MemberNext
  /\ UNCHANGED <<scene, brandVars, linkVars, sessionVars, usageVars, timelineVars,
                 caseVars, releaseVars, tractVars, entityVars, lockoutVars, browserVars, pagingVars>>

UsageMoves ==
  /\ scene = "usage" /\ UsageNext
  /\ UNCHANGED <<scene, brandVars, linkVars, sessionVars, memberVars, timelineVars,
                 caseVars, releaseVars, tractVars, entityVars, lockoutVars, browserVars, pagingVars>>

TimelineMoves ==
  /\ scene = "timeline" /\ TimelineNext
  /\ UNCHANGED <<scene, brandVars, linkVars, sessionVars, memberVars, usageVars,
                 caseVars, releaseVars, tractVars, entityVars, lockoutVars, browserVars, pagingVars>>

CaseMoves ==
  /\ scene = "case" /\ CaseNext
  /\ UNCHANGED <<scene, brandVars, linkVars, sessionVars, memberVars, usageVars,
                 timelineVars, releaseVars, tractVars, entityVars, lockoutVars, browserVars, pagingVars>>

ReleaseMoves ==
  /\ scene = "release" /\ ReleaseNext
  /\ UNCHANGED <<scene, brandVars, linkVars, sessionVars, memberVars, usageVars,
                 timelineVars, caseVars, tractVars, entityVars, lockoutVars, browserVars, pagingVars>>

TractMoves ==
  /\ scene = "tract" /\ TractNext
  /\ UNCHANGED <<scene, brandVars, linkVars, sessionVars, memberVars, usageVars,
                 timelineVars, caseVars, releaseVars, entityVars, lockoutVars, browserVars, pagingVars>>

EntityMoves ==
  /\ scene = "entity" /\ EntityNext
  /\ UNCHANGED <<scene, brandVars, linkVars, sessionVars, memberVars, usageVars,
                 timelineVars, caseVars, releaseVars, tractVars, lockoutVars, browserVars, pagingVars>>

LockoutMoves ==
  /\ scene = "lockout" /\ LockoutNext
  /\ UNCHANGED <<scene, brandVars, linkVars, sessionVars, memberVars, usageVars,
                 timelineVars, caseVars, releaseVars, tractVars, entityVars, browserVars, pagingVars>>

BrowserMoves ==
  /\ scene = "browser" /\ BrowserNext
  /\ UNCHANGED <<scene, brandVars, linkVars, sessionVars, memberVars, usageVars, timelineVars,
                 caseVars, releaseVars, tractVars, entityVars, lockoutVars, pagingVars>>

PagingMoves ==
  /\ scene = "paging" /\ PagingNext
  /\ UNCHANGED <<scene, brandVars, linkVars, sessionVars, memberVars, usageVars, timelineVars,
                 caseVars, releaseVars, tractVars, entityVars, lockoutVars, browserVars>>

PlatformNext ==
  \/ BrandMoves
  \/ LinkMoves
  \/ SessionMoves
  \/ MemberMoves
  \/ UsageMoves
  \/ TimelineMoves
  \/ CaseMoves
  \/ ReleaseMoves
  \/ TractMoves
  \/ EntityMoves
  \/ LockoutMoves
  \/ BrowserMoves
  \/ PagingMoves

PlatformSpec == PlatformInit /\ [][PlatformNext]_platformVars

\* A publisher's list that two runs of two pages read.
PagingList == <<1, 2, 3, 4, 5>>

\* The rows, copies and histories of every component have the shapes its code
\* gives them.
PlatformTypeOK ==
  /\ scene = "brand" => BrandTypeOK
  /\ scene = "links" => LinkTypeOK
  /\ scene = "sessions" => SessionTypeOK
  /\ scene = "members" => MemberTypeOK
  /\ scene = "usage" => UsageTypeOK
  /\ scene = "timeline" => TimelineTypeOK
  /\ scene = "case" => CaseTypeOK
  /\ scene = "release" => ReleaseTypeOK
  /\ scene = "tract" => TractTypeOK
  /\ scene = "entity" => EntityTypeOK
  /\ scene = "lockout" => LockoutTypeOK
  /\ scene = "browser" => BrowserTypeOK
  /\ scene = "paging" => PagingTypeOK
=============================================================================
