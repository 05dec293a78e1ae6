--------------------------- MODULE PlatformProofs ---------------------------
(***************************************************************************)
(* Proofs about the composition that one run of TLC checks: each of its    *)
(* behaviours is, seen through the variables of any one component, a       *)
(* behaviour of that component's specification, so all that is proved of a *)
(* component holds in the composition, for every value of the constants.   *)
(***************************************************************************)
EXTENDS AccountProofs, EvidenceProofs, SourceProofs, MCPlatform

\* While one component moves the others rest.
LEMMA StepsOfComponents ==
  [PlatformNext]_platformVars =>
    /\ [BrandNext]_brandVars /\ [LinkNext]_linkVars /\ [SessionNext]_sessionVars
    /\ [MemberNext]_memberVars /\ [UsageNext]_usageVars /\ [TimelineNext]_timelineVars
    /\ [CaseNext]_caseVars /\ [ReleaseNext]_releaseVars /\ [TractNext]_tractVars
    /\ [EntityNext]_entityVars /\ [LockoutNext]_lockoutVars /\ [BrowserNext]_browserVars
    /\ [PagingNext]_pagingVars
<1> SUFFICES ASSUME [PlatformNext]_platformVars
             PROVE  /\ [BrandNext]_brandVars /\ [LinkNext]_linkVars /\ [SessionNext]_sessionVars
                    /\ [MemberNext]_memberVars /\ [UsageNext]_usageVars /\ [TimelineNext]_timelineVars
                    /\ [CaseNext]_caseVars /\ [ReleaseNext]_releaseVars /\ [TractNext]_tractVars
                    /\ [EntityNext]_entityVars /\ [LockoutNext]_lockoutVars /\ [BrowserNext]_browserVars
                    /\ [PagingNext]_pagingVars
  OBVIOUS
<1> USE DEF PlatformNext, platformVars, BrandMoves, LinkMoves, SessionMoves, MemberMoves,
        UsageMoves, TimelineMoves, CaseMoves, ReleaseMoves, TractMoves, EntityMoves,
        LockoutMoves, BrowserMoves, PagingMoves
<1>1. [BrandNext]_brandVars
  OBVIOUS
<1>2. [LinkNext]_linkVars
  OBVIOUS
<1>3. [SessionNext]_sessionVars
  OBVIOUS
<1>4. [MemberNext]_memberVars
  OBVIOUS
<1>5. [UsageNext]_usageVars
  OBVIOUS
<1>6. [TimelineNext]_timelineVars
  OBVIOUS
<1>7. [CaseNext]_caseVars
  OBVIOUS
<1>8. [ReleaseNext]_releaseVars
  OBVIOUS
<1>9. [TractNext]_tractVars
  OBVIOUS
<1>10. [EntityNext]_entityVars
  OBVIOUS
<1>11. [LockoutNext]_lockoutVars
  OBVIOUS
<1>12. [BrowserNext]_browserVars
  OBVIOUS
<1>13. [PagingNext]_pagingVars
  OBVIOUS
<1>14. QED
  BY <1>1, <1>2, <1>3, <1>4, <1>5, <1>6, <1>7, <1>8, <1>9, <1>10, <1>11, <1>12, <1>13

\* The composition implements the specification of each of its components.
THEOREM ComponentsRunAsSpecified ==
  PlatformSpec =>
    /\ BrandSpec /\ LinkSpec /\ SessionSpec /\ MemberSpec /\ UsageSpec
    /\ TimelineSpec /\ CaseSpec /\ ReleaseSpec /\ TractSpec /\ EntitySpec
    /\ LockoutSpec /\ BrowserSpec /\ PagingSpec
<1>1. PlatformInit =>
        /\ BrandInit /\ LinkInit /\ SessionInit /\ MemberInit /\ UsageInit
        /\ TimelineInit /\ CaseInit /\ ReleaseInit /\ TractInit /\ EntityInit
        /\ LockoutInit /\ BrowserInit /\ PagingInit
  BY DEF PlatformInit
<1>2. QED
  BY <1>1, StepsOfComponents, PTL
  DEF PlatformSpec, BrandSpec, LinkSpec, SessionSpec, MemberSpec, UsageSpec, TimelineSpec,
      CaseSpec, ReleaseSpec, TractSpec, EntitySpec, LockoutSpec, BrowserSpec, PagingSpec

EachTypeOK ==
  /\ BrandTypeOK /\ LinkTypeOK /\ SessionTypeOK /\ MemberTypeOK /\ UsageTypeOK
  /\ TimelineTypeOK /\ CaseTypeOK /\ ReleaseTypeOK /\ TractTypeOK /\ EntityTypeOK
  /\ LockoutTypeOK /\ BrowserTypeOK /\ PagingTypeOK

\* The rows, copies and histories of every component keep the shapes its code gives
\* them, whichever component moves.
THEOREM PlatformTyped == PlatformSpec => []PlatformTypeOK
<1>1. PlatformSpec => []EachTypeOK
  BY ComponentsRunAsSpecified, BrandsTyped, LinksTyped, SessionsTyped, MembersTyped,
     UsageTyped, TimelineTyping, CasesTyped, ReleasesTyped, AcceptancesTyped, EntitiesTyped,
     LockoutTyped, TabTyped, PagesTyped, PTL DEF EachTypeOK
<1>2. EachTypeOK => PlatformTypeOK
  BY DEF EachTypeOK, PlatformTypeOK
<1>3. QED  BY <1>1, <1>2, PTL
=============================================================================
