--------------------------- MODULE AccountProofs ---------------------------
(***************************************************************************)
(* Proofs about the accounts' components: the lockout, a user's sessions,  *)
(* the members of organizations, the usage of an API key and the browser's *)
(* session, each for every value of its constants.  The components share   *)
(* no variable, so each is proved of its own specification.                *)
(***************************************************************************)
EXTENDS Lockout, UserSessions, OrgMembers, ApiUsage, BrowserSession, FiniteSetTheorems, TLAPS

-----------------------------------------------------------------------------
(* Lockout.                                                                *)

\* Every login let in is counted at most once: as a login in progress, or as a
\* failure and as a lock that it began.  A login let in before a lock bears an
\* older number of locks, and an account that is not locked has room for one
\* more failure.
LockoutInv ==
  /\ lock \in {"no", "ahead", "over"}
  /\ failures \in Nat /\ locks \in Nat /\ letIn \in 0..MaxLogins
  /\ IsFiniteSet(logins) /\ Cardinality(logins) <= MaxAtOnce
  /\ \A d \in logins : d \in [id: 1..letIn, locks: 0..locks]
  /\ failures + Cardinality(logins) <= letIn
  /\ locks + Cardinality(logins) <= letIn
  /\ lock = "no" => failures < MaxAttempts
  /\ lock = "ahead" => /\ \A d \in logins : d.locks < locks
                       /\ failures + Cardinality(logins) < MaxAttempts + MaxAtOnce

LEMMA LockoutStarts == LockoutInit => LockoutInv
  BY LockoutAssumption, FS_EmptySet DEF LockoutInit, LockoutInv

\* A login is judged: one login fewer is in progress.
LEMMA LoginJudged ==
  ASSUME LockoutInv, NEW d \in logins, logins' = logins \ {d}
  PROVE  /\ IsFiniteSet(logins') /\ Cardinality(logins) \in Nat
         /\ Cardinality(logins') = Cardinality(logins) - 1
         /\ Cardinality(logins') \in Nat
<1>1. IsFiniteSet(logins)
  BY DEF LockoutInv
<1>2. /\ IsFiniteSet(logins \ {d})
      /\ Cardinality(logins \ {d}) = Cardinality(logins) - 1
  BY <1>1, FS_RemoveElement
<1>3. QED  BY <1>1, <1>2, FS_CardinalityType

\* A failure is counted; the account is locked when the count has reached the
\* limit.
LEMMA FailureStep ==
  ASSUME LockoutInv, NEW d \in logins, RecordFailure(d)
  PROVE  LockoutInv'
<1>1. logins' = logins \ {d} /\ letIn' = letIn
  BY DEF RecordFailure
<1>2. /\ IsFiniteSet(logins') /\ Cardinality(logins) \in Nat
      /\ Cardinality(logins') = Cardinality(logins) - 1
      /\ Cardinality(logins') \in Nat
  BY <1>1, LoginJudged
<1> DEFINE now == Cardinality(logins')
           before == Cardinality(logins)
<1> HIDE DEF now, before
<1>3. now = before - 1 /\ now \in Nat /\ before \in Nat
  BY <1>2 DEF now, before
<1>4. before <= MaxAtOnce /\ failures + before <= letIn /\ locks + before <= letIn
  BY DEF LockoutInv, before
<1>5. PICK n \in Nat :
        /\ n = (IF lock = "over" THEN 1 ELSE failures + 1)
        /\ failures' = n
        /\ lock' = IF n >= MaxAttempts THEN "ahead" ELSE "no"
        /\ locks' = IF n >= MaxAttempts /\ lock # "ahead" THEN locks + 1 ELSE locks
  BY DEF RecordFailure, LockoutInv
<1>6. failures' + now <= letIn'
  BY <1>1, <1>3, <1>4, <1>5 DEF LockoutInv
<1>7. locks' + now <= letIn'
  BY <1>1, <1>3, <1>4, <1>5 DEF LockoutInv
<1>8. ASSUME lock' = "ahead"
      PROVE  /\ \A e \in logins' : e.locks < locks'
             /\ failures' + now < MaxAttempts + MaxAtOnce
  <2>1. CASE lock = "ahead"
    <3>1. /\ \A e \in logins : e.locks < locks
          /\ failures + before < MaxAttempts + MaxAtOnce
      BY <2>1 DEF LockoutInv, before
    <3>2. failures' = failures + 1 /\ locks' = locks
      BY <1>5, <2>1
    <3>3. QED  BY <1>1, <1>3, <3>1, <3>2, LockoutAssumption DEF LockoutInv
  <2>2. CASE lock # "ahead"
    <3>1. n >= MaxAttempts /\ locks' = locks + 1
      BY <1>5, <1>8, <2>2, LockoutAssumption
    <3>2. n <= MaxAttempts
      BY <1>5, <2>2, LockoutAssumption DEF LockoutInv
    <3>3. \A e \in logins' : e.locks < locks'
      BY <1>1, <3>1 DEF LockoutInv
    <3>4. QED  BY <1>3, <1>4, <1>5, <3>2, <3>3, LockoutAssumption
  <2>3. QED  BY <2>1, <2>2
<1>9. lock' \in {"no", "ahead", "over"} /\ locks' \in Nat /\ locks' >= locks
      /\ (lock' = "no" => failures' < MaxAttempts)
  BY <1>5, LockoutAssumption DEF LockoutInv
<1>10. \A e \in logins' : e \in [id: 1..letIn', locks: 0..locks']
  BY <1>1, <1>9 DEF LockoutInv
<1>11. Cardinality(logins') <= MaxAtOnce
  BY <1>3, <1>4, LockoutAssumption DEF now
<1>12. /\ failures' + Cardinality(logins') <= letIn'
       /\ locks' + Cardinality(logins') <= letIn'
       /\ lock' = "ahead" => /\ \A e \in logins' : e.locks < locks'
                             /\ failures' + Cardinality(logins') < MaxAttempts + MaxAtOnce
  BY <1>6, <1>7, <1>8 DEF now
<1>13. failures' \in Nat /\ letIn' \in 0..MaxLogins /\ IsFiniteSet(logins')
  BY <1>1, <1>2, <1>5 DEF LockoutInv
<1>14. QED
  BY <1>9, <1>10, <1>11, <1>12, <1>13 DEF LockoutInv

\* The other judgement, and the resets that clear the entry.
LEMMA ClearStep ==
  ASSUME LockoutInv, ClearByReset \/ \E d \in logins : Succeed(d)
  PROVE  LockoutInv'
<1>1. failures' = 0 /\ lock' = "no" /\ UNCHANGED <<locks, letIn>>
  BY DEF ClearByReset, Succeed
<1>2. CASE logins' = logins
  BY <1>1, <1>2, LockoutAssumption, FS_CardinalityType DEF LockoutInv
<1>3. CASE \E d \in logins : logins' = logins \ {d}
  <2>1. PICK d \in logins : logins' = logins \ {d}
    BY <1>3
  <2>2. /\ IsFiniteSet(logins') /\ Cardinality(logins) \in Nat
        /\ Cardinality(logins') = Cardinality(logins) - 1
        /\ Cardinality(logins') \in Nat
    BY <2>1, LoginJudged
  <2>3. QED  BY <1>1, <2>1, <2>2, LockoutAssumption DEF LockoutInv
<1>4. QED  BY <1>2, <1>3 DEF ClearByReset, Succeed

\* A login is let in, with a number no other login has.
LEMMA AskStepLocked ==
  ASSUME LockoutInv, AskLocked
  PROVE  LockoutInv'
<1> DEFINE e == [id |-> letIn + 1, locks |-> locks]
<1>1. /\ letIn' = letIn + 1 /\ logins' = logins \cup {e} /\ locks' = locks
      /\ letIn < MaxLogins /\ Cardinality(logins) < MaxAtOnce
      /\ lock' = "no" /\ (failures' = failures \/ failures' = 0)
      /\ failures' < MaxAttempts
  BY LockoutAssumption DEF AskLocked, LetsIn, LockoutInv
<1>2. e \notin logins
  BY DEF LockoutInv
<1>3. IsFiniteSet(logins)
  BY DEF LockoutInv
<1>4. Cardinality(logins) \in Nat
  BY <1>3, FS_CardinalityType
<1>5. IsFiniteSet(logins') /\ Cardinality(logins') = Cardinality(logins) + 1
  BY <1>1, <1>2, <1>3, FS_AddElement
<1>6. \A d \in logins' : d \in [id: 1..letIn', locks: 0..locks']
  BY <1>1 DEF LockoutInv
<1>7. QED  BY <1>1, <1>4, <1>5, <1>6, LockoutAssumption DEF LockoutInv

LEMMA LockoutSteps == LockoutInv /\ [LockoutNext]_lockoutVars => LockoutInv'
<1> SUFFICES ASSUME LockoutInv, [LockoutNext]_lockoutVars PROVE LockoutInv'
  OBVIOUS
<1>1. CASE AskLocked
  BY <1>1, AskStepLocked
<1>2. CASE ClearByReset \/ \E d \in logins : Succeed(d)
  BY <1>2, ClearStep
<1>3. CASE \E d \in logins : RecordFailure(d)
  BY <1>3, FailureStep
<1>4. CASE WindowEnds \/ UNCHANGED lockoutVars
  BY <1>4 DEF WindowEnds, lockoutVars, LockoutInv
<1>5. QED  BY <1>1, <1>2, <1>3, <1>4 DEF LockoutNext

\* The entry and its logins keep their shapes: no count outgrows the logins.
THEOREM LockoutTyped == LockoutSpec => []LockoutTypeOK
<1>1. LockoutInv => LockoutTypeOK
  <2> SUFFICES ASSUME LockoutInv PROVE LockoutTypeOK
    OBVIOUS
  <2>1. Cardinality(logins) \in Nat
    BY FS_CardinalityType DEF LockoutInv
  <2>2. /\ failures \in 0..MaxLogins /\ locks \in 0..MaxLogins
        /\ locks <= MaxLogins /\ letIn <= MaxLogins /\ letIn \in Nat
    BY <2>1, LockoutAssumption DEF LockoutInv
  <2>3. \A d \in logins : d \in [id: 1..MaxLogins, locks: 0..MaxLogins]
    <3>1. 1..letIn \subseteq 1..MaxLogins /\ 0..locks \subseteq 0..MaxLogins
      BY <2>2, LockoutAssumption
    <3>2. QED  BY <3>1 DEF LockoutInv
  <2>4. QED  BY <2>2, <2>3 DEF LockoutInv, LockoutTypeOK
<1>2. QED  BY <1>1, LockoutStarts, LockoutSteps, PTL DEF LockoutSpec

\* While an account is locked only logins let in before the lock are judged,
\* and no failure is counted past the limit but theirs.
LEMMA JudgedLate ==
  ASSUME LockoutInv, [LockoutNext]_lockoutVars, lock = "ahead"
  PROVE  /\ \A d \in logins \ logins' : d.locks < locks
         /\ failures' + Cardinality(logins') < MaxAttempts + MaxAtOnce
<1>1. IsFiniteSet(logins) /\ Cardinality(logins) \in Nat
  BY FS_CardinalityType DEF LockoutInv
<1>2. /\ \A d \in logins : d.locks < locks
      /\ failures + Cardinality(logins) < MaxAttempts + MaxAtOnce
      /\ Cardinality(logins) <= MaxAtOnce /\ failures \in Nat
  BY DEF LockoutInv
<1>3. CASE \E d \in logins : RecordFailure(d) \/ Succeed(d)
  <2>1. PICK d \in logins : RecordFailure(d) \/ Succeed(d)
    BY <1>3
  <2>2. logins' = logins \ {d} /\ (failures' = failures + 1 \/ failures' = 0)
    BY <2>1 DEF RecordFailure, Succeed
  <2>3. /\ Cardinality(logins') = Cardinality(logins) - 1
        /\ Cardinality(logins') \in Nat
    BY <2>2, LoginJudged
  <2>4. QED  BY <1>1, <1>2, <2>2, <2>3, LockoutAssumption
<1>4. CASE ~\E d \in logins : RecordFailure(d) \/ Succeed(d)
  <2>1. logins' = logins /\ (failures' = failures \/ failures' = 0)
    BY <1>4 DEF LockoutNext, lockoutVars, AskLocked, LetsIn, ClearByReset, WindowEnds
  <2>2. QED  BY <1>1, <1>2, <2>1, LockoutAssumption
<1>5. QED  BY <1>3, <1>4

\* An account that is locked stays so but for the logins that were let in
\* before its lock began.
THEOREM LockedButForTheLate == LockoutSpec => FrozenButForTheLate
<1>1. LockoutInv /\ [LockoutNext]_lockoutVars =>
        [lock = "ahead" =>
           /\ \A d \in logins \ logins' : d.locks < locks
           /\ failures' + Cardinality(logins') < MaxAttempts + MaxAtOnce]_lockoutVars
  BY JudgedLate
<1>2. QED
  BY <1>1, LockoutStarts, LockoutSteps, PTL DEF LockoutSpec, FrozenButForTheLate

-----------------------------------------------------------------------------
(* A user's sessions.                                                      *)

\* A request bears a number, and the row it has loaded nothing that a later
\* request wrote.
SessionTyped ==
  /\ SessionTypeOK
  /\ user.version <= requests /\ user.secret <= requests
  /\ \A d \in inFlight : /\ d.id <= requests
                         /\ d.seen.version < d.id /\ d.seen.secret < d.id

\* While no two revocations have overlapped: no cookie and no request in flight
\* is ahead of the row, and those that bear its version are the ones that no
\* revocation has committed since.
Revocable ==
  ~blind =>
    /\ \A c \in cookies : /\ c.version <= user.version
                          /\ c.version = user.version => ~c.revoked
                          /\ c.version # user.version => c.revoked \/ c.by = "switch"
    /\ \A d \in inFlight : /\ d.seen.version <= user.version
                           /\ d.late <=> d.seen.version # user.version

\* A set-up was loaded with the second factor off, and a verification with a
\* secret that its code was given for.
FactorSeen ==
  \A d \in inFlight : /\ d.what = "setup" => ~d.seen.enabled
                      /\ d.what = "verify" => d.seen.secret \in proven

SessionInv == SessionTyped /\ Revocable /\ FactorSeen

LEMMA SessionStarts == SessionInit => SessionInv
<1> SUFFICES ASSUME SessionInit PROVE SessionInv
  OBVIOUS
<1>1. user \in Row /\ user.version = 0 /\ user.secret = 0
  BY SessionAssumption DEF SessionInit, Row
<1>2. SessionTyped
  <2>1. cookies = {} /\ inFlight = {} /\ proven = {} /\ requests = 0 /\ blind = FALSE
    BY DEF SessionInit
  <2>2. resetToken \in [ResetTokens -> {"none", "open", "used"}]
    BY DEF SessionInit
  <2>3. requests \in 0..MaxRequests /\ user.version <= requests /\ user.secret <= requests
    BY <1>1, <2>1, SessionAssumption
  <2>4. SessionTypeOK
    BY <1>1, <2>1, <2>2, <2>3 DEF SessionTypeOK
  <2>5. QED  BY <2>1, <2>3, <2>4 DEF SessionTyped
<1>3. Revocable /\ FactorSeen
  BY DEF SessionInit, Revocable, FactorSeen
<1>4. QED  BY <1>2, <1>3 DEF SessionInv

\* Loading a request: its copy is the row, and its number the next.
LEMMA LoadStep ==
  ASSUME SessionInv, NEW w, NEW x, Load(w, x),
         w \in {"login", "refresh", "logout", "reset", "setup", "verify", "disable"},
         x \in ResetTokens \cup {0},
         UNCHANGED <<user, cookies, resetToken, blind>>,
         proven' \in {proven, proven \cup {user.secret}},
         w = "setup" => ~user.enabled,
         w = "verify" => user.secret \in proven',
         proven' # proven => user.secret # 0
  PROVE  SessionInv'
<1> DEFINE e == [what |-> w, seen |-> user, extra |-> x, late |-> FALSE, id |-> requests + 1]
<1>1. /\ requests < MaxRequests /\ requests' = requests + 1
      /\ inFlight' = inFlight \cup {e}
  BY DEF Load
<1>2. /\ user \in Row /\ requests \in 0..MaxRequests
      /\ user.version <= requests /\ user.secret <= requests
      /\ user.version \in Nat /\ user.secret \in Nat
  BY DEF SessionInv, SessionTyped, SessionTypeOK, Row
<1>3. /\ requests' \in 0..MaxRequests /\ requests' = requests + 1 /\ requests \in Nat
  BY <1>1, <1>2, SessionAssumption
<1>4. /\ e \in [what: {"login", "refresh", "logout", "reset", "setup", "verify", "disable"},
                seen: Row, extra: ResetTokens \cup {0}, late: BOOLEAN, id: 1..MaxRequests]
      /\ e.id = requests' /\ e.seen = user /\ ~e.late /\ e.what = w
  BY <1>1, <1>2, <1>3, SessionAssumption
<1> HIDE DEF e
<1>5. proven' \subseteq 1..MaxRequests /\ proven \subseteq proven'
  BY <1>2, <1>3, SessionAssumption DEF SessionInv, SessionTyped, SessionTypeOK
<1>6. SessionTypeOK'
  BY <1>1, <1>3, <1>4, <1>5 DEF SessionInv, SessionTyped, SessionTypeOK
<1>7. \A d \in inFlight : d.id \in Nat
  BY DEF SessionInv, SessionTyped, SessionTypeOK
<1>8. \A d \in inFlight' : /\ d.id <= requests'
                           /\ d.seen.version < d.id /\ d.seen.secret < d.id
  BY <1>1, <1>2, <1>3, <1>4, <1>7 DEF SessionInv, SessionTyped
<1>9. SessionTyped'
  BY <1>2, <1>3, <1>6, <1>8 DEF SessionTyped
<1>10. Revocable'
  BY <1>1, <1>2, <1>4 DEF SessionInv, Revocable
<1>11. FactorSeen'
  BY <1>1, <1>4, <1>5 DEF SessionInv, FactorSeen
<1>12. QED  BY <1>9, <1>10, <1>11 DEF SessionInv

\* A cookie is minted of the copy a login or a refresh has loaded, or by a
\* change of organization, of version 0.
LEMMA MintStep ==
  ASSUME SessionInv, SwitchOrg \/ \E d \in inFlight : Mint(d)
  PROVE  SessionInv'
<1>1. UNCHANGED <<user, resetToken, proven, blind, requests>>
  BY DEF SwitchOrg, Mint
<1>2. PICK c : /\ cookies' = cookies \cup {c} /\ inFlight' \subseteq inFlight
               /\ \/ c = [version |-> 0, by |-> "switch", revoked |-> FALSE]
                  \/ \E d \in inFlight :
                       /\ d.what \in {"login", "refresh"}
                       /\ c = [version |-> d.seen.version, by |-> d.what, revoked |-> d.late]
  BY DEF SwitchOrg, Mint
<1>3. user.version \in Nat
  BY DEF SessionInv, SessionTyped, SessionTypeOK, Row
<1>4. /\ c \in [version: 0..MaxRequests, by: {"login", "refresh", "switch"}, revoked: BOOLEAN]
      /\ ~blind => /\ c.version <= user.version
                   /\ c.version = user.version => ~c.revoked
                   /\ c.version # user.version => c.revoked \/ c.by = "switch"
  <2>1. CASE c = [version |-> 0, by |-> "switch", revoked |-> FALSE]
    BY <1>3, <2>1, SessionAssumption
  <2>2. CASE \E d \in inFlight :
               /\ d.what \in {"login", "refresh"}
               /\ c = [version |-> d.seen.version, by |-> d.what, revoked |-> d.late]
    <3>1. PICK d \in inFlight :
               /\ d.what \in {"login", "refresh"}
               /\ c = [version |-> d.seen.version, by |-> d.what, revoked |-> d.late]
      BY <2>2
    <3>2. d.seen.version \in 0..MaxRequests /\ d.late \in BOOLEAN
      BY DEF SessionInv, SessionTyped, SessionTypeOK, Row
    <3>3. ~blind => /\ d.seen.version <= user.version
                    /\ d.late <=> d.seen.version # user.version
      BY DEF SessionInv, Revocable
    <3>4. QED  BY <3>1, <3>2, <3>3
  <2>3. QED  BY <1>2, <2>1, <2>2
<1>5. SessionTyped'
  BY <1>1, <1>2, <1>4 DEF SessionInv, SessionTyped, SessionTypeOK
<1>6. Revocable'
  BY <1>1, <1>2, <1>4 DEF SessionInv, Revocable
<1>7. FactorSeen'
  BY <1>1, <1>2 DEF SessionInv, FactorSeen
<1>8. QED  BY <1>5, <1>6, <1>7 DEF SessionInv

\* What a revocation marks is otherwise what it was.
LEMMA RevokedCookie ==
  ASSUME NEW A, NEW B, NEW c \in [version: A, by: B, revoked: BOOLEAN],
         NEW d, d = [c EXCEPT !.revoked = TRUE]
  PROVE  /\ d.version = c.version /\ d.revoked
         /\ d \in [version: A, by: B, revoked: BOOLEAN]
  OBVIOUS

LEMMA LateRequest ==
  ASSUME NEW A, NEW B, NEW C, NEW D,
         NEW e \in [what: A, seen: B, extra: C, late: BOOLEAN, id: D],
         NEW f, f = [e EXCEPT !.late = TRUE]
  PROVE  /\ f.what = e.what /\ f.seen = e.seen /\ f.id = e.id /\ f.late
         /\ f \in [what: A, seen: B, extra: C, late: BOOLEAN, id: D]
  OBVIOUS

\* A revocation moves the version past all there is, when it has seen the one
\* there is.
LEMMA RevokeStep ==
  ASSUME SessionInv, NEW d \in inFlight, Revokes(d),
         resetToken' \in [ResetTokens -> {"none", "open", "used"}],
         UNCHANGED <<proven, requests>>
  PROVE  SessionInv'
<1> DEFINE Cookie == [version: 0..MaxRequests, by: {"login", "refresh", "switch"},
                      revoked: BOOLEAN]
           Kinds == {"login", "refresh", "logout", "reset", "setup", "verify", "disable"}
           Sent == [what: Kinds, seen: Row, extra: ResetTokens \cup {0}, late: BOOLEAN,
                    id: 1..MaxRequests]
<1>1. /\ user' = [user EXCEPT !.version = d.seen.version + 1]
      /\ cookies' = {[c EXCEPT !.revoked = TRUE] : c \in cookies}
      /\ inFlight' = {[e EXCEPT !.late = TRUE] : e \in inFlight \ {d}}
      /\ blind' = (blind \/ d.seen.version # user.version)
  BY DEF Revokes
<1>2. /\ user \in Row /\ d.seen \in Row /\ requests \in 0..MaxRequests
      /\ d.id <= requests /\ d.seen.version < d.id /\ d.id \in 1..MaxRequests
      /\ user.secret <= requests /\ blind \in BOOLEAN
      /\ cookies \subseteq Cookie /\ inFlight \subseteq Sent
  BY DEF SessionInv, SessionTyped, SessionTypeOK
<1>3. /\ d.seen.version + 1 \in 0..MaxRequests /\ d.seen.version + 1 <= requests
      /\ d.seen.version \in Nat
  <2>1. d.seen.version \in 0..MaxRequests
    BY <1>2 DEF Row
  <2>2. QED  BY <1>2, <2>1, SessionAssumption
<1>4. /\ user' \in Row /\ user'.version <= requests /\ user'.secret = user.secret
      /\ user'.version = d.seen.version + 1
  BY <1>1, <1>2, <1>3 DEF Row
<1>5. \A c \in cookies' :
        c \in Cookie /\ c.revoked /\ \E b \in cookies : c.version = b.version
  <2> SUFFICES ASSUME NEW c \in cookies'
               PROVE  c \in Cookie /\ c.revoked /\ \E b \in cookies : c.version = b.version
    OBVIOUS
  <2>1. PICK b \in cookies : c = [b EXCEPT !.revoked = TRUE]
    BY <1>1
  <2>2. b \in Cookie
    BY <1>2
  <2>3. QED  BY <2>1, <2>2, RevokedCookie
<1>6. \A e \in inFlight' :
        /\ e \in Sent /\ e.late
        /\ \E g \in inFlight : e.what = g.what /\ e.seen = g.seen /\ e.id = g.id
  <2> SUFFICES ASSUME NEW e \in inFlight'
               PROVE  /\ e \in Sent /\ e.late
                      /\ \E g \in inFlight : e.what = g.what /\ e.seen = g.seen /\ e.id = g.id
    OBVIOUS
  <2>1. PICK g \in inFlight : e = [g EXCEPT !.late = TRUE]
    BY <1>1
  <2>2. g \in Sent
    BY <1>2
  <2> HIDE DEF Kinds
  <2>3. /\ e.what = g.what /\ e.seen = g.seen /\ e.id = g.id /\ e.late
        /\ e \in Sent
    BY <2>1, <2>2, LateRequest
  <2>4. QED  BY <2>3
<1>7. /\ inFlight' \subseteq Sent
      /\ \A e \in inFlight' : /\ e.id <= requests
                              /\ e.seen.version < e.id /\ e.seen.secret < e.id
  BY <1>6 DEF SessionInv, SessionTyped
<1>8. blind' \in BOOLEAN
  BY <1>1
<1>9. SessionTyped'
  <2>1. cookies' \subseteq Cookie
    BY <1>5
  <2>2. SessionTypeOK'
    BY <1>4, <1>7, <1>8, <2>1 DEF SessionInv, SessionTyped, SessionTypeOK
  <2>3. QED  BY <1>2, <1>4, <1>7, <2>2 DEF SessionTyped
<1>10. Revocable'
  <2>1. SUFFICES ASSUME ~blind'
                 PROVE  /\ \A c \in cookies' : /\ c.version <= user'.version
                                               /\ c.version # user'.version /\ c.revoked
                        /\ \A e \in inFlight' : /\ e.seen.version <= user'.version
                                                /\ e.late /\ e.seen.version # user'.version
    BY DEF Revocable
  <2>2. ~blind /\ user'.version = user.version + 1 /\ user.version \in Nat
    <3>1. ~blind /\ d.seen.version = user.version
      BY <1>1, <1>2, <2>1
    <3>2. QED  BY <1>3, <1>4, <3>1
  <2>3. \A c \in cookies' : c.version \in Nat /\ c.version <= user.version
    BY <1>5, <2>2 DEF SessionInv, Revocable
  <2>4. \A e \in inFlight' : e.seen.version \in Nat /\ e.seen.version <= user.version
    <3>1. \A g \in inFlight : g.seen.version <= user.version /\ g.seen.version \in Nat
      BY <2>2 DEF SessionInv, Revocable, SessionTyped, SessionTypeOK, Row
    <3>2. QED  BY <1>6, <3>1
  <2>5. QED  BY <1>5, <1>6, <2>2, <2>3, <2>4
<1>11. FactorSeen'
  <2>1. \A e \in inFlight' : \E g \in inFlight : e.what = g.what /\ e.seen = g.seen
    BY <1>6
  <2>2. QED  BY <2>1 DEF SessionInv, FactorSeen
<1>12. QED  BY <1>9, <1>10, <1>11 DEF SessionInv

\* Commits that leave the version and the cookies alone.
LEMMA FactorStep ==
  ASSUME SessionInv, NEW d \in inFlight, SetupCommit(d) \/ FactorCommit(d) \/ ResetRefused(d)
  PROVE  SessionInv'
<1>1. /\ inFlight' = inFlight \ {d}
      /\ UNCHANGED <<cookies, resetToken, proven, blind, requests>>
  BY DEF SetupCommit, FactorCommit, ResetRefused
<1>2. user \in Row /\ d.seen \in Row /\ d.id \in 1..MaxRequests /\ d.id <= requests
      /\ user.secret <= requests /\ requests \in 0..MaxRequests
  BY DEF SessionInv, SessionTyped, SessionTypeOK
<1>3. user' \in Row /\ user'.version = user.version /\ user'.secret <= requests
  <2>1. CASE SetupCommit(d)
    <3>1. d.id \in 0..MaxRequests
      BY <1>2, SessionAssumption
    <3>2. QED  BY <1>2, <2>1, <3>1 DEF SetupCommit, Row
  <2>2. CASE FactorCommit(d)
    <3>1. 0 \in 0..MaxRequests /\ 0 <= requests
      BY <1>2, SessionAssumption
    <3>2. CASE d.what = "verify"
      BY <1>2, <2>2, <3>2 DEF FactorCommit, Row
    <3>3. CASE d.what # "verify"
      BY <1>2, <2>2, <3>1, <3>3 DEF FactorCommit, Row
    <3>4. QED  BY <3>2, <3>3
  <2>3. CASE ResetRefused(d)
    BY <1>2, <2>3 DEF ResetRefused
  <2>4. QED  BY <2>1, <2>2, <2>3
<1>4. SessionTyped'
  BY <1>1, <1>3 DEF SessionInv, SessionTyped, SessionTypeOK
<1>5. Revocable' /\ FactorSeen'
  BY <1>1, <1>3 DEF SessionInv, Revocable, FactorSeen
<1>6. QED  BY <1>4, <1>5 DEF SessionInv

LEMMA SessionSteps == SessionInv /\ [SessionNext]_sessionVars => SessionInv'
<1> SUFFICES ASSUME SessionInv, [SessionNext]_sessionVars PROVE SessionInv'
  OBVIOUS
<1>1. CASE LoginLoad \/ LogoutAllLoad \/ SetupLoad \/ VerifyLoad \/ DisableLoad
           \/ (\E c \in cookies : RefreshLoad(c)) \/ \E t \in ResetTokens : ResetLoad(t)
  <2>1. CASE LoginLoad
    BY <2>1, LoadStep DEF LoginLoad
  <2>2. CASE LogoutAllLoad
    BY <2>2, LoadStep DEF LogoutAllLoad
  <2>3. CASE SetupLoad
    BY <2>3, LoadStep DEF SetupLoad, MayEnroll
  <2>4. CASE VerifyLoad
    BY <2>4, LoadStep DEF VerifyLoad
  <2>5. CASE DisableLoad
    BY <2>5, LoadStep DEF DisableLoad
  <2>6. CASE \E c \in cookies : RefreshLoad(c)
    BY <2>6, LoadStep DEF RefreshLoad
  <2>7. CASE \E t \in ResetTokens : ResetLoad(t)
    BY <2>7, LoadStep DEF ResetLoad
  <2>8. QED  BY <1>1, <2>1, <2>2, <2>3, <2>4, <2>5, <2>6, <2>7
<1>2. CASE SwitchOrg \/ \E d \in inFlight : Mint(d)
  BY <1>2, MintStep
<1>3. CASE \E d \in inFlight : LogoutAllCommit(d) \/ ResetCommit(d)
  <2>1. PICK d \in inFlight : LogoutAllCommit(d) \/ ResetCommit(d)
    BY <1>3
  <2>2. resetToken' \in [ResetTokens -> {"none", "open", "used"}]
    BY <2>1 DEF LogoutAllCommit, ResetCommit, SessionInv, SessionTyped, SessionTypeOK
  <2>3. Revokes(d) /\ UNCHANGED <<proven, requests>>
    BY <2>1 DEF LogoutAllCommit, ResetCommit
  <2>4. QED  BY <2>2, <2>3, RevokeStep
<1>4. CASE \E d \in inFlight : SetupCommit(d) \/ FactorCommit(d) \/ ResetRefused(d)
  BY <1>4, FactorStep
<1>5. CASE \E t \in ResetTokens : Forgot(t)
  BY <1>5 DEF Forgot, SessionInv, SessionTyped, SessionTypeOK, Revocable, FactorSeen
<1>6. CASE UNCHANGED sessionVars
  BY <1>6 DEF sessionVars, SessionInv, SessionTyped, SessionTypeOK, Revocable, FactorSeen
<1>7. QED  BY <1>1, <1>2, <1>3, <1>4, <1>5, <1>6 DEF SessionNext

\* The inductive invariant of the sessions.
LEMMA SessionsHold == SessionSpec => []SessionInv
<1>1. QED  BY SessionStarts, SessionSteps, PTL DEF SessionSpec

\* The row, the cookies and the requests keep their shapes.
THEOREM SessionsTyped == SessionSpec => []SessionTypeOK
<1>1. SessionInv => SessionTypeOK
  BY DEF SessionInv, SessionTyped
<1>2. QED  BY <1>1, SessionsHold, PTL

\* While no two revocations have overlapped, a cookie of a login or a refresh
\* is accepted exactly until a revocation commits.
THEOREM CookiesLiveUntilRevoked == SessionSpec => []AcceptedUntilRevoked
<1>1. SessionInv => AcceptedUntilRevoked
  BY DEF SessionInv, Revocable, AcceptedUntilRevoked, Accepts
<1>2. QED  BY <1>1, SessionsHold, PTL

\* A request that commits over the row it has seen leaves a second factor that
\* is on with a secret its user has shown to know.
LEMMA EnrolmentKept ==
  ASSUME SessionInv, [SessionNext]_sessionVars, Enrolled, ~Enrolled'
  PROVE  \E d \in inFlight \ inFlight' :
           <<d.seen.enabled, d.seen.secret>> # <<user.enabled, user.secret>>
<1>1. user \in Row
  BY DEF SessionInv, SessionTyped, SessionTypeOK
<1>2. \E d \in inFlight : SetupCommit(d) \/ FactorCommit(d)
  <2>1. SUFFICES ASSUME ~\E d \in inFlight : SetupCommit(d) \/ FactorCommit(d)
                 PROVE  FALSE
    OBVIOUS
  <2>2. user'.enabled = user.enabled /\ user'.secret = user.secret /\ proven \subseteq proven'
    <3>1. CASE \E d \in inFlight : LogoutAllCommit(d) \/ ResetCommit(d)
      BY <1>1, <3>1 DEF LogoutAllCommit, ResetCommit, Revokes, Row
    <3>2. CASE ~\E d \in inFlight : LogoutAllCommit(d) \/ ResetCommit(d)
      BY <2>1, <3>2
         DEF SessionNext, sessionVars, LoginLoad, LogoutAllLoad, SetupLoad, VerifyLoad,
             DisableLoad, SwitchOrg, RefreshLoad, Forgot, ResetLoad, Mint, ResetRefused
    <3>3. QED  BY <3>1, <3>2
  <2>3. QED  BY <2>2 DEF Enrolled
<1>3. PICK d \in inFlight : SetupCommit(d) \/ FactorCommit(d)
  BY <1>2
<1>4. d \in inFlight \ inFlight' /\ proven' = proven
  BY <1>3 DEF SetupCommit, FactorCommit
<1>5. SUFFICES ASSUME d.seen.enabled = user.enabled, d.seen.secret = user.secret
               PROVE  FALSE
  BY <1>4
<1>6. CASE SetupCommit(d)
  <2>1. user.enabled = FALSE
    BY <1>1, <1>5, <1>6 DEF SetupCommit, SessionInv, FactorSeen, Row
  <2>2. QED  BY <1>1, <1>6, <2>1 DEF SetupCommit, Enrolled, Row
<1>7. CASE FactorCommit(d)
  <2>1. CASE d.what = "verify"
    <3>1. user.secret \in proven
      BY <1>5, <2>1 DEF SessionInv, FactorSeen
    <3>2. user'.secret = user.secret
      BY <1>1, <1>7, <2>1 DEF FactorCommit, Row
    <3>3. QED  BY <1>4, <3>1, <3>2 DEF Enrolled
  <2>2. CASE d.what = "disable"
    <3>1. user'.enabled = (user.enabled /\ ~d.seen.enabled)
      BY <1>1, <1>7, <2>2 DEF FactorCommit, Row
    <3>2. QED  BY <1>5, <3>1 DEF Enrolled
  <2>3. QED  BY <1>7, <2>1, <2>2 DEF FactorCommit
<1>8. QED  BY <1>3, <1>6, <1>7

\* Only a request that commits over a row it has not seen leaves a second
\* factor on without a secret that a code was given for.
THEOREM EnrolmentBrokenOnlyBlindly == SessionSpec => OnlyStaleWritersBreakEnrolment
<1>1. SessionInv /\ [SessionNext]_sessionVars =>
        [Enrolled /\ ~Enrolled' =>
           \E d \in inFlight \ inFlight' :
             <<d.seen.enabled, d.seen.secret>> # <<user.enabled, user.secret>>]_sessionVars
  BY EnrolmentKept
<1>2. QED  BY <1>1, SessionsHold, PTL DEF SessionSpec, OnlyStaleWritersBreakEnrolment

-----------------------------------------------------------------------------
(* Organizations and their members.                                        *)

\* A request that may take an admin away has counted another one.
CountedAnother ==
  \A d \in change :
    /\ d.kind = "role" /\ d.to # "admin" => d.admins[d.org] # {d.user}
    /\ d.kind = "delete" => \A p \in Orgs : d.admins[p] # {d.user}

MemberInv == MemberTypeOK /\ CountedAnother

LEMMA MemberStarts == MemberInit => MemberInv
  BY MemberAssumption DEF MemberInit, MemberInv, MemberTypeOK, CountedAnother

\* An organization with an admin is a tenant, and its admins are users.
LEMMA AdminsAreMembers ==
  ASSUME MemberTypeOK, NEW o \in Orgs
  PROVE  Admins(o) \subseteq Users /\ (Admins(o) # {} => o \in tenants)
  BY DEF Admins, MemberTypeOK

\* Whoever is the only admin is seen to be.
LEMMA OnlyAdminIsLast ==
  ASSUME MemberTypeOK, NEW o \in Orgs, NEW u \in Users, Admins(o) = {u}
  PROVE  IsLastAdmin(o, u) /\ SoleAdmin(u, o)
<1>1. u \in Admins(o)
  OBVIOUS
<1>2. role[o][u] = "admin"
  BY <1>1 DEF Admins
<1>3. Cardinality(Admins(o)) = 1
  BY FS_Singleton
<1>4. QED  BY <1>2, <1>3 DEF IsLastAdmin, SoleAdmin

\* A request counts.
LEMMA CountStep ==
  ASSUME MemberInv, NEW o \in Orgs, NEW u \in Users,
         NEW r \in {"admin", "member", "none"}, NEW k \in {"role", "delete"}, Count(k, o, u, r),
         k = "role" /\ r # "admin" => ~IsLastAdmin(o, u),
         k = "delete" => ~SoleAdmin(u, o),
         UNCHANGED <<tenants, account, role>>
  PROVE  MemberInv'
<1> DEFINE d == [kind |-> k, org |-> o, user |-> u, to |-> r, was |-> role[o][u],
                 admins |-> [p \in Orgs |-> Admins(p)]]
<1>1. /\ memberJobs < MaxMemberJobs /\ memberJobs' = memberJobs + 1
      /\ change' = change \cup {d}
  BY DEF Count
<1>2. role \in [Orgs -> [Users -> {"admin", "member", "none"}]]
  BY DEF MemberInv, MemberTypeOK
<1>3. \A p \in Orgs : Admins(p) \in SUBSET Users
  BY DEF Admins
<1>4. d \in [kind: {"role", "delete"}, org: Orgs, user: Users,
             to: {"admin", "member", "none"}, was: {"admin", "member", "none"},
             admins: [Orgs -> SUBSET Users]]
  BY <1>2, <1>3
<1>5. /\ d.kind = k /\ d.to = r /\ d.org = o /\ d.user = u
      /\ \A p \in Orgs : d.admins[p] = Admins(p)
  OBVIOUS
<1> HIDE DEF d
<1>6. MemberTypeOK'
  BY <1>1, <1>4, MemberAssumption DEF MemberInv, MemberTypeOK
<1>7. /\ d.kind = "role" /\ d.to # "admin" => d.admins[d.org] # {d.user}
      /\ d.kind = "delete" => \A p \in Orgs : d.admins[p] # {d.user}
  <2>1. \A p \in Orgs : Admins(p) = {u} => IsLastAdmin(p, u) /\ SoleAdmin(u, p)
    BY OnlyAdminIsLast DEF MemberInv
  <2>2. \A p \in Orgs : SoleAdmin(u, p) = SoleAdmin(u, o)
    BY DEF SoleAdmin
  <2>3. QED  BY <1>5, <2>1, <2>2
<1>8. CountedAnother'
  BY <1>1, <1>7 DEF MemberInv, CountedAnother
<1>9. QED  BY <1>6, <1>8 DEF MemberInv

\* A change commits.
LEMMA ChangeStep ==
  ASSUME MemberInv, NEW d \in change, CommitChange(d) \/ CommitDelete(d)
  PROVE  MemberInv'
<1>1. change' = change \ {d} /\ UNCHANGED <<tenants, memberJobs>>
  BY DEF CommitChange, CommitDelete
<1>2. /\ d.org \in Orgs /\ d.user \in Users /\ d.to \in {"admin", "member", "none"}
      /\ role \in [Orgs -> [Users -> {"admin", "member", "none"}]]
      /\ account \in [Users -> {"no", "yes", "deleted"}]
      /\ \A o \in Orgs, u \in Users : role[o][u] # "none" => account[u] = "yes" /\ o \in tenants
  BY DEF MemberInv, MemberTypeOK
<1>3. /\ role' \in [Orgs -> [Users -> {"admin", "member", "none"}]]
      /\ account' \in [Users -> {"no", "yes", "deleted"}]
      /\ \A o \in Orgs, u \in Users :
           role'[o][u] # "none" => account'[u] = "yes" /\ o \in tenants
  <2>1. CASE CommitChange(d)
    BY <1>2, <2>1 DEF CommitChange
  <2>2. CASE CommitDelete(d)
    <3>1. /\ account' = [account EXCEPT ![d.user] = "deleted"]
          /\ \A o \in Orgs, u \in Users : role'[o][u] = IF u = d.user THEN "none" ELSE role[o][u]
          /\ role' \in [Orgs -> [Users -> {"admin", "member", "none"}]]
      BY <1>2, <2>2 DEF CommitDelete
    <3>2. QED  BY <1>2, <3>1
  <2>3. QED  BY <2>1, <2>2
<1>4. MemberTypeOK'
  BY <1>1, <1>3 DEF MemberInv, MemberTypeOK
<1>5. CountedAnother'
  BY <1>1 DEF MemberInv, CountedAnother
<1>6. QED  BY <1>4, <1>5 DEF MemberInv

\* Members are added by registration and invitation.
LEMMA JoinStep ==
  ASSUME MemberInv, NEW u \in Users, NEW o \in Orgs,
         Register(u, o) \/ \E r \in {"admin", "member"} : Invite(o, u, r)
  PROVE  MemberInv'
<1>1. /\ role \in [Orgs -> [Users -> {"admin", "member", "none"}]]
      /\ account \in [Users -> {"no", "yes", "deleted"}] /\ tenants \subseteq Orgs
      /\ \A p \in Orgs, v \in Users : role[p][v] # "none" => account[v] = "yes" /\ p \in tenants
  BY DEF MemberInv, MemberTypeOK
<1>2. PICK r \in {"admin", "member"} :
        /\ role' = [role EXCEPT ![o][u] = r]
        /\ o \in tenants' /\ tenants' \subseteq Orgs /\ tenants \subseteq tenants'
        /\ account' = [account EXCEPT ![u] = "yes"]
  <2>1. CASE Register(u, o)
    BY <1>1, <2>1 DEF Register
  <2>2. CASE \E r \in {"admin", "member"} : Invite(o, u, r)
    <3>1. PICK r \in {"admin", "member"} : Invite(o, u, r)
      BY <2>2
    <3>2. o \in tenants
      BY <3>1, AdminsAreMembers DEF Invite, MemberInv
    <3>3. account = [account EXCEPT ![u] = "yes"]
      BY <1>1, <3>1 DEF Invite
    <3>4. QED  BY <1>1, <3>1, <3>2, <3>3 DEF Invite
  <2>3. QED  BY <2>1, <2>2
<1>3. UNCHANGED <<change, memberJobs>>
  BY DEF Register, Invite
<1>4. /\ role' \in [Orgs -> [Users -> {"admin", "member", "none"}]]
      /\ account' \in [Users -> {"no", "yes", "deleted"}]
  BY <1>1, <1>2
<1>5. ASSUME NEW p \in Orgs, NEW v \in Users, role'[p][v] # "none"
      PROVE  account'[v] = "yes" /\ p \in tenants'
  <2>1. CASE p = o /\ v = u
    BY <1>1, <1>2, <2>1
  <2>2. CASE ~(p = o /\ v = u)
    <3>1. role'[p][v] = role[p][v]
      BY <1>1, <1>2, <2>2
    <3>2. QED  BY <1>1, <1>2, <1>5, <3>1
  <2>3. QED  BY <2>1, <2>2
<1>6. MemberTypeOK'
  BY <1>2, <1>3, <1>4, <1>5 DEF MemberInv, MemberTypeOK
<1>7. CountedAnother'
  BY <1>3 DEF MemberInv, CountedAnother
<1>8. QED  BY <1>6, <1>7 DEF MemberInv

LEMMA MemberSteps == MemberInv /\ [MemberNext]_memberVars => MemberInv'
<1> SUFFICES ASSUME MemberInv, [MemberNext]_memberVars PROVE MemberInv'
  OBVIOUS
<1>1. CASE \E u \in Users, o \in Orgs :
             Register(u, o) \/ \E r \in {"admin", "member"} : Invite(o, u, r)
  BY <1>1, JoinStep
<1>2. CASE \E u \in Users, o \in Orgs :
             \/ AskRemove(o, u) \/ AskDelete(u, o)
             \/ \E r \in {"admin", "member"} : AskChange(o, u, r)
  <2>1. PICK u \in Users, o \in Orgs :
             \/ AskRemove(o, u) \/ AskDelete(u, o)
             \/ \E r \in {"admin", "member"} : AskChange(o, u, r)
    BY <1>2
  <2>2. CASE AskRemove(o, u)
    BY <2>2, CountStep DEF AskRemove
  <2>3. CASE AskDelete(u, o)
    BY <2>3, CountStep DEF AskDelete
  <2>4. CASE \E r \in {"admin", "member"} : AskChange(o, u, r)
    BY <2>4, CountStep DEF AskChange
  <2>5. QED  BY <2>1, <2>2, <2>3, <2>4
<1>3. CASE \E d \in change : CommitChange(d) \/ CommitDelete(d)
  BY <1>3, ChangeStep
<1>4. CASE UNCHANGED memberVars
  <2>1. UNCHANGED <<tenants, account, role, change, memberJobs>>
    BY <1>4 DEF memberVars
  <2>2. QED  BY <2>1 DEF MemberInv, MemberTypeOK, CountedAnother
<1>5. QED  BY <1>1, <1>2, <1>3, <1>4 DEF MemberNext

\* Only users with a row are members, and only of tenants.
THEOREM MembersTyped == MemberSpec => []MemberTypeOK
<1>1. MemberInv => MemberTypeOK
  BY DEF MemberInv
<1>2. QED  BY <1>1, MemberStarts, MemberSteps, PTL DEF MemberSpec

\* Of the steps only the commit of a request takes admins away, and then only
\* its own user.
LEMMA AdminsLost ==
  ASSUME MemberInv, [MemberNext]_memberVars,
         NEW o \in Orgs, Admins(o) # {}, Admins(o)' = {}
  PROVE  \E d \in change \ change' : d.admins[o] # Admins(o)
<1>1. \A u \in Users : role'[o][u] # "admin"
  BY DEF Admins
<1>2. role \in [Orgs -> [Users -> {"admin", "member", "none"}]]
  BY DEF MemberInv, MemberTypeOK
<1>3. PICK d \in change : CommitChange(d) \/ CommitDelete(d)
  <2>1. SUFFICES ASSUME ~\E d \in change : CommitChange(d) \/ CommitDelete(d)
                 PROVE  FALSE
    OBVIOUS
  <2>2. CASE \E u \in Users, p \in Orgs, r \in {"admin", "member"} : Register(u, p) \/ Invite(p, u, r)
    <3>1. PICK u \in Users, p \in Orgs, r \in {"admin", "member"} : Register(u, p) \/ Invite(p, u, r)
      BY <2>2
    <3>2. \/ role' = [role EXCEPT ![p][u] = "admin"]
          \/ role' = [role EXCEPT ![p][u] = r] /\ role[p][u] = "none"
      BY <3>1 DEF Register, Invite
    <3>3. \A v \in Users : role[o][v] = "admin" => role'[o][v] = "admin"
      BY <1>2, <3>2
    <3>4. QED  BY <1>1, <3>3 DEF Admins
  <2>3. CASE UNCHANGED role
    BY <1>1, <2>3 DEF Admins
  <2>4. QED
    BY <2>1, <2>2, <2>3 DEF MemberNext, memberVars, AskChange, AskRemove, AskDelete
<1>4. d \in change \ change'
  BY <1>3 DEF CommitChange, CommitDelete
<1>5. SUFFICES ASSUME d.admins[o] = Admins(o) PROVE FALSE
  BY <1>4
<1>6. d.org \in Orgs /\ d.user \in Users
  BY DEF MemberInv, MemberTypeOK
<1>7. \A u \in Users : u # d.user => role'[o][u] = role[o][u]
  BY <1>2, <1>3, <1>6 DEF CommitChange, CommitDelete
<1>8. Admins(o) = {d.user}
  BY <1>1, <1>6, <1>7 DEF Admins
<1>9. CASE CommitDelete(d)
  BY <1>5, <1>8, <1>9 DEF CommitDelete, MemberInv, CountedAnother
<1>10. CASE CommitChange(d)
  <2>1. role[o][d.user] = "admin"
    BY <1>6, <1>8 DEF Admins
  <2>2. role'[o][d.user] # role[o][d.user]
    BY <1>1, <1>6, <2>1
  <2>3. d.org = o /\ role' = [role EXCEPT ![o][d.user] = d.to] /\ d.kind = "role"
    BY <1>2, <1>6, <1>10, <2>2 DEF CommitChange
  <2>4. d.to # "admin"
    BY <1>2, <1>6, <2>1, <2>2, <2>3
  <2>5. QED  BY <1>5, <1>8, <2>3, <2>4 DEF MemberInv, CountedAnother
<1>11. QED  BY <1>3, <1>9, <1>10

\* An organization loses its last admin only to a request that has counted other
\* admins than there are.
THEOREM OrphanedOnlyBlindly == MemberSpec => OrphanedOnlyByAStaleCount
<1>1. MemberInv /\ [MemberNext]_memberVars =>
        [\A o \in Orgs : Admins(o) # {} /\ Admins(o)' = {} =>
           \E d \in change \ change' : d.admins[o] # Admins(o)]_memberVars
  BY AdminsLost
<1>2. QED
  BY <1>1, MemberStarts, MemberSteps, PTL DEF MemberSpec, OrphanedOnlyByAStaleCount

-----------------------------------------------------------------------------
(* The usage of an API key.                                                *)

\* Every request recorded is an event of one bucket at most, or still on its
\* way.
UsageCounted ==
  /\ IsFiniteSet(recording)
  /\ \A d \in recording : d.id <= records
  /\ \A b \in Buckets : events[b] + Cardinality(recording) <= records

\* A rebuild that no request has disturbed will write what the events say: it
\* has found no rollup but those it has deleted.
UndisturbedRebuild ==
  rebuild # NoRebuild /\ ~disturbed =>
    /\ rebuild.deleted = {b \in Buckets : rollup[b] # 0}
    /\ rebuild.step = "commit" =>
         /\ rebuild.count = events
         /\ \A b \in Buckets : rebuild.found[b] = 0

UsageInv == UsageTypeOK /\ UsageCounted /\ UndisturbedRebuild

LEMMA UsageStarts == UsageInit => UsageInv
<1> SUFFICES ASSUME UsageInit PROVE UsageInv
  OBVIOUS
<1>1. UsageTypeOK
  <2>1. 0 \in 0..MaxRecords /\ 0 \in 0..MaxRebuilds
    BY UsageAssumption
  <2>2. events \in [Buckets -> 0..MaxRecords] /\ rollup \in [Buckets -> Nat]
    BY <2>1 DEF UsageInit
  <2>3. /\ recording = {} /\ rebuild = NoRebuild /\ disturbed = FALSE
        /\ records = 0 /\ rebuilds = 0
    BY DEF UsageInit
  <2>4. QED  BY <2>1, <2>2, <2>3 DEF UsageTypeOK
<1>2. UsageCounted
  BY FS_EmptySet DEF UsageInit, UsageCounted
<1>3. UndisturbedRebuild
  BY DEF UsageInit, UndisturbedRebuild
<1>4. QED  BY <1>1, <1>2, <1>3 DEF UsageInv

\* A request loads its rollup.
LEMMA RecordLoadStep ==
  ASSUME UsageInv, NEW b \in Buckets, RecordLoad(b)
  PROVE  UsageInv'
<1> DEFINE d == [bucket |-> b, total |-> rollup[b], gone |-> FALSE, id |-> records + 1]
<1>1. /\ records < MaxRecords /\ records' = records + 1 /\ recording' = recording \cup {d}
      /\ UNCHANGED <<events, rollup, rebuild, disturbed, rebuilds>>
  BY DEF RecordLoad
<1>2. records \in 0..MaxRecords /\ rollup \in [Buckets -> Nat]
      /\ events \in [Buckets -> 0..MaxRecords]
  BY DEF UsageInv, UsageTypeOK
<1>3. d \in [bucket: Buckets, total: Nat, gone: BOOLEAN, id: 1..MaxRecords]
  BY <1>1, <1>2, UsageAssumption
<1>4. UsageTypeOK'
  <2>1. records' \in 0..MaxRecords
    BY <1>1, <1>2, UsageAssumption
  <2>2. recording' \subseteq [bucket: Buckets, total: Nat, gone: BOOLEAN, id: 1..MaxRecords]
    BY <1>1, <1>3 DEF UsageInv, UsageTypeOK
  <2>3. QED  BY <1>1, <2>1, <2>2 DEF UsageInv, UsageTypeOK
<1>5. d \notin recording /\ IsFiniteSet(recording)
  <2>1. d.id = records + 1
    OBVIOUS
  <2>2. QED  BY <1>2, <2>1 DEF UsageInv, UsageCounted
<1>6. /\ IsFiniteSet(recording') /\ Cardinality(recording') = Cardinality(recording) + 1
      /\ Cardinality(recording) \in Nat
  BY <1>1, <1>5, FS_AddElement, FS_CardinalityType
<1>7. UsageCounted'
  <2>1. \A e \in recording' : e.id <= records'
    <3>1. \A e \in recording : e.id <= records /\ e.id \in Nat
      BY DEF UsageInv, UsageCounted, UsageTypeOK
    <3>2. QED  BY <1>1, <1>2, <3>1
  <2>2. \A c \in Buckets : events'[c] + Cardinality(recording') <= records'
    <3>1. \A c \in Buckets : events[c] \in Nat /\ events[c] + Cardinality(recording) <= records
      BY <1>2 DEF UsageInv, UsageCounted
    <3>2. QED  BY <1>1, <1>2, <1>6, <3>1
  <2>3. QED  BY <1>6, <2>1, <2>2 DEF UsageCounted
<1>8. UndisturbedRebuild'
  BY <1>1 DEF UsageInv, UndisturbedRebuild
<1>9. QED  BY <1>4, <1>7, <1>8 DEF UsageInv

\* A request commits its event and its rollup, or fails.
LEMMA RecordCommitStep ==
  ASSUME UsageInv, NEW d \in recording, RecordCommit(d)
  PROVE  UsageInv'
<1>1. /\ recording' = recording \ {d}
      /\ \/ UNCHANGED <<events, rollup, disturbed>>
         \/ /\ events' = [events EXCEPT ![d.bucket] = @ + 1]
            /\ rollup' = [rollup EXCEPT ![d.bucket] = d.total + 1]
            /\ disturbed' = TRUE
      /\ UNCHANGED <<rebuild, records, rebuilds>>
  BY DEF RecordCommit
<1>2. /\ events \in [Buckets -> 0..MaxRecords] /\ rollup \in [Buckets -> Nat]
      /\ d.bucket \in Buckets /\ d.total \in Nat /\ records \in 0..MaxRecords
      /\ disturbed \in BOOLEAN
  BY DEF UsageInv, UsageTypeOK
<1>3. IsFiniteSet(recording)
  BY DEF UsageInv, UsageCounted
<1>4. /\ IsFiniteSet(recording') /\ Cardinality(recording') = Cardinality(recording) - 1
      /\ Cardinality(recording') \in Nat /\ Cardinality(recording) \in Nat
  <2>1. /\ IsFiniteSet(recording \ {d})
        /\ Cardinality(recording \ {d}) = Cardinality(recording) - 1
    BY <1>3, FS_RemoveElement
  <2>2. QED  BY <1>1, <1>3, <2>1, FS_CardinalityType
<1>5. \A b \in Buckets : /\ events'[b] \in Nat /\ events'[b] <= events[b] + 1
                         /\ events[b] + Cardinality(recording) <= records
  <2>1. \A b \in Buckets : events[b] \in Nat /\ events[b] + Cardinality(recording) <= records
    BY <1>2 DEF UsageInv, UsageCounted
  <2>2. \A b \in Buckets : events'[b] = events[b] \/ events'[b] = events[b] + 1
    BY <1>1, <1>2
  <2>3. QED  BY <2>1, <2>2
<1>6. \A b \in Buckets : events'[b] + Cardinality(recording') <= records
  <2> TAKE b \in Buckets
  <2>1. events[b] \in Nat /\ records \in Nat
    BY <1>2
  <2>2. QED  BY <1>4, <1>5, <2>1
<1>7. UsageCounted'
  BY <1>1, <1>4, <1>6 DEF UsageInv, UsageCounted
<1>8. events' \in [Buckets -> 0..MaxRecords] /\ rollup' \in [Buckets -> Nat]
      /\ disturbed' \in BOOLEAN
  <2>1. \A b \in Buckets : events'[b] \in 0..MaxRecords
    <3>1. \A b \in Buckets : events'[b] \in Nat /\ events'[b] <= records
      BY <1>2, <1>4, <1>5, <1>6
    <3>2. QED  BY <1>2, <3>1, UsageAssumption
  <2>2. events' \in [Buckets -> 0..MaxRecords]
    <3>1. CASE UNCHANGED events
      BY <1>2, <3>1
    <3>2. CASE events' = [events EXCEPT ![d.bucket] = @ + 1]
      <4>1. events'[d.bucket] = events[d.bucket] + 1
        BY <1>2, <3>2
      <4>2. events[d.bucket] + 1 \in 0..MaxRecords
        BY <1>2, <2>1, <4>1
      <4>3. QED  BY <1>2, <3>2, <4>2
    <3>3. QED  BY <1>1, <3>1, <3>2
  <2>3. rollup' \in [Buckets -> Nat] /\ disturbed' \in BOOLEAN
    <3>1. d.total + 1 \in Nat
      BY <1>2
    <3>2. QED  BY <1>1, <1>2, <3>1
  <2>4. QED  BY <2>2, <2>3
<1>9. UsageTypeOK'
  BY <1>1, <1>8 DEF UsageInv, UsageTypeOK
<1>10. UndisturbedRebuild'
  BY <1>1 DEF UsageInv, UndisturbedRebuild
<1>11. QED  BY <1>7, <1>9, <1>10 DEF UsageInv

\* A rebuild deletes, and later reads.
LEMMA RebuildReadStep ==
  ASSUME UsageInv, RebuildDelete \/ RebuildRead
  PROVE  UsageInv'
<1>1. /\ UNCHANGED <<events, rollup, recording, records>>
      /\ rebuild' # NoRebuild =>
           /\ rebuild' \in [step: {"read", "commit"}, deleted: SUBSET Buckets,
                            count: [Buckets -> Nat], found: [Buckets -> Nat]]
      /\ disturbed' \in BOOLEAN /\ rebuilds' \in 0..MaxRebuilds
  <2>1. /\ events \in [Buckets -> Nat] /\ rollup \in [Buckets -> Nat]
        /\ disturbed \in BOOLEAN /\ rebuilds \in 0..MaxRebuilds
    <3>1. 0..MaxRecords \subseteq Nat
      BY UsageAssumption
    <3>2. QED  BY <3>1 DEF UsageInv, UsageTypeOK
  <2>2. CASE RebuildDelete
    <3>1. rebuilds + 1 \in 0..MaxRebuilds /\ Deletes \in SUBSET Buckets
      BY <2>1, <2>2, UsageAssumption DEF RebuildDelete, Deletes
    <3>2. /\ UNCHANGED <<events, rollup, recording, records>>
          /\ rebuild' = [step |-> "read", deleted |-> Deletes, count |-> events, found |-> rollup]
          /\ disturbed' = FALSE /\ rebuilds' = rebuilds + 1
      BY <2>2 DEF RebuildDelete
    <3>3. rebuild' \in [step: {"read", "commit"}, deleted: SUBSET Buckets,
                        count: [Buckets -> Nat], found: [Buckets -> Nat]]
      BY <2>1, <3>1, <3>2
    <3>4. QED  BY <3>1, <3>2, <3>3
  <2>3. CASE RebuildRead
    <3>1. rebuild \in [step: {"read", "commit"}, deleted: SUBSET Buckets,
                       count: [Buckets -> Nat], found: [Buckets -> Nat]]
      BY <2>3 DEF RebuildRead, UsageInv, UsageTypeOK
    <3>2. [b \in Buckets |-> IF b \in rebuild.deleted THEN 0 ELSE rollup[b]] \in [Buckets -> Nat]
      BY <2>1
    <3>3. QED  BY <2>1, <2>3, <3>1, <3>2 DEF RebuildRead
  <2>4. QED  BY <2>2, <2>3
<1>2. UsageTypeOK' /\ UsageCounted'
  BY <1>1 DEF UsageInv, UsageTypeOK, UsageCounted
<1>3. UndisturbedRebuild'
  <2>1. CASE RebuildDelete
    BY <2>1 DEF RebuildDelete, Deletes, UndisturbedRebuild
  <2>2. CASE RebuildRead
    <3>1. rebuild \in [step: {"read", "commit"}, deleted: SUBSET Buckets,
                       count: [Buckets -> Nat], found: [Buckets -> Nat]]
      BY <2>2 DEF RebuildRead, UsageInv, UsageTypeOK
    <3>2. /\ rebuild'.deleted = rebuild.deleted /\ rebuild'.count = events
          /\ \A b \in Buckets :
               rebuild'.found[b] = IF b \in rebuild.deleted THEN 0 ELSE rollup[b]
          /\ rebuild # NoRebuild /\ disturbed' = disturbed /\ rollup' = rollup
          /\ events' = events
      BY <2>2, <3>1 DEF RebuildRead
    <3>3. QED  BY <3>2 DEF UsageInv, UndisturbedRebuild
  <2>3. QED  BY <2>1, <2>2
<1>4. QED  BY <1>2, <1>3 DEF UsageInv

\* A rebuild marks the requests whose rollup it has deleted: they keep their
\* number, so they are as many as they were.
LEMMA MarkGone ==
  ASSUME NEW A, NEW B, NEW C, NEW d \in [bucket: A, total: B, gone: BOOLEAN, id: C], NEW v \in BOOLEAN,
         NEW e, e = [d EXCEPT !.gone = @ \/ v]
  PROVE  e.id = d.id /\ e \in [bucket: A, total: B, gone: BOOLEAN, id: C]
  OBVIOUS

LEMMA RebuildCommitStep ==
  ASSUME UsageInv, RebuildCommit
  PROVE  UsageInv'
<1>1. /\ rebuild # NoRebuild /\ rebuild' = NoRebuild
      /\ UNCHANGED <<events, disturbed, records, rebuilds>>
      /\ \/ UNCHANGED <<rollup, recording>>
         \/ /\ rollup' = [b \in Buckets |->
                 IF rebuild.count[b] > 0 THEN rebuild.found[b] + rebuild.count[b]
                 ELSE IF Locked(b) THEN 0 ELSE rollup[b]]
            /\ recording' = {[d EXCEPT !.gone = @ \/ (d.total > 0 /\ Locked(d.bucket))]
                               : d \in recording}
  BY DEF RebuildCommit
<1>2. /\ rebuild \in [step: {"read", "commit"}, deleted: SUBSET Buckets,
                      count: [Buckets -> Nat], found: [Buckets -> Nat]]
      /\ rollup \in [Buckets -> Nat]
      /\ recording \subseteq [bucket: Buckets, total: Nat, gone: BOOLEAN, id: 1..MaxRecords]
  BY <1>1 DEF UsageInv, UsageTypeOK
<1>3. rollup' \in [Buckets -> Nat]
  <2>1. CASE UNCHANGED rollup
    BY <1>2, <2>1
  <2>2. CASE rollup' = [b \in Buckets |->
               IF rebuild.count[b] > 0 THEN rebuild.found[b] + rebuild.count[b]
               ELSE IF Locked(b) THEN 0 ELSE rollup[b]]
    <3>1. \A b \in Buckets : rebuild.count[b] \in Nat /\ rebuild.found[b] \in Nat /\ rollup[b] \in Nat
      BY <1>2
    <3>2. QED  BY <2>2, <3>1
  <2>3. QED  BY <1>1, <2>1, <2>2
<1>4. /\ recording' \subseteq [bucket: Buckets, total: Nat, gone: BOOLEAN, id: 1..MaxRecords]
      /\ \A e \in recording' : \E d \in recording : e.id = d.id
      /\ IsFiniteSet(recording') /\ Cardinality(recording') <= Cardinality(recording)
      /\ Cardinality(recording) \in Nat /\ Cardinality(recording') \in Nat
  <2>1. IsFiniteSet(recording) /\ Cardinality(recording) \in Nat
    BY FS_CardinalityType DEF UsageInv, UsageCounted
  <2>2. CASE UNCHANGED recording
    BY <1>2, <2>1, <2>2
  <2>3. CASE recording' = {[d EXCEPT !.gone = @ \/ (d.total > 0 /\ Locked(d.bucket))]
                             : d \in recording}
    <3> DEFINE mark(d) == [d EXCEPT !.gone = @ \/ (d.total > 0 /\ Locked(d.bucket))]
               f == [d \in recording |-> mark(d)]
    <3>1. \A e \in recording' : \E d \in recording : e = mark(d)
      BY <2>3
    <3>2. \A d \in recording :
            /\ mark(d).id = d.id
            /\ mark(d) \in [bucket: Buckets, total: Nat, gone: BOOLEAN, id: 1..MaxRecords]
      <4> TAKE d \in recording
      <4>1. d \in [bucket: Buckets, total: Nat, gone: BOOLEAN, id: 1..MaxRecords]
        BY <1>2
      <4>2. (d.total > 0 /\ Locked(d.bucket)) \in BOOLEAN
        OBVIOUS
      <4>3. QED  BY <4>1, <4>2, MarkGone
    <3> HIDE DEF mark
    <3>3. f \in Surjection(recording, recording')
      <4>1. recording' = {mark(d) : d \in recording}
        BY <2>3 DEF mark
      <4>2. QED  BY <4>1 DEF Surjection
    <3>4. IsFiniteSet(recording') /\ Cardinality(recording') <= Cardinality(recording)
      BY <2>1, <3>3, FS_Surjection
    <3>5. Cardinality(recording') \in Nat
      BY <3>4, FS_CardinalityType
    <3>6. QED  BY <2>1, <3>1, <3>2, <3>4, <3>5
  <2>4. QED  BY <1>1, <2>2, <2>3
<1>5. UsageTypeOK'
  BY <1>1, <1>3, <1>4 DEF UsageInv, UsageTypeOK
<1>6. UsageCounted'
  <2>1. \A b \in Buckets : /\ events[b] \in Nat /\ records \in Nat
                           /\ events[b] + Cardinality(recording) <= records
    BY DEF UsageInv, UsageCounted, UsageTypeOK
  <2>2. \A b \in Buckets : events[b] + Cardinality(recording') <= records
    BY <1>4, <2>1
  <2>3. QED  BY <1>1, <1>4, <2>2 DEF UsageInv, UsageCounted
<1>7. UndisturbedRebuild'
  BY <1>1 DEF UndisturbedRebuild
<1>8. QED  BY <1>5, <1>6, <1>7 DEF UsageInv

LEMMA UsageSteps == UsageInv /\ [UsageNext]_usageVars => UsageInv'
<1> SUFFICES ASSUME UsageInv, [UsageNext]_usageVars PROVE UsageInv'
  OBVIOUS
<1>1. CASE \E b \in Buckets : RecordLoad(b)
  BY <1>1, RecordLoadStep
<1>2. CASE \E d \in recording : RecordCommit(d)
  BY <1>2, RecordCommitStep
<1>3. CASE RebuildDelete \/ RebuildRead
  BY <1>3, RebuildReadStep
<1>4. CASE RebuildCommit
  BY <1>4, RebuildCommitStep
<1>5. CASE UNCHANGED usageVars
  BY <1>5 DEF usageVars, UsageInv, UsageTypeOK, UsageCounted, UndisturbedRebuild
<1>6. QED  BY <1>1, <1>2, <1>3, <1>4, <1>5 DEF UsageNext

\* Counters, copies and the rebuild keep their shapes.
THEOREM UsageTyped == UsageSpec => []UsageTypeOK
<1>1. UsageInv => UsageTypeOK
  BY DEF UsageInv
<1>2. QED  BY <1>1, UsageStarts, UsageSteps, PTL DEF UsageSpec

\* What an undisturbed rebuild commits, if it does, is what the events say.
LEMMA UndisturbedCommit ==
  ASSUME UsageInv, RebuildCommit, ~disturbed, rollup' # rollup
  PROVE  \A b \in Buckets : rollup'[b] = events[b]
<1>1. ~RebuildFails
      /\ rollup' = [b \in Buckets |->
            IF rebuild.count[b] > 0 THEN rebuild.found[b] + rebuild.count[b]
            ELSE IF Locked(b) THEN 0 ELSE rollup[b]]
  BY DEF RebuildCommit
<1>2. /\ rebuild.deleted = {b \in Buckets : rollup[b] # 0} /\ rebuild.count = events
      /\ rebuild # NoRebuild /\ \A b \in Buckets : rebuild.found[b] = 0
  BY DEF RebuildCommit, UsageInv, UndisturbedRebuild
<1>3. \A b \in Buckets : events[b] \in Nat
  BY DEF UsageInv, UsageTypeOK
<1>4. \A b \in Buckets : NewRows(b) = events[b] /\ ~(NewRows(b) > 1)
  BY <1>1, <1>2 DEF RebuildFails, NewRows
<1>5. \A b \in Buckets : Locked(b) <=> rollup[b] # 0
  BY <1>2 DEF Locked
<1>6. QED  BY <1>1, <1>2, <1>3, <1>4, <1>5

\* Any other step that makes a rollup drift from its events overlaps another.
LEMMA DriftStep ==
  ASSUME UsageInv, [UsageNext]_usageVars, NEW b \in Buckets, Drift(b)' # Drift(b)
  PROVE  \/ Drift(b)' = 0
         \/ \E d \in recording \ recording' : d.total # rollup[b]
         \/ rebuild # NoRebuild /\ rebuild' = NoRebuild /\ disturbed
<1>1. events[b] \in Nat /\ rollup[b] \in Nat
      /\ events \in [Buckets -> 0..MaxRecords] /\ rollup \in [Buckets -> Nat]
  BY DEF UsageInv, UsageTypeOK
<1>2. CASE \E d \in recording : RecordCommit(d)
  <2>1. PICK d \in recording : RecordCommit(d)
    BY <1>2
  <2>2. d \in recording \ recording'
    BY <2>1 DEF RecordCommit
  <2>3. SUFFICES ASSUME d.total = rollup[b] PROVE FALSE
    BY <2>2
  <2>4. /\ events' = [events EXCEPT ![d.bucket] = @ + 1]
        /\ rollup' = [rollup EXCEPT ![d.bucket] = d.total + 1]
    BY <2>1 DEF RecordCommit, Drift
  <2>5. CASE b = d.bucket
    BY <1>1, <2>3, <2>4, <2>5 DEF Drift
  <2>6. CASE b # d.bucket
    BY <1>1, <2>4, <2>6 DEF Drift
  <2>7. QED  BY <2>5, <2>6
<1>3. CASE RebuildCommit
  <2>1. rebuild # NoRebuild /\ rebuild' = NoRebuild /\ events' = events
    BY <1>3 DEF RebuildCommit
  <2>2. CASE ~disturbed
    <3>1. rollup' # rollup
      BY <2>1 DEF Drift
    <3>2. rollup'[b] = events[b]
      BY <1>3, <2>2, <3>1, UndisturbedCommit
    <3>3. QED  BY <1>1, <2>1, <3>2 DEF Drift
  <2>3. QED  BY <2>1, <2>2
<1>4. CASE UNCHANGED <<events, rollup>>
  BY <1>4 DEF Drift
<1>5. QED
  BY <1>2, <1>3, <1>4 DEF UsageNext, usageVars, RecordLoad, RebuildDelete, RebuildRead

\* A rollup comes apart from its events only where transactions overlap: two
\* requests of one bucket, the later adding to a counter that the other has
\* moved since it read it, or a request that commits while a rebuild runs.  That
\* a rebuild repairs it is not claimed: most fail (RebuildRestores).
THEOREM RollupsDriftOnlyByOverlap == UsageSpec => RollupsFollowEvents
<1>1. UsageInv /\ [UsageNext]_usageVars =>
        [\A b \in Buckets : Drift(b)' # Drift(b) =>
           \/ Drift(b)' = 0
           \/ \E d \in recording \ recording' : d.total # rollup[b]
           \/ rebuild # NoRebuild /\ rebuild' = NoRebuild /\ disturbed]_usageVars
  BY DriftStep
<1>2. QED
  BY <1>1, UsageStarts, UsageSteps, PTL DEF UsageSpec, RollupsFollowEvents

-----------------------------------------------------------------------------
(* The session of one browser tab.                                         *)

Call == [kind: {"login", "logout", "me", "api", "refresh"},
         who: Identities \cup {NoUser}, id: 0..MaxClicks,
         life: {"good", "expiring", "dead"},
         repeated: BOOLEAN, renewed: BOOLEAN, current: BOOLEAN,
         waiting: BOOLEAN, doubtful: BOOLEAN]

\* A refresh is asked for with a cookie, and the demo has none; it waits for none.
RefreshesAreCookies ==
  \A c \in calls : c.kind = "refresh" => c.who \in Persons \cup {NoUser} /\ ~c.waiting

\* A cookie that nobody else left is of who signed in last.
CookiesKnown ==
  /\ ~meddled => jar \in {rightful, NoUser}
  /\ \A c \in calls : c.kind = "refresh" /\ c.current /\ ~c.doubtful => c.who \in {rightful, NoUser}

\* While the tab signs somebody in, it speaks for nobody.
SigningInAlone ==
  \A c \in calls : c.kind = "login" /\ c.current =>
    /\ shown = NoUser
    /\ \A d \in calls : d.current => d.kind \in {"login", "refresh"}

\* The tab speaks for who signed in last.
SpeaksRightly ==
  tainted \/
    /\ token \in {rightful, NoUser} /\ shown \in {rightful, NoUser}
    /\ \A c \in calls : c.current /\ c.kind \in {"me", "api"} => c.who \in {rightful, NoUser}

BrowserInv ==
  /\ BrowserTypeOK /\ RefreshesAreCookies /\ CookiesKnown /\ SigningInAlone /\ SpeaksRightly

LEMMA BrowserTypes ==
  ASSUME BrowserInv
  PROVE  /\ jar \in Persons \cup {NoUser}
         /\ token \in Identities \cup {NoUser} /\ shown \in Identities \cup {NoUser}
         /\ rightful \in Identities \cup {NoUser}
         /\ spent \in BOOLEAN /\ meddled \in BOOLEAN /\ tainted \in BOOLEAN
         /\ clicks \in 0..MaxClicks /\ calls \subseteq Call
  BY DEF BrowserInv, BrowserTypeOK, Call

LEMMA BrowserTypesBack ==
  /\ jar' \in Persons \cup {NoUser}
  /\ token' \in Identities \cup {NoUser} /\ shown' \in Identities \cup {NoUser}
  /\ rightful' \in Identities \cup {NoUser}
  /\ spent' \in BOOLEAN /\ meddled' \in BOOLEAN /\ tainted' \in BOOLEAN
  /\ clicks' \in 0..MaxClicks /\ calls' \subseteq Call
  => BrowserTypeOK'
  BY DEF BrowserTypeOK, Call

\* A request that is asked for.
LEMMA RequestIs ==
  ASSUME BrowserInv, NEW who \in Identities \cup {NoUser}, NEW id, id \in 0..MaxClicks
  PROVE  /\ \E c \in Call : /\ c = Request("login", who, "good", id)
                            /\ c.kind = "login" /\ c.who = who
         /\ \E c \in Call : /\ c = Request("logout", who, "good", id)
                            /\ c.kind = "logout"
         /\ \E c \in Call : /\ c = Request("me", who, "good", id)
                            /\ c.kind = "me" /\ c.who = who
         /\ \E c \in Call : /\ c = Request("api", who, "good", id)
                            /\ c.kind = "api" /\ c.who = who
         /\ \E c \in Call : /\ c = Request("api", who, "dead", id)
                            /\ c.kind = "api" /\ c.who = who
         /\ \E c \in Call : /\ c = Request("refresh", who, "good", id)
                            /\ c.kind = "refresh" /\ c.who = who
                            /\ ~c.waiting /\ c.doubtful = meddled
<1>1. meddled \in BOOLEAN
  BY BrowserTypes
<1>2. ASSUME NEW kind \in {"login", "logout", "me", "api", "refresh"},
             NEW l \in {"good", "dead"}, NEW c,
             c = [kind |-> kind, who |-> who, life |-> l, id |-> id, repeated |-> FALSE,
                  renewed |-> FALSE, current |-> TRUE, waiting |-> FALSE,
                  doubtful |-> meddled /\ kind = "refresh"]
      PROVE  /\ c \in Call /\ c.kind = kind /\ c.who = who /\ ~c.waiting
             /\ kind = "refresh" => c.doubtful = meddled
  <2>1. (meddled /\ kind = "refresh") \in BOOLEAN
    OBVIOUS
  <2>2. c \in Call
    BY <1>2, <2>1 DEF Call
  <2>3. c.kind = kind /\ c.who = who /\ ~c.waiting
    BY <1>2
  <2>4. c.doubtful = (meddled /\ kind = "refresh")
    BY <1>2
  <2>5. kind = "refresh" => c.doubtful = meddled
    BY <1>1, <2>4
  <2>6. QED  BY <2>2, <2>3, <2>5
<1>3. \E c \in Call : c = Request("login", who, "good", id) /\ c.kind = "login" /\ c.who = who
  BY <1>2, ZenonT(30) DEF Request
<1>4. \E c \in Call : c = Request("logout", who, "good", id) /\ c.kind = "logout"
  BY <1>2 DEF Request
<1>5. \E c \in Call : c = Request("me", who, "good", id) /\ c.kind = "me" /\ c.who = who
  BY <1>2 DEF Request
<1>6. /\ \E c \in Call : c = Request("api", who, "good", id) /\ c.kind = "api" /\ c.who = who
      /\ \E c \in Call : c = Request("api", who, "dead", id) /\ c.kind = "api" /\ c.who = who
  BY <1>2 DEF Request
<1>7. \E c \in Call : /\ c = Request("refresh", who, "good", id)
                      /\ c.kind = "refresh" /\ c.who = who /\ ~c.waiting /\ c.doubtful = meddled
  BY <1>2 DEF Request
<1>8. QED  BY <1>3, <1>4, <1>5, <1>6, <1>7

\* What is left of the requests of an ended session.
LEMMA OutliveAre ==
  ASSUME BrowserInv, NEW cs \in SUBSET calls, NEW c \in Outlive(cs)
  PROVE  /\ c \in Call /\ c.current = FALSE
         /\ \E d \in cs : c.kind = d.kind /\ c.who = d.who /\ c.waiting = d.waiting
<1>1. PICK d \in cs : c = [d EXCEPT !.current = FALSE]
  BY DEF Outlive
<1>2. d \in Call
  BY BrowserTypes
<1>3. c \in Call
  BY <1>1, <1>2 DEF Call
<1>4. c.current = FALSE /\ c.kind = d.kind /\ c.who = d.who /\ c.waiting = d.waiting
  BY <1>1, <1>2 DEF Call
<1>5. QED  BY <1>3, <1>4

\* The session ends: what goes on in the tab with the requests that are added.
LEMMA ResetLeaves ==
  ASSUME BrowserInv, NEW cs \in SUBSET calls, NEW more \in SUBSET Call,
         \A c \in more : c.current => c.kind \in {"login", "me"} /\ (c.kind = "me" => c.who = NoUser),
         \A c, d \in more : c = d,
         \A c \in more : c.kind # "refresh",
         Reset(cs, more)
  PROVE  /\ token' = NoUser /\ shown' = NoUser /\ spent' = FALSE /\ tainted' = FALSE
         /\ calls' \subseteq Call
         /\ RefreshesAreCookies' /\ SigningInAlone' /\ SpeaksRightly'
         /\ \A c \in calls' : c.kind = "refresh" => c.current = FALSE
<1>1. /\ token' = NoUser /\ shown' = NoUser /\ spent' = FALSE /\ tainted' = FALSE
      /\ calls' = Outlive(cs) \cup more
  BY DEF Reset
<1>2. \A c \in Outlive(cs) : /\ c \in Call /\ c.current = FALSE
                             /\ \E d \in cs : /\ c.kind = d.kind /\ c.who = d.who
                                              /\ c.waiting = d.waiting
  BY OutliveAre
<1>3. calls' \subseteq Call
  BY <1>1, <1>2
<1>4. RefreshesAreCookies'
  BY <1>1, <1>2 DEF BrowserInv, RefreshesAreCookies
<1>5. SigningInAlone'
  BY <1>1, <1>2 DEF SigningInAlone
<1>6. SpeaksRightly'
  BY <1>1, <1>2 DEF SpeaksRightly
<1>7. \A c \in calls' : c.kind = "refresh" => c.current = FALSE
  BY <1>1, <1>2
<1>8. QED  BY <1>1, <1>3, <1>4, <1>5, <1>6, <1>7

\* Requests that settle, or change in nothing that counts here.
LEMMA CallsSettle ==
  ASSUME BrowserInv, calls' \subseteq Call,
         \A c \in calls' : \E d \in calls :
           /\ c.kind = d.kind /\ c.who = d.who /\ c.current = d.current
           /\ c.doubtful = d.doubtful /\ c.waiting = d.waiting,
         UNCHANGED <<token, shown, rightful>>, tainted => tainted'
  PROVE  /\ RefreshesAreCookies' /\ SigningInAlone' /\ SpeaksRightly'
         /\ \A c \in calls' :
              c.kind = "refresh" /\ c.current /\ ~c.doubtful => c.who \in {rightful, NoUser}
<1>1. RefreshesAreCookies'
  BY DEF BrowserInv, RefreshesAreCookies
<1>2. SigningInAlone'
  BY DEF BrowserInv, SigningInAlone
<1>3. SpeaksRightly'
  BY DEF BrowserInv, SpeaksRightly
<1>4. \A c \in calls' :
        c.kind = "refresh" /\ c.current /\ ~c.doubtful => c.who \in {rightful, NoUser}
  BY DEF BrowserInv, CookiesKnown
<1>5. QED  BY <1>1, <1>2, <1>3, <1>4

\* A request once more.
LEMMA RepeatIs ==
  ASSUME NEW c \in Call, NEW holder \in Identities \cup {NoUser},
         NEW life \in {"good", "expiring", "dead"}, NEW d, d = Repeat(c, holder, life)
  PROVE  /\ d \in Call /\ d.kind = c.kind /\ d.current = c.current /\ d.doubtful = c.doubtful
         /\ d.who = (IF c.kind = "login" THEN c.who ELSE holder)
<1>1. d = [c EXCEPT !.waiting = FALSE, !.repeated = TRUE, !.renewed = FALSE,
                    !.life = IF c.kind = "login" THEN @ ELSE life,
                    !.who = IF c.kind = "login" THEN @ ELSE holder]
  BY DEF Repeat
<1>2. /\ d.kind = c.kind /\ d.current = c.current /\ d.doubtful = c.doubtful
      /\ d.who = (IF c.kind = "login" THEN c.who ELSE holder)
  BY <1>1 DEF Call
<1>3. d \in Call
  BY <1>1 DEF Call
<1>4. QED  BY <1>2, <1>3

LEMMA BrowserStarts == BrowserInit => BrowserInv
<1> SUFFICES ASSUME BrowserInit PROVE BrowserInv
  OBVIOUS
<1> DEFINE c == Request("me", NoUser, "good", 0)
<1>1. calls = {c} /\ clicks = 0 /\ meddled = FALSE /\ tainted = FALSE /\ rightful = jar
      /\ token = NoUser /\ shown = NoUser /\ spent = FALSE /\ jar \in Persons \cup {NoUser}
  BY DEF BrowserInit
<1>2. c = [kind |-> "me", who |-> NoUser, life |-> "good", id |-> 0, repeated |-> FALSE,
           renewed |-> FALSE, current |-> TRUE, waiting |-> FALSE, doubtful |-> FALSE]
  BY <1>1 DEF Request
<1> HIDE DEF c
<1>3. 0 \in 0..MaxClicks
  BY BrowserAssumption
<1>4. c \in Call
  BY <1>2, <1>3 DEF Call
<1>5. c.kind = "me" /\ c.who = NoUser
  BY <1>2
<1>6. BrowserTypeOK
  BY <1>1, <1>3, <1>4 DEF BrowserTypeOK, Call, Identities
<1>7. RefreshesAreCookies /\ CookiesKnown /\ SigningInAlone /\ SpeaksRightly
  BY <1>1, <1>5 DEF RefreshesAreCookies, CookiesKnown, SigningInAlone, SpeaksRightly
<1>8. QED  BY <1>6, <1>7 DEF BrowserInv

LEMMA ClickCounts ==
  ASSUME BrowserInv, Click
  PROVE  clicks' \in 0..MaxClicks /\ clicks + 1 \in 0..MaxClicks
<1>1. clicks \in 0..MaxClicks /\ MaxClicks \in Nat
  BY BrowserTypes, BrowserAssumption
<1>2. QED  BY <1>1 DEF Click

\* The session ends with the jar, its owner and its history as they were.
LEMMA ResetStep ==
  ASSUME BrowserInv, NEW cs \in SUBSET calls, NEW more \in SUBSET Call,
         \A c \in more : c.current => c.kind \in {"login", "me"} /\ (c.kind = "me" => c.who = NoUser),
         \A c, d \in more : c = d,
         \A c \in more : c.kind # "refresh",
         Reset(cs, more), clicks' \in 0..MaxClicks,
         jar' \in {jar, NoUser}, rightful' \in {rightful, NoUser}, meddled' \in BOOLEAN,
         ~meddled' => jar' \in {rightful', NoUser}
  PROVE  BrowserInv'
<1>1. /\ token' = NoUser /\ shown' = NoUser /\ spent' = FALSE /\ tainted' = FALSE
      /\ calls' \subseteq Call
      /\ RefreshesAreCookies' /\ SigningInAlone' /\ SpeaksRightly'
      /\ \A c \in calls' : c.kind = "refresh" => c.current = FALSE
  BY ResetLeaves
<1>2. BrowserTypeOK'
  BY <1>1, BrowserTypes, BrowserTypesBack
<1>3. CookiesKnown'
  BY <1>1 DEF CookiesKnown
<1>4. QED  BY <1>1, <1>2, <1>3 DEF BrowserInv

LEMMA SignInStep ==
  ASSUME BrowserInv, NEW u \in Identities \cup {NoUser}, SignIn(u)
  PROVE  BrowserInv'
<1> DEFINE n == clicks + 1
           c == Request("login", u, "good", n)
<1>1. Click /\ Reset(calls, {c}) /\ UNCHANGED <<jar, rightful, meddled>>
  BY DEF SignIn
<1>2. c \in Call /\ c.kind = "login"
  <2>1. n \in 0..MaxClicks
    BY <1>1, ClickCounts
  <2> HIDE DEF n
  <2>2. QED  BY <2>1, RequestIs
<1>3. meddled' \in BOOLEAN /\ (~meddled' => jar' \in {rightful', NoUser})
  BY <1>1, BrowserTypes DEF BrowserInv, CookiesKnown
<1> HIDE DEF c
<1>4. QED  BY <1>1, <1>2, <1>3, ResetStep, ClickCounts

LEMMA SignOutStep == ASSUME BrowserInv, SignOut PROVE BrowserInv'
<1> DEFINE n == clicks + 1
           r == Request("logout", token, "good", n)
           c == [r EXCEPT !.current = FALSE]
<1>1. Click /\ Reset(calls, {c}) /\ rightful' = NoUser /\ meddled' = (jar # NoUser) /\ jar' = jar
  BY DEF SignOut
<1>2. r \in Call /\ r.kind = "logout"
  <2>1. n \in 0..MaxClicks /\ token \in Identities \cup {NoUser}
    BY <1>1, ClickCounts, BrowserTypes
  <2> HIDE DEF n
  <2>2. QED  BY <2>1, RequestIs
<1> HIDE DEF r
<1>3. c \in Call /\ c.kind = "logout" /\ c.current = FALSE
  BY <1>2 DEF Call
<1> HIDE DEF c
<1>4. meddled' \in BOOLEAN /\ (~meddled' => jar' \in {rightful', NoUser})
  BY <1>1
<1>5. QED  BY <1>1, <1>3, <1>4, ResetStep, ClickCounts

LEMMA ReloadStep == ASSUME BrowserInv, Reload PROVE BrowserInv'
<1> DEFINE n == clicks + 1
           c == Request("me", NoUser, "good", n)
<1>1. Click /\ Reset({}, {c}) /\ UNCHANGED <<jar, rightful, meddled>>
  BY DEF Reload
<1>2. c \in Call /\ c.kind = "me" /\ c.who = NoUser
  <2>1. n \in 0..MaxClicks /\ NoUser \in Identities \cup {NoUser}
    BY <1>1, ClickCounts
  <2> HIDE DEF n
  <2>2. QED  BY <2>1, RequestIs
<1>3. meddled' \in BOOLEAN /\ (~meddled' => jar' \in {rightful', NoUser})
  BY <1>1, BrowserTypes DEF BrowserInv, CookiesKnown
<1> HIDE DEF c
<1>4. QED  BY <1>1, <1>2, <1>3, ResetStep, ClickCounts

LEMMA AskDataStep == ASSUME BrowserInv, AskData PROVE BrowserInv'
<1> DEFINE life == IF spent THEN "dead" ELSE "good"
           n == clicks + 1
           c == Request("api", token, life, n)
<1>1. /\ shown # NoUser /\ Click /\ calls' = calls \cup {c}
      /\ UNCHANGED <<jar, token, spent, shown, rightful, meddled, tainted>>
  BY DEF AskData
<1>2. (life = "good" \/ life = "dead") /\ token \in Identities \cup {NoUser}
  BY BrowserTypes
<1> HIDE DEF life
<1>3. c \in Call /\ c.kind = "api" /\ c.who = token
  <2>1. n \in 0..MaxClicks
    BY <1>1, ClickCounts
  <2> HIDE DEF n
  <2>2. QED  BY <1>2, <2>1, RequestIs
<1> HIDE DEF c
<1>4. BrowserTypeOK'
  BY <1>1, <1>3, ClickCounts, BrowserTypes, BrowserTypesBack
<1>5. RefreshesAreCookies' /\ CookiesKnown'
  BY <1>1, <1>3 DEF BrowserInv, RefreshesAreCookies, CookiesKnown
<1>6. SigningInAlone'
  BY <1>1, <1>3 DEF BrowserInv, SigningInAlone
<1>7. SpeaksRightly'
  BY <1>1, <1>3 DEF BrowserInv, SpeaksRightly
<1>8. QED  BY <1>4, <1>5, <1>6, <1>7 DEF BrowserInv

LEMMA OtherTabStep ==
  ASSUME BrowserInv, NEW u \in Persons \cup {NoUser}, OtherTab(u)
  PROVE  BrowserInv'
<1>1. /\ Click /\ jar' = u /\ meddled' = TRUE
      /\ UNCHANGED <<token, spent, shown, calls, rightful, tainted>>
  BY DEF OtherTab
<1>2. BrowserTypeOK'
  BY <1>1, ClickCounts, BrowserTypes, BrowserTypesBack
<1>3. RefreshesAreCookies' /\ CookiesKnown' /\ SigningInAlone' /\ SpeaksRightly'
  BY <1>1 DEF BrowserInv, RefreshesAreCookies, CookiesKnown, SigningInAlone, SpeaksRightly
<1>4. QED  BY <1>2, <1>3 DEF BrowserInv

LEMMA ExpireStep == ASSUME BrowserInv, Expire PROVE BrowserInv'
<1>1. /\ spent' = TRUE
      /\ calls' = {IF c.kind \in {"me", "api"} /\ c.life = "good"
                      THEN [c EXCEPT !.life = "expiring"] ELSE c : c \in calls}
      /\ UNCHANGED <<jar, token, shown, rightful, meddled, tainted, clicks>>
  BY DEF Expire
<1>2. ASSUME NEW d \in Call, NEW c, c = [d EXCEPT !.life = "expiring"]
      PROVE  /\ c \in Call /\ c.kind = d.kind /\ c.who = d.who /\ c.current = d.current
             /\ c.doubtful = d.doubtful /\ c.waiting = d.waiting
  <2>1. c \in Call
    BY <1>2 DEF Call
  <2>2. /\ c.kind = d.kind /\ c.who = d.who /\ c.current = d.current
        /\ c.doubtful = d.doubtful /\ c.waiting = d.waiting
    BY <1>2 DEF Call
  <2>3. QED  BY <2>1, <2>2
<1>3. ASSUME NEW c \in calls'
      PROVE  c \in Call /\ \E d \in calls :
               /\ c.kind = d.kind /\ c.who = d.who /\ c.current = d.current
               /\ c.doubtful = d.doubtful /\ c.waiting = d.waiting
  <2>1. PICK d \in calls : c = IF d.kind \in {"me", "api"} /\ d.life = "good"
                               THEN [d EXCEPT !.life = "expiring"] ELSE d
    BY <1>1
  <2>2. d \in Call
    BY BrowserTypes
  <2>3. CASE c = d
    BY <2>2, <2>3
  <2>4. CASE c = [d EXCEPT !.life = "expiring"]
    BY <1>2, <2>2, <2>4
  <2>5. QED  BY <2>1, <2>3, <2>4
<1>4. /\ RefreshesAreCookies' /\ SigningInAlone' /\ SpeaksRightly'
      /\ \A c \in calls' :
           c.kind = "refresh" /\ c.current /\ ~c.doubtful => c.who \in {rightful, NoUser}
  <2>1. calls' \subseteq Call
    BY <1>3
  <2>2. \A c \in calls' : \E d \in calls :
          /\ c.kind = d.kind /\ c.who = d.who /\ c.current = d.current
          /\ c.doubtful = d.doubtful /\ c.waiting = d.waiting
    BY <1>3
  <2>3. UNCHANGED <<token, shown, rightful>> /\ (tainted => tainted')
    BY <1>1
  <2>4. QED  BY <2>1, <2>2, <2>3, CallsSettle
<1>5. BrowserTypeOK'
  BY <1>1, <1>3, BrowserTypes, BrowserTypesBack
<1>6. CookiesKnown'
  BY <1>1, <1>4 DEF BrowserInv, CookiesKnown
<1>7. QED  BY <1>4, <1>5, <1>6 DEF BrowserInv

\* A request is settled, and nothing but the jar is written.
LEMMA SettleStep ==
  ASSUME BrowserInv, calls' \subseteq calls, UNCHANGED <<token, spent, shown, rightful, tainted, clicks>>,
         jar' \in Persons \cup {NoUser}, meddled' \in BOOLEAN, ~meddled' => jar' \in {rightful, NoUser}
  PROVE  BrowserInv'
<1>1. \A c \in calls' : \E d \in calls :
        /\ c.kind = d.kind /\ c.who = d.who /\ c.current = d.current
        /\ c.doubtful = d.doubtful /\ c.waiting = d.waiting
  OBVIOUS
<1>2. calls' \subseteq Call
  BY BrowserTypes
<1>3. /\ RefreshesAreCookies' /\ SigningInAlone' /\ SpeaksRightly'
      /\ \A c \in calls' :
           c.kind = "refresh" /\ c.current /\ ~c.doubtful => c.who \in {rightful, NoUser}
  BY <1>1, <1>2, CallsSettle
<1>4. BrowserTypeOK'
  BY <1>2, BrowserTypes, BrowserTypesBack
<1>5. CookiesKnown'
  BY <1>3 DEF CookiesKnown
<1>6. QED  BY <1>3, <1>4, <1>5 DEF BrowserInv

LEMMA SignedInStep ==
  ASSUME BrowserInv, NEW c \in calls, NEW v \in Verdicts(c), SignedIn(c, v)
  PROVE  BrowserInv'
<1>1. /\ c.kind = "login" /\ jar' = CookieOf(c.who)
      /\ UNCHANGED <<shown, clicks>>
  BY DEF SignedIn
<1>2. c \in Call
  BY BrowserTypes
<1>3. c.who \in Identities \cup {NoUser} /\ c.id \in 0..MaxClicks
  BY <1>2 DEF Call
<1>4. CookieOf(c.who) \in {c.who, NoUser} /\ CookieOf(c.who) \in Persons \cup {NoUser}
  BY <1>3 DEF CookieOf, Identities
<1>5. CASE ~Current(c)
  <2>1. meddled' = TRUE /\ calls' = calls \ {c} /\ UNCHANGED <<token, spent, rightful, tainted>>
    BY <1>5 DEF SignedIn
  <2>2. QED  BY <1>1, <1>4, <2>1, SettleStep
<1>6. CASE Current(c)
  <2> DEFINE id == c.id
             who == c.who
             m == Request("me", who, "good", id)
  <2>1. /\ token' = who /\ spent' = FALSE
        /\ rightful' = who /\ meddled' = FALSE /\ tainted' = FALSE
        /\ calls' = Outlive(calls \ {c}) \cup {m}
    BY <1>6 DEF SignedIn
  <2>2. shown' = NoUser
    BY <1>1, <1>6 DEF BrowserInv, SigningInAlone, Current
  <2>3. who \in Identities \cup {NoUser} /\ id \in 0..MaxClicks /\ jar' \in {who, NoUser}
        /\ jar' \in Persons \cup {NoUser}
    BY <1>1, <1>3, <1>4
  <2> HIDE DEF id, who
  <2>4. m \in Call /\ m.kind = "me" /\ m.who = who
    BY <2>3, RequestIs
  <2> HIDE DEF m
  <2>5. \A d \in Outlive(calls \ {c}) :
          /\ d \in Call /\ d.current = FALSE
          /\ \E e \in calls : d.kind = e.kind /\ d.who = e.who /\ d.waiting = e.waiting
    <3>1. calls \ {c} \in SUBSET calls
      OBVIOUS
    <3>2. QED  BY <3>1, OutliveAre
  <2>6. BrowserTypeOK'
    <3>1. calls' \subseteq Call
      BY <2>1, <2>4, <2>5
    <3>2. clicks' \in 0..MaxClicks
      BY <1>1, BrowserTypes
    <3>3. QED  BY <2>1, <2>2, <2>3, <3>1, <3>2, BrowserTypesBack
  <2>7. RefreshesAreCookies'
    BY <2>1, <2>4, <2>5 DEF BrowserInv, RefreshesAreCookies
  <2>8. CookiesKnown'
    BY <2>1, <2>3, <2>4, <2>5 DEF CookiesKnown
  <2>9. SigningInAlone'
    BY <2>1, <2>4, <2>5 DEF SigningInAlone
  <2>10. SpeaksRightly'
    BY <2>1, <2>2, <2>4, <2>5 DEF SpeaksRightly
  <2>11. QED  BY <2>6, <2>7, <2>8, <2>9, <2>10 DEF BrowserInv
<1>7. QED  BY <1>5, <1>6

LEMMA SignedOutStep ==
  ASSUME BrowserInv, NEW c \in calls, NEW v \in Verdicts(c), SignedOut(c, v)
  PROVE  BrowserInv'
<1>1. /\ jar' = IF v = "ok" THEN NoUser ELSE jar
      /\ meddled' = (meddled /\ v # "ok") /\ calls' = calls \ {c}
      /\ UNCHANGED <<token, spent, shown, rightful, tainted, clicks>>
  BY DEF SignedOut
<1>2. jar' \in Persons \cup {NoUser}
  BY <1>1, BrowserTypes
<1>3. meddled' \in BOOLEAN
  BY <1>1
<1>4. ~meddled' => jar' \in {rightful, NoUser}
  BY <1>1 DEF BrowserInv, CookiesKnown
<1>5. calls' \subseteq calls
  BY <1>1
<1>6. QED  BY <1>1, <1>2, <1>3, <1>4, <1>5, SettleStep

LEMMA DeliveredStep ==
  ASSUME BrowserInv, NEW c \in calls, NEW v \in Verdicts(c), Delivered(c, v)
  PROVE  BrowserInv'
<1>1. /\ c.kind \in {"me", "api"} /\ calls' = calls \ {c}
      /\ shown' = IF c.kind = "me" /\ Current(c) THEN c.who ELSE shown
      /\ UNCHANGED <<jar, token, spent, rightful, meddled, tainted, clicks>>
  BY DEF Delivered
<1>2. meddled' \in BOOLEAN /\ jar' \in Persons \cup {NoUser}
      /\ (~meddled => jar \in {rightful, NoUser}) /\ calls' \subseteq calls
  BY <1>1, BrowserTypes DEF BrowserInv, CookiesKnown
<1>3. CASE ~(c.kind = "me" /\ Current(c))
  BY <1>1, <1>2, <1>3, SettleStep
<1>4. CASE c.kind = "me" /\ Current(c)
  <2>1. c \in Call
    BY BrowserTypes
  <2>2. c.who \in Identities \cup {NoUser}
    BY <2>1 DEF Call
  <2>3. shown' = c.who
    BY <1>1, <1>4
  <2>4. BrowserTypeOK'
    BY <1>1, <2>2, <2>3, BrowserTypes, BrowserTypesBack
  <2>5. RefreshesAreCookies' /\ CookiesKnown'
    BY <1>1 DEF BrowserInv, RefreshesAreCookies, CookiesKnown
  <2>6. SigningInAlone'
    BY <1>1, <1>4 DEF BrowserInv, SigningInAlone, Current
  <2>7. SpeaksRightly'
    BY <1>1, <1>4, <2>3 DEF BrowserInv, SpeaksRightly, Current
  <2>8. QED  BY <2>4, <2>5, <2>6, <2>7 DEF BrowserInv
<1>5. QED  BY <1>3, <1>4

\* A request ends in an error.
LEMMA FailStep ==
  ASSUME BrowserInv, NEW c \in calls, Fail(c)
  PROVE  BrowserInv'
<1>1. UNCHANGED <<jar, rightful, meddled, clicks>>
  BY DEF Fail
<1>2. /\ clicks' \in 0..MaxClicks /\ meddled' \in BOOLEAN /\ jar' \in Persons \cup {NoUser}
      /\ ~meddled' => jar' \in {rightful', NoUser}
  BY <1>1, BrowserTypes DEF BrowserInv, CookiesKnown
<1>3. CASE Reset(calls \ {c}, {})
  BY <1>1, <1>2, <1>3, ResetStep
<1>4. CASE calls' = calls \ {c} /\ UNCHANGED <<token, spent, shown, tainted>>
  BY <1>1, <1>2, <1>4, SettleStep
<1>5. QED  BY <1>3, <1>4 DEF Fail

LEMMA RefusedAgainStep ==
  ASSUME BrowserInv, NEW c \in calls, NEW v \in Verdicts(c), RefusedAgain(c, v)
  PROVE  BrowserInv'
<1>1. Reset(calls \ {c}, {}) /\ UNCHANGED <<jar, rightful, meddled, clicks>>
  BY DEF RefusedAgain
<1>2. /\ clicks' \in 0..MaxClicks /\ meddled' \in BOOLEAN
      /\ ~meddled' => jar' \in {rightful', NoUser}
  BY <1>1, BrowserTypes DEF BrowserInv, CookiesKnown
<1>3. QED  BY <1>1, <1>2, ResetStep

\* The first 401 of a request: it goes out once more, or waits for a refresh.
LEMMA RefusedStep ==
  ASSUME BrowserInv, NEW c \in calls, NEW v \in Verdicts(c), Refused(c, v)
  PROVE  BrowserInv'
<1> DEFINE rest == calls \ {c}
           life == IF spent THEN "dead" ELSE "good"
           d == Repeat(c, token, life)
           w == [c EXCEPT !.waiting = TRUE]
           id == c.id
           r == Request("refresh", jar, "good", id)
<1>1. /\ v = "refused" /\ c.kind # "refresh" /\ Current(c)
      /\ \/ calls' = rest \cup {d}
         \/ calls' = rest \cup {w}
         \/ calls' = rest \cup {w} \cup {r}
      /\ UNCHANGED <<jar, token, spent, shown, rightful, meddled, tainted, clicks>>
  BY DEF Refused
<1>2. c \in Call
  BY BrowserTypes
<1>3. id \in 0..MaxClicks /\ c.kind # "logout"
  <2>1. id \in 0..MaxClicks
    BY <1>2 DEF Call
  <2>2. c.kind = "logout" => v # "refused"
    BY DEF Verdicts
  <2>3. QED  BY <1>1, <2>1, <2>2
<1>4. life \in {"good", "expiring", "dead"} /\ token \in Identities \cup {NoUser}
  BY BrowserTypes
<1>5. /\ w \in Call /\ w.kind = c.kind /\ w.who = c.who /\ w.current = c.current
      /\ w.doubtful = c.doubtful
  BY <1>2 DEF Call
<1> HIDE DEF w, id, life
<1>6. /\ d \in Call /\ d.kind = c.kind /\ d.current = c.current /\ d.doubtful = c.doubtful
      /\ d.who = (IF c.kind = "login" THEN c.who ELSE token)
  BY <1>2, <1>4, RepeatIs
<1>7. /\ r \in Call /\ r.kind = "refresh" /\ r.who = jar /\ ~r.waiting /\ r.doubtful = meddled
  <2>1. jar \in Identities \cup {NoUser}
    BY BrowserTypes DEF Identities
  <2>2. QED  BY <1>3, <2>1, RequestIs
<1> HIDE DEF d, r
<1>8. calls' \subseteq Call
  BY <1>1, <1>5, <1>6, <1>7, BrowserTypes
<1>9. BrowserTypeOK'
  BY <1>1, <1>8, BrowserTypes, BrowserTypesBack
<1>10. RefreshesAreCookies'
  BY <1>1, <1>5, <1>6, <1>7, BrowserTypes DEF BrowserInv, RefreshesAreCookies
<1>11. CookiesKnown'
  BY <1>1, <1>5, <1>6, <1>7 DEF BrowserInv, CookiesKnown
<1>12. SigningInAlone'
  BY <1>1, <1>5, <1>6, <1>7 DEF BrowserInv, SigningInAlone, Current
<1>13. SpeaksRightly'
  BY <1>1, <1>5, <1>6, <1>7 DEF BrowserInv, SpeaksRightly, Current
<1>14. QED  BY <1>9, <1>10, <1>11, <1>12, <1>13 DEF BrowserInv

LEMMA NotRefreshedStep ==
  ASSUME BrowserInv, NEW r \in calls, NEW v \in Verdicts(r), NotRefreshed(r, v)
  PROVE  BrowserInv'
<1>1. /\ jar' \in {jar, NoUser} /\ meddled' = (meddled /\ jar' # NoUser)
      /\ UNCHANGED <<rightful, clicks>>
  BY DEF NotRefreshed
<1>2. /\ clicks' \in 0..MaxClicks /\ jar' \in Persons \cup {NoUser}
      /\ ~meddled' => jar' \in {rightful', NoUser}
  BY <1>1, BrowserTypes DEF BrowserInv, CookiesKnown
<1>3. meddled' \in BOOLEAN
  BY <1>1
<1>4. CASE Reset(calls \ {r}, {})
  BY <1>1, <1>2, <1>3, <1>4, ResetStep
<1>5. CASE calls' = calls \ {r} /\ UNCHANGED <<token, spent, shown, tainted>>
  BY <1>1, <1>2, <1>3, <1>5, SettleStep
<1>6. QED  BY <1>4, <1>5 DEF NotRefreshed

\* A refresh comes back with a token and a cookie.
LEMMA RefreshedStep ==
  ASSUME BrowserInv, NEW r \in calls, NEW v \in Verdicts(r), Refreshed(r, v)
  PROVE  BrowserInv'
<1>1. /\ r.kind = "refresh" /\ v = "ok" /\ jar' = r.who
      /\ meddled' = (~Current(r) \/ r.doubtful)
      /\ tainted' = (tainted \/ (Current(r) /\ r.doubtful))
      /\ UNCHANGED <<shown, rightful, clicks>>
  BY DEF Refreshed
<1>2. r \in Call
  BY BrowserTypes
<1>3. /\ r.who \in Persons \cup {NoUser} /\ r.doubtful \in BOOLEAN /\ r.current \in BOOLEAN
      /\ r.current /\ ~r.doubtful => r.who \in {rightful, NoUser}
  BY <1>1, <1>2 DEF BrowserInv, RefreshesAreCookies, CookiesKnown, Call
<1>4. r.who \in Identities \cup {NoUser} /\ tainted' \in BOOLEAN /\ meddled' \in BOOLEAN
  BY <1>1, <1>3 DEF Identities, Current
<1>5. CASE ~Current(r)
  <2>1. calls' = calls \ {r} /\ UNCHANGED <<token, spent>> /\ meddled' = TRUE
        /\ tainted' = tainted
    BY <1>1, <1>5, BrowserTypes DEF Refreshed, Renews
  <2>2. QED  BY <1>1, <1>3, <2>1, SettleStep
<1>6. CASE Current(r)
  <2>1. /\ token' = r.who /\ spent' = FALSE
        /\ calls' = {IF ~Current(c) THEN c
                     ELSE IF c.waiting THEN Repeat(c, r.who, "good")
                     ELSE [c EXCEPT !.renewed = TRUE] : c \in calls \ {r}}
    BY <1>6 DEF Refreshed, Renews
  <2>2. ASSUME NEW d \in calls'
        PROVE  d \in Call /\ \E c \in calls :
                 /\ d.kind = c.kind /\ d.current = c.current /\ d.doubtful = c.doubtful
                 /\ d.who = c.who \/ (c.waiting /\ c.kind # "login" /\ d.who = r.who)
                 /\ ~c.waiting => d.waiting = c.waiting
    <3>1. PICK c \in calls :
            d = IF ~Current(c) THEN c
                ELSE IF c.waiting THEN Repeat(c, r.who, "good")
                ELSE [c EXCEPT !.renewed = TRUE]
      BY <2>1
    <3>2. c \in Call
      BY BrowserTypes
    <3>3. CASE d = c
      BY <3>2, <3>3
    <3>4. CASE c.waiting /\ d = Repeat(c, r.who, "good")
      <4>1. /\ d \in Call /\ d.kind = c.kind /\ d.current = c.current /\ d.doubtful = c.doubtful
            /\ d.who = (IF c.kind = "login" THEN c.who ELSE r.who)
        BY <1>4, <3>2, <3>4, RepeatIs
      <4>2. QED  BY <3>4, <4>1
    <3>5. CASE d = [c EXCEPT !.renewed = TRUE]
      <4>1. d \in Call
        BY <3>2, <3>5 DEF Call
      <4>2. /\ d.kind = c.kind /\ d.current = c.current /\ d.doubtful = c.doubtful
            /\ d.who = c.who /\ d.waiting = c.waiting
        BY <3>2, <3>5 DEF Call
      <4>3. QED  BY <4>1, <4>2
    <3>6. QED  BY <3>1, <3>3, <3>4, <3>5
  <2>3. BrowserTypeOK'
    <3>1. calls' \subseteq Call
      BY <2>2
    <3>2. QED  BY <1>1, <1>3, <1>4, <2>1, <3>1, BrowserTypes, BrowserTypesBack
  <2>4. RefreshesAreCookies'
    BY <2>2 DEF BrowserInv, RefreshesAreCookies
  <2>5. CookiesKnown'
    <3>1. ~meddled' => jar' \in {rightful', NoUser}
      BY <1>1, <1>3, <1>6 DEF Current
    <3>2. ASSUME NEW d \in calls', d.kind = "refresh", d.current, ~d.doubtful
          PROVE  d.who \in {rightful, NoUser}
      BY <2>2, <3>2 DEF BrowserInv, RefreshesAreCookies, CookiesKnown
    <3>3. QED  BY <1>1, <3>1, <3>2 DEF CookiesKnown
  <2>6. SigningInAlone'
    BY <1>1, <2>2 DEF BrowserInv, SigningInAlone
  <2>7. SpeaksRightly'
    <3> SUFFICES ASSUME ~tainted'
                 PROVE  /\ token' \in {rightful, NoUser} /\ shown \in {rightful, NoUser}
                        /\ \A c \in calls' : c.current /\ c.kind \in {"me", "api"} =>
                             c.who \in {rightful, NoUser}
      BY <1>1 DEF SpeaksRightly
    <3>1. ~tainted /\ r.who \in {rightful, NoUser}
      BY <1>1, <1>3, <1>6 DEF Current
    <3>2. QED  BY <2>1, <2>2, <3>1 DEF BrowserInv, SpeaksRightly
  <2>8. QED  BY <2>3, <2>4, <2>5, <2>6, <2>7 DEF BrowserInv
<1>7. QED  BY <1>5, <1>6

LEMMA BrowserSteps == BrowserInv /\ [BrowserNext]_browserVars => BrowserInv'
<1> SUFFICES ASSUME BrowserInv, [BrowserNext]_browserVars PROVE BrowserInv'
  OBVIOUS
<1>1. ASSUME NEW u \in Identities \cup {NoUser}, SignIn(u)  PROVE  BrowserInv'
  BY <1>1, SignInStep
<1>2. ASSUME NEW u \in Persons \cup {NoUser}, OtherTab(u)  PROVE  BrowserInv'
  BY <1>2, OtherTabStep
<1>3. ASSUME SignOut \/ AskData \/ Reload \/ Expire  PROVE  BrowserInv'
  BY <1>3, SignOutStep, AskDataStep, ReloadStep, ExpireStep
<1>4. ASSUME NEW c \in calls, GiveUp(c)  PROVE  BrowserInv'
  BY <1>4, FailStep DEF GiveUp
<1>5. ASSUME NEW c \in calls, NEW v \in Verdicts(c), Failed(c, v)  PROVE  BrowserInv'
  BY <1>5, FailStep DEF Failed
<1>6. ASSUME NEW c \in calls, NEW v \in Verdicts(c),
             SignedIn(c, v) \/ SignedOut(c, v) \/ Delivered(c, v)
      PROVE  BrowserInv'
  BY <1>6, SignedInStep, SignedOutStep, DeliveredStep
<1>7. ASSUME NEW c \in calls, NEW v \in Verdicts(c), Refused(c, v) \/ RefusedAgain(c, v)
      PROVE  BrowserInv'
  BY <1>7, RefusedStep, RefusedAgainStep
<1>8. ASSUME NEW c \in calls, NEW v \in Verdicts(c), Refreshed(c, v) \/ NotRefreshed(c, v)
      PROVE  BrowserInv'
  BY <1>8, RefreshedStep, NotRefreshedStep
<1>9. CASE UNCHANGED browserVars
  BY <1>9 DEF browserVars, BrowserInv, BrowserTypeOK, RefreshesAreCookies, CookiesKnown,
              SigningInAlone, SpeaksRightly
<1>10. QED
  BY <1>1, <1>2, <1>3, <1>4, <1>5, <1>6, <1>7, <1>8, <1>9 DEF BrowserNext

LEMMA BrowserHolds == BrowserSpec => []BrowserInv
<1>1. QED  BY BrowserStarts, BrowserSteps, PTL DEF BrowserSpec

\* The jar, the memory and the requests of a tab have the shapes of client.ts
\* and AuthContext.tsx, for any number of users and clicks.
THEOREM TabTyped == BrowserSpec => []BrowserTypeOK
<1>1. BrowserInv => BrowserTypeOK
  BY DEF BrowserInv
<1>2. QED  BY BrowserHolds, <1>1, PTL

\* Whatever answers are late, the tab shows, holds the token of and asks for
\* nobody but who signed in last in it, unless a cookie that somebody else left
\* in the jar was refreshed (authSession and authOperation in client.ts and
\* AuthContext.tsx).
THEOREM TabSpeaksForOne == BrowserSpec => []SpeaksForWhoSignedIn
<1>1. BrowserInv => SpeaksForWhoSignedIn
  BY DEF BrowserInv, SpeaksRightly, SpeaksForWhoSignedIn, SpokenFor, Current
<1>2. QED  BY BrowserHolds, <1>1, PTL
=============================================================================
