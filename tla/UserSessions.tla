---------------------------- MODULE UserSessions ----------------------------
(***************************************************************************)
(* One user's sessions, password resets and second factor                  *)
(* (src/app/routes/auth.py, password_reset.py, twofa.py, organizations.py).*)
(*                                                                         *)
(* A request loads the user's row, and on commit writes only the columns   *)
(* it changed in its copy, with no lock and no version check: two steps    *)
(* here, for each request that writes the row or mints a cookie from it.   *)
(* Passwords and codes given are right (a wrong one changes nothing but    *)
(* the lockout's counter), rate limits allow, and an expired reset token   *)
(* is one that is never used again.                                        *)
(***************************************************************************)
EXTENDS Naturals, FiniteSets

CONSTANTS
  ResetTokens,
  MaxRequests,   \* bound: requests loaded
  MaxInFlight    \* bound: requests between load and commit at once

ASSUME SessionAssumption == MaxRequests \in Nat /\ MaxInFlight \in Nat

VARIABLES
  user,       \* users: token_version, totp_enabled, the secret (0: none)
  cookies,    \* refresh cookies minted: the version they carry, how they came
              \* about, and whether a revocation has committed since the user
              \* was loaded for them
  resetToken, \* password_reset_tokens: "none", "open", "used"
  inFlight,   \* requests between their load and their commit
  proven,     \* history: secrets a code was given for
  blind,      \* history: a version was written over one it had not seen
  requests    \* bounded events so far; also the source of fresh secrets

sessionVars == <<user, cookies, resetToken, inFlight, proven, blind, requests>>

SessionInit ==
  /\ user = [version |-> 0, enabled |-> FALSE, secret |-> 0]
  /\ cookies = {}
  /\ resetToken = [t \in ResetTokens |-> "none"]
  /\ inFlight = {}
  /\ proven = {}
  /\ blind = FALSE
  /\ requests = 0

\* A request that has loaded the user.
Load(what, extra) ==
  /\ requests < MaxRequests /\ Cardinality(inFlight) < MaxInFlight
  /\ requests' = requests + 1
  /\ inFlight' = inFlight \cup
       {[what |-> what, seen |-> user, extra |-> extra, late |-> FALSE, id |-> requests + 1]}

(***************************************************************************)
(* Sign-in, refresh and change of organization                             *)
(***************************************************************************)
\* With the second factor on, login needs a code of the stored secret.
LoginLoad ==
  /\ user.enabled => user.secret # 0
  /\ Load("login", 0)
  /\ UNCHANGED <<user, cookies, resetToken, proven, blind>>

\* Mutant: a cookie of an older version is accepted.
AcceptsOlder(c) == c.version <= user.version

Accepts(c) == c.version = user.version

RefreshLoad(c) ==
  /\ Accepts(c)
  /\ Load("refresh", 0)
  /\ UNCHANGED <<user, cookies, resetToken, proven, blind>>

Mint(d) ==
  /\ d.what \in {"login", "refresh"}
  /\ cookies' = cookies \cup {[version |-> d.seen.version, by |-> d.what, revoked |-> d.late]}
  /\ inFlight' = inFlight \ {d}
  /\ UNCHANGED <<user, resetToken, proven, blind, requests>>

\* switch_org gives the token no version: a cookie of version 0.
SwitchOrg ==
  /\ cookies' = cookies \cup {[version |-> 0, by |-> "switch", revoked |-> FALSE]}
  /\ UNCHANGED <<user, resetToken, inFlight, proven, blind, requests>>

(***************************************************************************)
(* Revocation: log out everywhere, and a password reset                    *)
(***************************************************************************)
\* Everything minted before, or from a row loaded before, is revoked.
Revokes(d) ==
  /\ user' = [user EXCEPT !.version = d.seen.version + 1]
  /\ cookies' = {[c EXCEPT !.revoked = TRUE] : c \in cookies}
  /\ inFlight' = {[e EXCEPT !.late = TRUE] : e \in inFlight \ {d}}
  /\ blind' = (blind \/ d.seen.version # user.version)

LogoutAllLoad ==
  /\ Load("logout", 0)
  /\ UNCHANGED <<user, cookies, resetToken, proven, blind>>

LogoutAllCommit(d) ==
  /\ d.what = "logout"
  /\ Revokes(d)
  /\ UNCHANGED <<resetToken, proven, requests>>

Forgot(t) ==
  /\ resetToken[t] = "none"
  /\ resetToken' = [resetToken EXCEPT ![t] = "open"]
  /\ UNCHANGED <<user, cookies, inFlight, proven, blind, requests>>

ResetLoad(t) ==
  /\ resetToken[t] = "open"
  /\ Load("reset", t)
  /\ UNCHANGED <<user, cookies, resetToken, proven, blind>>

\* UPDATE ... WHERE used_at IS NULL; its row lock is held to the commit.
Claims(t) == resetToken[t] = "open"

ResetCommit(d) ==
  /\ d.what = "reset" /\ Claims(d.extra)
  /\ resetToken' = [resetToken EXCEPT ![d.extra] = "used"]
  /\ Revokes(d)
  /\ UNCHANGED <<proven, requests>>

ResetRefused(d) ==
  /\ d.what = "reset" /\ ~Claims(d.extra)
  /\ inFlight' = inFlight \ {d}
  /\ UNCHANGED <<user, cookies, resetToken, proven, blind, requests>>

(***************************************************************************)
(* Second factor                                                           *)
(***************************************************************************)
\* Mutant: a set-up may begin while the second factor is on.
MayEnrollAgain == TRUE

MayEnroll == ~user.enabled

SetupLoad ==
  /\ MayEnroll
  /\ Load("setup", 0)
  /\ UNCHANGED <<user, cookies, resetToken, proven, blind>>

SetupCommit(d) ==
  /\ d.what = "setup"
  /\ user' = [user EXCEPT !.secret = d.id]
  /\ inFlight' = inFlight \ {d}
  /\ UNCHANGED <<cookies, resetToken, proven, blind, requests>>

VerifyLoad ==
  /\ user.secret # 0
  /\ Load("verify", 0)
  /\ proven' = proven \cup {user.secret}
  /\ UNCHANGED <<user, cookies, resetToken, blind>>

DisableLoad ==
  /\ user.secret # 0
  /\ Load("disable", 0)
  /\ UNCHANGED <<user, cookies, resetToken, proven, blind>>

\* Setting a column to the value it was loaded with writes nothing.
FactorCommit(d) ==
  /\ d.what \in {"verify", "disable"}
  /\ user' = IF d.what = "verify"
             THEN [user EXCEPT !.enabled = @ \/ ~d.seen.enabled]
             ELSE [user EXCEPT !.enabled = @ /\ ~d.seen.enabled, !.secret = 0]
  /\ inFlight' = inFlight \ {d}
  /\ UNCHANGED <<cookies, resetToken, proven, blind, requests>>

SessionNext ==
  \/ LoginLoad \/ LogoutAllLoad \/ SetupLoad \/ VerifyLoad \/ DisableLoad \/ SwitchOrg
  \/ \E c \in cookies : RefreshLoad(c)
  \/ \E t \in ResetTokens : Forgot(t) \/ ResetLoad(t)
  \/ \E d \in inFlight : \/ Mint(d) \/ LogoutAllCommit(d)
                         \/ ResetCommit(d) \/ ResetRefused(d)
                         \/ SetupCommit(d) \/ FactorCommit(d)

SessionSpec == SessionInit /\ [][SessionNext]_sessionVars

(***************************************************************************)
(* Properties                                                              *)
(***************************************************************************)
Row == [version: 0..MaxRequests, enabled: BOOLEAN, secret: 0..MaxRequests]

\* The row, the cookies and the requests have the shapes the code gives them.
SessionTypeOK ==
  /\ user \in Row
  /\ cookies \subseteq [version: 0..MaxRequests, by: {"login", "refresh", "switch"},
                        revoked: BOOLEAN]
  /\ resetToken \in [ResetTokens -> {"none", "open", "used"}]
  /\ inFlight \subseteq
       [what: {"login", "refresh", "logout", "reset", "setup", "verify", "disable"},
        seen: Row, extra: ResetTokens \cup {0}, late: BOOLEAN, id: 1..MaxRequests]
  /\ proven \subseteq 1..MaxRequests
  /\ blind \in BOOLEAN /\ requests \in 0..MaxRequests

\* "Revoke every outstanding refresh token" (logout_all), and no other: while
\* no two revocations overlapped, a cookie of a login or a refresh is accepted
\* exactly until a revocation commits, one of a change of organization at most
\* that long.  Revocations that overlap may write the same version, or an
\* earlier one, and then what was revoked may be accepted again.
AcceptedUntilRevoked ==
  \A c \in cookies : ~blind =>
    /\ Accepts(c) => ~c.revoked
    /\ ~Accepts(c) => c.revoked \/ c.by = "switch"

\* A second factor is on only with a secret that a code was given for: what
\* breaks it is a request that commits over a row it has not seen (setup over a
\* verification, a verification over setup or disable, disable over either).
Enrolled == user.enabled => user.secret \in proven

OnlyStaleWritersBreakEnrolment ==
  [][Enrolled /\ ~Enrolled' =>
       \E d \in inFlight \ inFlight' :
         <<d.seen.enabled, d.seen.secret>> # <<user.enabled, user.secret>>]_sessionVars
=============================================================================
