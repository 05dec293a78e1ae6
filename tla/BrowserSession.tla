--------------------------- MODULE BrowserSession ---------------------------
(***************************************************************************)
(* Who one browser tab speaks for (src/src/api/client.ts,                  *)
(* src/src/contexts/AuthContext.tsx), with the refresh cookie that         *)
(* src/app/routes/auth.py sets and clears.                                 *)
(*                                                                         *)
(* The access token lives in the tab's memory and the refresh cookie in    *)
(* the browser's jar.  An answer's cookie is stored by the browser whatever*)
(* has happened in the tab since its request; the scripts go on only if the*)
(* session of the request is still the tab's.  An answer's cookie and the  *)
(* script that awaits it are one step.  Registration is login, and the two *)
(* counters that are compared with a remembered value (authSession,        *)
(* authOperation) are one flag of the request: they move together but for  *)
(* a login's own success, when nothing else of its operation is pending.   *)
(***************************************************************************)
EXTENDS Naturals, FiniteSets

CONSTANTS
  Persons,    \* users with a password
  Demo,       \* the demo identity, which has no refresh cookie
  NoUser,     \* no token, no cookie, nobody shown, or wrong credentials
  MaxClicks   \* bound: what the tab's users and other tabs do

ASSUME BrowserAssumption ==
  /\ Demo \notin Persons /\ NoUser \notin Persons \cup {Demo}
  /\ MaxClicks \in Nat

Identities == Persons \cup {Demo}

VARIABLES
  jar,        \* whose refresh cookie the browser holds
  token,      \* accessTokenMemory: whose access token
  spent,      \* that token has expired
  shown,      \* user of the AuthContext
  calls,      \* requests of the tab that are not settled
  rightful,   \* history: who signed in last in this tab, NoUser once signed out
  meddled,  \* history: the cookie was left or written by somebody else than
              \* the session: an earlier one, another tab, a pending logout
  tainted,    \* history: the session was refreshed with such a cookie
  clicks      \* bounded events so far; numbers the requests

browserVars == <<jar, token, spent, shown, calls, rightful, meddled, tainted, clicks>>

\* A request: for whom the server takes it (a credential for me and api, a
\* cookie for refresh, the name and password of a login), whether that
\* credential is good, expires under way or was sent expired, whether the
\* script has repeated it, whether the tab's token was renewed since, whether
\* the session is still its own, and whether it awaits a refresh.
Request(kind, who, life, id) ==
  [kind |-> kind, who |-> who, life |-> life, id |-> id, repeated |-> FALSE,
   renewed |-> FALSE, current |-> TRUE, waiting |-> FALSE,
   doubtful |-> meddled /\ kind = "refresh"]

\* The tab has been loaded and asks who it is: hydrate, with no token yet.
BrowserInit ==
  /\ jar \in Persons \cup {NoUser}
  /\ token = NoUser /\ spent = FALSE /\ shown = NoUser
  /\ rightful = jar
  /\ meddled = FALSE /\ tainted = FALSE
  /\ clicks = 0
  /\ calls = {Request("me", NoUser, "good", 0)}

\* session === authSession, operation === authOperation.current
Current(c) == c.current

\* What is left of an ended session: requests whose answers may still write the
\* jar.  The others, and those that await a refresh, end in an error that
\* assertCurrentSession or its like makes of them.
Outlive(cs) ==
  {[c EXCEPT !.current = FALSE] :
     c \in {d \in cs : d.kind \in {"login", "refresh", "logout"} /\ ~d.waiting}}

\* reset of the AuthContext, and the terminal 401 of the client that calls it:
\* of the requests cs none is the tab's any more, and it goes on with more.
Reset(cs, more) ==
  /\ token' = NoUser /\ spent' = FALSE /\ shown' = NoUser
  /\ calls' = Outlive(cs) \cup more
  /\ tainted' = FALSE

Click == clicks < MaxClicks /\ clicks' = clicks + 1

(***************************************************************************)
(* The tab's users, and the browser's other tabs                           *)
(***************************************************************************)
\* authenticate: login, register, demoLogin; NoUser for a wrong password.
SignIn(u) ==
  /\ Click
  /\ Reset(calls, {Request("login", u, "good", clicks + 1)})
  /\ UNCHANGED <<jar, rightful, meddled>>

\* logout: the request is sent with the old credential, then all is cleared.
SignOut ==
  /\ Click
  /\ Reset(calls, {[Request("logout", token, "good", clicks + 1) EXCEPT !.current = FALSE]})
  /\ rightful' = NoUser
  /\ meddled' = (jar # NoUser)
  /\ UNCHANGED jar

\* A page of somebody signed in asks for data.
AskData ==
  /\ shown # NoUser
  /\ Click
  /\ calls' = calls \cup {Request("api", token, IF spent THEN "dead" ELSE "good", clicks + 1)}
  /\ UNCHANGED <<jar, token, spent, shown, rightful, meddled, tainted>>

\* Memory is lost and the requests are abandoned; then hydrate.
Reload ==
  /\ Click
  /\ Reset({}, {Request("me", NoUser, "good", clicks + 1)})
  /\ UNCHANGED <<jar, rightful, meddled>>

OtherTab(u) ==
  /\ Click
  /\ jar' = u /\ meddled' = TRUE
  /\ UNCHANGED <<token, spent, shown, calls, rightful, tainted>>

(***************************************************************************)
(* The server                                                              *)
(***************************************************************************)
\* Access tokens live for 15 minutes.
Expire ==
  /\ token # NoUser /\ ~spent
  /\ spent' = TRUE
  /\ calls' = {IF c.kind \in {"me", "api"} /\ c.life = "good"
                  THEN [c EXCEPT !.life = "expiring"] ELSE c : c \in calls}
  /\ UNCHANGED <<jar, token, shown, rightful, meddled, tainted, clicks>>

\* What may come of a request.  401 for no credential or an expired one; a
\* refresh may be refused besides, for a revoked or inactive user.  "lost" is
\* every other failure: no answer in time, a limit, a lock.
Verdicts(c) ==
  {v \in {"ok", "refused", "lost"} :
     /\ ~c.waiting
     /\ v = "ok" => c.kind = "logout" \/ (c.who # NoUser /\ c.life # "dead")
     /\ v = "refused" => /\ c.kind # "logout"
                         /\ c.who = NoUser \/ c.life # "good" \/ c.kind = "refresh"}

(***************************************************************************)
(* Answers reach the browser                                               *)
(***************************************************************************)
\* The demo's token comes with no cookie: the one there is cleared.
CookieOf(u) == IF u = Demo THEN NoUser ELSE u

\* The cookie is stored; setAccessToken begins a session, in which me is asked.
SignedIn(c, v) ==
  /\ c.kind = "login" /\ v = "ok"
  /\ jar' = CookieOf(c.who)
  /\ IF Current(c)
     THEN /\ token' = c.who /\ spent' = FALSE
          /\ rightful' = c.who /\ meddled' = FALSE /\ tainted' = FALSE
          /\ calls' = Outlive(calls \ {c}) \cup {Request("me", c.who, "good", c.id)}
     ELSE /\ meddled' = TRUE
          /\ calls' = calls \ {c}
          /\ UNCHANGED <<token, spent, rightful, tainted>>
  /\ UNCHANGED <<shown, clicks>>

SignedOut(c, v) ==
  /\ c.kind = "logout"
  /\ jar' = IF v = "ok" THEN NoUser ELSE jar
  /\ meddled' = (meddled /\ v # "ok")
  /\ calls' = calls \ {c}
  /\ UNCHANGED <<token, spent, shown, rightful, tainted, clicks>>

\* me shows its user; data go to the page that asked.
Delivered(c, v) ==
  /\ c.kind \in {"me", "api"} /\ v = "ok"
  /\ shown' = IF c.kind = "me" /\ Current(c) THEN c.who ELSE shown
  /\ calls' = calls \ {c}
  /\ UNCHANGED <<jar, token, spent, rightful, meddled, tainted, clicks>>

\* An error that the client passes on: login and hydrate reset.
Fail(c) ==
  /\ IF Current(c) /\ c.kind \in {"login", "me"}
     THEN Reset(calls \ {c}, {})
     ELSE calls' = calls \ {c} /\ UNCHANGED <<token, spent, shown, tainted>>
  /\ UNCHANGED <<jar, rightful, meddled, clicks>>

Failed(c, v) ==
  /\ c.kind \in {"login", "me", "api"}
  /\ \/ v = "lost"
     \/ v = "refused" /\ ~Current(c)
     \/ v = "refused" /\ c.repeated /\ c.renewed
  /\ Fail(c)

\* The second 401, on the token that is still the tab's: signed out.
RefusedAgain(c, v) ==
  /\ v = "refused" /\ c.kind # "refresh"
  /\ Current(c) /\ c.repeated /\ ~c.renewed
  /\ Reset(calls \ {c}, {})
  /\ UNCHANGED <<jar, rightful, meddled, clicks>>

\* The request once more, with the tab's token; a login goes by its password.
Repeat(c, holder, life) ==
  [c EXCEPT !.waiting = FALSE, !.repeated = TRUE, !.renewed = FALSE,
            !.life = IF c.kind = "login" THEN @ ELSE life,
            !.who = IF c.kind = "login" THEN @ ELSE holder]

\* The first 401: with the token a sibling has renewed, or after a refresh,
\* one for all that ask for it in the session.
Refused(c, v) ==
  /\ v = "refused" /\ c.kind # "refresh"
  /\ Current(c) /\ ~c.repeated
  /\ LET rest == calls \ {c}
         asked == \E r \in rest : r.kind = "refresh" /\ Current(r)
     IN calls' = IF c.renewed THEN rest \cup {Repeat(c, token, IF spent THEN "dead" ELSE "good")}
                 ELSE rest \cup {[c EXCEPT !.waiting = TRUE]}
                           \cup IF asked THEN {} ELSE {Request("refresh", jar, "good", c.id)}
  /\ UNCHANGED <<jar, token, spent, shown, rightful, meddled, tainted, clicks>>

\* The deadline of /auth/ requests runs while they wait, too.
GiveUp(c) ==
  /\ c.waiting /\ c.kind \in {"login", "me"}
  /\ Fail(c)

\* Mutant: the token of any refresh is taken, of an earlier session too.
RenewsAlways(r) == TRUE

\* attemptRefresh keeps the token only if its session is still the tab's.
Renews(r) == Current(r)

Refreshed(r, v) ==
  /\ r.kind = "refresh" /\ v = "ok"
  /\ jar' = r.who
  /\ IF Renews(r)
     THEN /\ token' = r.who /\ spent' = FALSE
          /\ calls' = {IF ~Current(c) THEN c
                       ELSE IF c.waiting THEN Repeat(c, r.who, "good")
                       ELSE [c EXCEPT !.renewed = TRUE] : c \in calls \ {r}}
     ELSE calls' = calls \ {r} /\ UNCHANGED <<token, spent>>
  /\ meddled' = (~Current(r) \/ r.doubtful)
  /\ tainted' = (tainted \/ (Current(r) /\ r.doubtful))
  /\ UNCHANGED <<shown, rightful, clicks>>

\* A refused cookie is cleared, unless there was none.
NotRefreshed(r, v) ==
  /\ r.kind = "refresh" /\ v # "ok"
  /\ jar' = IF v = "refused" /\ r.who # NoUser THEN NoUser ELSE jar
  /\ meddled' = (meddled /\ jar' # NoUser)
  /\ IF Current(r)
     THEN Reset(calls \ {r}, {})
     ELSE calls' = calls \ {r} /\ UNCHANGED <<token, spent, shown, tainted>>
  /\ UNCHANGED <<rightful, clicks>>

BrowserNext ==
  \/ \E u \in Identities \cup {NoUser} : SignIn(u)
  \/ \E u \in Persons \cup {NoUser} : OtherTab(u)
  \/ SignOut \/ AskData \/ Reload \/ Expire
  \/ \E c \in calls :
       \/ GiveUp(c)
       \/ \E v \in Verdicts(c) :
            \/ SignedIn(c, v) \/ SignedOut(c, v) \/ Delivered(c, v) \/ Failed(c, v)
            \/ Refused(c, v) \/ RefusedAgain(c, v)
            \/ Refreshed(c, v) \/ NotRefreshed(c, v)

BrowserSpec == BrowserInit /\ [][BrowserNext]_browserVars

(***************************************************************************)
(* Properties                                                              *)
(***************************************************************************)
\* The jar, the memory and the requests have the shapes the code gives them.
BrowserTypeOK ==
  /\ jar \in Persons \cup {NoUser}
  /\ token \in Identities \cup {NoUser} /\ shown \in Identities \cup {NoUser}
  /\ rightful \in Identities \cup {NoUser}
  /\ spent \in BOOLEAN /\ meddled \in BOOLEAN /\ tainted \in BOOLEAN
  /\ clicks \in 0..MaxClicks
  /\ calls \subseteq [kind: {"login", "logout", "me", "api", "refresh"},
                      who: Identities \cup {NoUser}, id: 0..MaxClicks,
                      life: {"good", "expiring", "dead"},
                      repeated: BOOLEAN, renewed: BOOLEAN, current: BOOLEAN,
                      waiting: BOOLEAN, doubtful: BOOLEAN]

\* Everybody the tab shows, holds a token of, or asks for in its session.
SpokenFor ==
  ({token, shown} \cup {c.who : c \in {d \in calls : Current(d) /\ d.kind \in {"me", "api"}}})
    \ {NoUser}

\* "Invalidate old requests before starting an explicit identity change"
\* (AuthContext.tsx:97): whatever overlaps, the tab shows, holds the token of
\* and asks for nobody but who signed in last in it.  What the code cannot keep
\* out is the cookie: one that a late answer of an earlier session or another
\* tab has put into the jar, or that a logout has not yet taken out, makes the
\* next refresh somebody else's.
SpeaksForWhoSignedIn == tainted \/ SpokenFor \subseteq {rightful}
=============================================================================
