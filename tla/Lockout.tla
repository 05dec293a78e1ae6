------------------------------ MODULE Lockout ------------------------------
(***************************************************************************)
(* The lockout of one account in one process                               *)
(* (src/app/services/account_lockout.py), as the logins of                 *)
(* src/app/routes/auth.py use it.  A login asks whether the account is     *)
(* locked and, after it has checked the password and the code, counts a    *)
(* failure or clears the counter: two critical sections, with other logins *)
(* in between.                                                             *)
(***************************************************************************)
EXTENDS Naturals, FiniteSets

CONSTANTS
  MaxAttempts,   \* failures that lock the account
  MaxLogins,     \* bound: logins let in
  MaxAtOnce      \* bound: logins in progress at once

ASSUME LockoutAssumption ==
  MaxAttempts \in Nat \ {0} /\ MaxLogins \in Nat /\ MaxAtOnce \in Nat

VARIABLES
  failures,   \* the entry's count; 0 when there is no entry
  lock,       \* locked_until: "no", ahead of the clock, or "over"
  logins,     \* logins let in and not yet judged
  locks,      \* history: locks begun
  letIn       \* bounded events so far; numbers the logins

lockoutVars == <<failures, lock, logins, locks, letIn>>

LockoutInit ==
  /\ failures = 0
  /\ lock = "no"
  /\ logins = {}
  /\ locks = 0
  /\ letIn = 0

\* Mutant: a locked account is let in too.
LetsInAlways == TRUE

\* is_locked
LetsIn == lock # "ahead"

\* A lock that is over is cleared on the way.
AskLocked ==
  /\ LetsIn /\ letIn < MaxLogins /\ Cardinality(logins) < MaxAtOnce
  /\ letIn' = letIn + 1
  /\ logins' = logins \cup {[id |-> letIn + 1, locks |-> locks]}
  /\ failures' = IF lock = "over" THEN 0 ELSE failures
  /\ lock' = IF lock = "over" THEN "no" ELSE lock
  /\ UNCHANGED locks

\* record_failure: a wrong password, or a wrong or missing code.  A failure
\* that comes while the account is locked begins the window again.
RecordFailure(d) ==
  LET n == IF lock = "over" THEN 1 ELSE failures + 1 IN
    /\ failures' = n
    /\ lock' = IF n >= MaxAttempts THEN "ahead" ELSE "no"
    /\ locks' = IF n >= MaxAttempts /\ lock # "ahead" THEN locks + 1 ELSE locks
    /\ logins' = logins \ {d}
    /\ UNCHANGED letIn

\* reset, after a login that succeeded
Succeed(d) ==
  /\ failures' = 0 /\ lock' = "no"
  /\ logins' = logins \ {d}
  /\ UNCHANGED <<locks, letIn>>

\* reset, after a password reset
ClearByReset ==
  /\ failures # 0
  /\ failures' = 0 /\ lock' = "no"
  /\ UNCHANGED <<logins, locks, letIn>>

WindowEnds ==
  /\ lock = "ahead"
  /\ lock' = "over"
  /\ UNCHANGED <<failures, logins, locks, letIn>>

LockoutNext ==
  \/ AskLocked \/ ClearByReset \/ WindowEnds
  \/ \E d \in logins : RecordFailure(d) \/ Succeed(d)

LockoutSpec == LockoutInit /\ [][LockoutNext]_lockoutVars

(***************************************************************************)
(* Properties                                                              *)
(***************************************************************************)
\* The entry and the logins have the shapes the code gives them.
LockoutTypeOK ==
  /\ failures \in 0..MaxLogins
  /\ lock \in {"no", "ahead", "over"}
  /\ logins \subseteq [id: 1..MaxLogins, locks: 0..MaxLogins]
  /\ locks \in 0..MaxLogins
  /\ letIn \in 0..MaxLogins

\* "After MAX_ATTEMPTS consecutive failed logins for an email, the account is
\* frozen" (account_lockout.py): the logins judged while it is, which may count
\* on or lift the lock before its time, are those that were let in before that
\* lock began, and no count goes further past the limit than they are many.
FrozenButForTheLate ==
  [][lock = "ahead" =>
       /\ \A d \in logins \ logins' : d.locks < locks
       /\ failures' + Cardinality(logins') < MaxAttempts + MaxAtOnce]_lockoutVars
=============================================================================
