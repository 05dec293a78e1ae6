----------------------------- MODULE OrgMembers -----------------------------
(***************************************************************************)
(* Organizations and their members: registration, invitation, change of    *)
(* role, removal and deletion of an account                                *)
(* (src/app/routes/organizations.py, auth.py).                             *)
(*                                                                         *)
(* A request that may take an admin away counts the organization's admins, *)
(* and then writes and commits; no row is locked in between.  Roles other  *)
(* than admin are abstracted to one.                                       *)
(***************************************************************************)
EXTENDS FiniteSets, Naturals

CONSTANTS
  Orgs, Users,
  MaxMemberJobs   \* bound: requests that change or remove a member

ASSUME MemberAssumption == IsFiniteSet(Users) /\ MaxMemberJobs \in Nat

VARIABLES
  tenants,    \* organizations there are
  account,    \* users: "no" row yet, a row, or "deleted"
  role,       \* organization_memberships: "admin", "member", or "none"
  change,     \* requests between their count and their commit
  memberJobs  \* bounded events so far

memberVars == <<tenants, account, role, change, memberJobs>>

Admins(o) == {u \in Users : role[o][u] = "admin"}

MemberInit ==
  /\ tenants = {}
  /\ account = [u \in Users |-> "no"]
  /\ role = [o \in Orgs |-> [u \in Users |-> "none"]]
  /\ change = {}
  /\ memberJobs = 0

\* Public signup always makes a tenant of its own.
Register(u, o) ==
  /\ account[u] = "no" /\ o \notin tenants
  /\ account' = [account EXCEPT ![u] = "yes"]
  /\ tenants' = tenants \cup {o}
  /\ role' = [role EXCEPT ![o][u] = "admin"]
  /\ UNCHANGED <<change, memberJobs>>

\* The unique constraint decides between two invitations at once.
Invite(o, u, r) ==
  /\ Admins(o) # {} /\ account[u] = "yes"
  /\ role[o][u] = "none"
  /\ role' = [role EXCEPT ![o][u] = r]
  /\ UNCHANGED <<tenants, account, change, memberJobs>>

\* Mutant: one admin is thought enough to let one go.
IsLastAdminAfter(o, u) == role[o][u] = "admin" /\ Admins(o) = {}

\* The count of update_member_role and remove_member.
IsLastAdmin(o, u) == role[o][u] = "admin" /\ Cardinality(Admins(o)) <= 1

Count(kind, o, u, r) ==
  /\ memberJobs < MaxMemberJobs
  /\ memberJobs' = memberJobs + 1
  /\ change' = change \cup
       {[kind |-> kind, org |-> o, user |-> u, to |-> r, was |-> role[o][u],
         admins |-> [p \in Orgs |-> Admins(p)]]}

\* update_member_role and remove_member, asked for by an admin.
AskChange(o, u, r) ==
  /\ Admins(o) # {} /\ role[o][u] # "none"
  /\ r = "admin" \/ ~IsLastAdmin(o, u)
  /\ Count("role", o, u, r)
  /\ UNCHANGED <<tenants, account, role>>

AskRemove(o, u) ==
  /\ Admins(o) # {} /\ role[o][u] # "none"
  /\ ~IsLastAdmin(o, u)
  /\ Count("role", o, u, "none")
  /\ UNCHANGED <<tenants, account, role>>

\* Mutant: looks only at the organization the caller signed in to.
SoleAdminHere(u, o) == role[o][u] = "admin" /\ Admins(o) = {u}

\* delete_account: the only admin of any organization is refused.
SoleAdmin(u, o) == \E p \in Orgs : role[p][u] = "admin" /\ Admins(p) = {u}

AskDelete(u, o) ==
  /\ account[u] = "yes" /\ role[o][u] # "none"
  /\ ~SoleAdmin(u, o)
  /\ Count("delete", o, u, "none")
  /\ UNCHANGED <<tenants, account, role>>

\* The update or delete of a membership that is gone fails.  A role set to
\* what it was when loaded is not written.
CommitChange(d) ==
  /\ d.kind = "role"
  /\ role' = IF role[d.org][d.user] = "none" \/ d.to = d.was THEN role
             ELSE [role EXCEPT ![d.org][d.user] = d.to]
  /\ change' = change \ {d}
  /\ UNCHANGED <<tenants, account, memberJobs>>

\* Memberships go with the user.
CommitDelete(d) ==
  /\ d.kind = "delete"
  /\ account' = [account EXCEPT ![d.user] = "deleted"]
  /\ role' = [o \in Orgs |-> [role[o] EXCEPT ![d.user] = "none"]]
  /\ change' = change \ {d}
  /\ UNCHANGED <<tenants, memberJobs>>

MemberNext ==
  \/ \E u \in Users, o \in Orgs : Register(u, o) \/ AskRemove(o, u) \/ AskDelete(u, o)
  \/ \E u \in Users, o \in Orgs, r \in {"admin", "member"} : Invite(o, u, r) \/ AskChange(o, u, r)
  \/ \E d \in change : CommitChange(d) \/ CommitDelete(d)

MemberSpec == MemberInit /\ [][MemberNext]_memberVars

(***************************************************************************)
(* Properties                                                              *)
(***************************************************************************)
\* Only users with a row are members, and requests hold what they have counted.
MemberTypeOK ==
  /\ tenants \subseteq Orgs
  /\ account \in [Users -> {"no", "yes", "deleted"}]
  /\ role \in [Orgs -> [Users -> {"admin", "member", "none"}]]
  /\ \A o \in Orgs, u \in Users : role[o][u] # "none" => account[u] = "yes" /\ o \in tenants
  /\ change \subseteq [kind: {"role", "delete"}, org: Orgs, user: Users,
                       to: {"admin", "member", "none"}, was: {"admin", "member", "none"},
                       admins: [Orgs -> SUBSET Users]]
  /\ memberJobs \in 0..MaxMemberJobs

\* "That would orphan the org with no one able to manage it" (delete_account),
\* "Cannot demote the last admin": an organization loses its last admin only
\* to a request that counted other admins than there are when it commits: one
\* of them has gone since, or the user has only since become an admin.
OrphanedOnlyByAStaleCount ==
  [][\A o \in Orgs : Admins(o) # {} /\ Admins(o)' = {} =>
       \E d \in change \ change' : d.admins[o] # Admins(o)]_memberVars
=============================================================================
