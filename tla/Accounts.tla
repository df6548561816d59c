------------------------------ MODULE Accounts ------------------------------
(***************************************************************************)
(* The accounts people sign in with, the roles they hold and the member    *)
(* records they may reach.                                                 *)
(*                                                                         *)
(* Code: internal/domain/memberaccess, whose writes are transactions, its  *)
(* statements in internal/db/sqlc, the page internal/web/access.go and the *)
(* operations of internal/httpapi/ops_member_access.go.                    *)
(*                                                                         *)
(* An address stands for one spelling of it: "Mailbox" maps the spellings  *)
(* of one mailbox to the lower-case one.  An account is named by its       *)
(* address, as users.email is unique.                                      *)
(***************************************************************************)
EXTENDS Relationships

CONSTANTS
  Addresses, Mailbox,
  Roles, NoRole,
  Member, Officer      \* the role of self-service, and one that may do all below

ASSUME MailboxIsNormal ==
  /\ Mailbox \in [Addresses -> Addresses]
  /\ \A a \in Addresses : Mailbox[Mailbox[a]] = Mailbox[a]
ASSUME RolesAreKnown == Member \in Roles /\ Officer \in Roles /\ NoRole \notin Roles

VARIABLES
  users,     \* the accounts, by address; "invited" is a history
  roles,     \* user_role_grants
  grants     \* member_access_grants

Users == DOMAIN users

NormalizeEmail(a) == Mailbox[a]

Account(password, invited) ==
  [password |-> password, failed |-> 0, locked |-> FALSE, wait |-> 0, invited |-> invited]

\* The accounts with one more.
CreateUser(e, account) ==
  [u \in Users \cup {e} |-> IF u = e THEN account ELSE users[u]]

\* ActiveRolesForUser: the rows that are not revoked.
InForce == {r \in DOMAIN roles : ~roles[r].revoked}
Held(u) == {roles[r].role : r \in {k \in InForce : roles[k].user = u}}

\* EffectiveCapabilities, read for every request: an officer manages access.
MayManage(u) == Officer \in Held(u)

RoleGrant(u, role) == [user |-> u, role |-> role, revoked |-> FALSE]

\* Over the API a role may be granted to whoever holds it already, and
\* revoking a row that was revoked is no error.
CreateRoleGrant(u, role) ==
  /\ roles' = Append(roles, RoleGrant(u, role))
  /\ UNCHANGED <<users, grants, relations>>

RevokeRoleGrant(r) ==
  /\ roles' = [roles EXCEPT ![r].revoked = TRUE]
  /\ UNCHANGED <<users, grants, relations>>

-----------------------------------------------------------------------------

\* An account is reused or created without a password; it gains the member
\* role if it lacks it.
Provision(typed) ==
  LET e == NormalizeEmail(typed) IN
  /\ users' = IF e \in Users THEN users ELSE CreateUser(e, Account(FALSE, NoRole))
  /\ roles' = IF Member \in Held(e) THEN roles ELSE Append(roles, RoleGrant(e, Member))
  /\ UNCHANGED <<grants, relations>>

Active(g) == ~grants[g].revoked
IsFor(g, u, p) == grants[g].user = u /\ grants[g].person = p

\* ListGrants and ListGrantsForPerson keep the revoked ones, the member's own
\* list does not.
ListGrants(u) == {g \in DOMAIN grants : grants[g].user = u}
ListGrantsForPerson(p) == {g \in DOMAIN grants : grants[g].person = p}
ListOwnActiveGrants(u) == {g \in ListGrants(u) : Active(g)}

\* ux_member_access_active: one active grant of a pair.
GrantAccess(u, p) ==
  /\ u \in Users /\ ~\E g \in ListOwnActiveGrants(u) : IsFor(g, u, p)
  /\ grants' = Append(grants, [user |-> u, person |-> p, revoked |-> FALSE])
  /\ UNCHANGED <<users, roles, relations>>

\* Slip: the first grant of the pair, in force or not.
TargetOfPair(u, p) ==
  {g \in ListGrants(u) : IsFor(g, u, p) /\ \A k \in 1 .. g - 1 : ~IsFor(k, u, p)}

\* The grant a revocation picks from the account's list.
Target(u, p) ==
  {g \in ListGrants(u) : IsFor(g, u, p) /\ Active(g)
                           /\ \A k \in 1 .. g - 1 : ~(IsFor(k, u, p) /\ Active(k))}

\* Neither the page nor the API sends an expected version, so the one that is
\* compared was read in the same transaction.
RevokeAccess(u, p) ==
  \E g \in Target(u, p) :
    /\ Active(g)
    /\ grants' = [grants EXCEPT ![g].revoked = TRUE]
    /\ UNCHANGED <<users, roles, relations>>

\* A person's page: who can or could reach the record, and can sign in.
MemberAccessPage(p) ==
  {[user |-> grants[g].user, active |-> Active(g), password |-> users[grants[g].user].password] :
     g \in ListGrantsForPerson(p)}

\* The page names the account it grants to by its address.
MemberAccessGrant(typed, p) == GrantAccess(NormalizeEmail(typed), p)
MemberAccessRevoke(p) ==
  \E row \in MemberAccessPage(p) : row.active /\ RevokeAccess(row.user, p)

PageStep ==
  \/ \E typed \in Addresses : Provision(typed)
  \/ \E typed \in Addresses, p \in People : MemberAccessGrant(typed, p)
  \/ \E p \in People : MemberAccessRevoke(p)

ApiStep ==
  \/ \E typed \in Addresses : Provision(typed)
  \/ \E u \in Users, p \in People : GrantAccess(u, p) \/ RevokeAccess(u, p)

RoleStep ==
  \/ \E u \in Users, role \in Roles : CreateRoleGrant(u, role)
  \/ \E r \in DOMAIN roles : RevokeRoleGrant(r)

-----------------------------------------------------------------------------
(* Properties.                                                             *)

\* Whoever can reach a record can be stopped by one revocation: the grant it
\* picks is the one in force, after any number of earlier ones.
RevocationEndsAccess ==
  \A u \in Users, p \in People :
    (\E g \in ListOwnActiveGrants(u) : IsFor(g, u, p)) =>
      \E g \in Target(u, p) : Active(g) /\
        \A k \in ListOwnActiveGrants(u) : IsFor(k, u, p) => k = g

=============================================================================
