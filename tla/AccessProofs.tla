---------------------------- MODULE AccessProofs ----------------------------
(***************************************************************************)
(* Theorems about accounts: who may reach a record, and what an invitation *)
(* gives, for any number of addresses, people, calls and links.            *)
(***************************************************************************)
EXTENDS SignIn, SequenceTheorems, FiniteSetTheorems, TLAPS

-----------------------------------------------------------------------------
(* Grants of access.  The inductive invariant: a pair has one grant in     *)
(* force, so the one a revocation picks is the one that counts.            *)

GrantRows(accounts) == [user : accounts, person : People, revoked : BOOLEAN]
GrantsTyped == \E accounts : grants \in Seq(GrantRows(accounts))

InForceOf(g, u, p) == g \in DOMAIN grants /\ IsFor(g, u, p) /\ Active(g)

OneOfAPair ==
  \A u, p : \A g, k : InForceOf(g, u, p) /\ InForceOf(k, u, p) => g = k

GrantsInv == GrantsTyped /\ OneOfAPair

LEMMA GrantsInvInit ==
  ASSUME Init
  PROVE  GrantsInv
<1>1. grants = <<>>
  BY DEF Init
<1>2. grants \in Seq(GrantRows({})) /\ DOMAIN grants = {}
  BY <1>1
<1>3. QED
  BY <1>2 DEF GrantsInv, GrantsTyped, OneOfAPair, InForceOf

LEMMA OneOfAPairEndsAccess ==
  ASSUME GrantsInv
  PROVE  RevocationEndsAccess
<1>1. SUFFICES ASSUME NEW u \in Users, NEW p \in People,
                      NEW g \in ListOwnActiveGrants(u), IsFor(g, u, p)
               PROVE  \E t \in Target(u, p) : Active(t) /\
                        \A k \in ListOwnActiveGrants(u) : IsFor(k, u, p) => k = t
  BY DEF RevocationEndsAccess
<1>2. InForceOf(g, u, p) /\ g \in ListGrants(u)
  BY <1>1 DEF ListOwnActiveGrants, ListGrants, InForceOf
<1>3. g \in 1 .. Len(grants) /\ Len(grants) \in Nat /\ DOMAIN grants = 1 .. Len(grants)
  BY <1>2, LenProperties DEF GrantsInv, GrantsTyped, InForceOf
<1>4. ASSUME NEW k \in 1 .. g - 1
      PROVE  ~(IsFor(k, u, p) /\ Active(k))
  <2>1. k \in DOMAIN grants /\ k # g
    BY <1>3
  <2>2. QED
    BY <1>2, <2>1 DEF GrantsInv, OneOfAPair, InForceOf
<1>5. g \in Target(u, p)
  BY <1>2, <1>4 DEF Target, InForceOf
<1>6. \A k \in ListOwnActiveGrants(u) : IsFor(k, u, p) => k = g
  BY <1>2 DEF GrantsInv, OneOfAPair, InForceOf, ListOwnActiveGrants, ListGrants
<1>7. QED
  BY <1>2, <1>5, <1>6 DEF InForceOf

LEMMA GrantAccessKeepsInv ==
  ASSUME GrantsInv, NEW u, NEW p \in People, GrantAccess(u, p)
  PROVE  GrantsInv'
<1> DEFINE row == [user |-> u, person |-> p, revoked |-> FALSE]
           last == Len(grants) + 1
<1>1. PICK accounts : grants \in Seq(GrantRows(accounts))
  BY DEF GrantsInv, GrantsTyped
<1> DEFINE S == GrantRows(accounts \cup {u})
<1>2. GrantRows(accounts) \subseteq S /\ row \in S
  BY DEF GrantRows
<1>3. row.user = u /\ row.person = p /\ row.revoked = FALSE
  OBVIOUS
<1>4. grants' = Append(grants, row)
  BY DEF GrantAccess
<1> HIDE DEF S, row
<1>5. grants \in Seq(S)
  BY <1>1, <1>2
<1>6. /\ grants' \in Seq(S) /\ DOMAIN grants' = DOMAIN grants \cup {last}
      /\ \A g \in DOMAIN grants : grants'[g] = grants[g]
      /\ grants'[last] = row /\ last \notin DOMAIN grants
  <2>1. /\ grants' \in Seq(S) /\ Len(grants') = last
        /\ \A g \in 1 .. Len(grants) : grants'[g] = grants[g]
        /\ grants'[last] = row
    BY <1>2, <1>4, <1>5, AppendProperties
  <2>2. /\ DOMAIN grants = 1 .. Len(grants) /\ Len(grants) \in Nat
        /\ DOMAIN grants' = 1 .. last
    BY <1>5, <2>1, LenProperties
  <2>3. QED
    BY <2>1, <2>2
<1> HIDE DEF last
<1>7. GrantsTyped'
  BY <1>6 DEF GrantsTyped, S
<1>8. \A g \in DOMAIN grants : ~(IsFor(g, u, p) /\ Active(g))
  BY DEF GrantAccess, ListOwnActiveGrants, ListGrants, IsFor
<1>9. ASSUME NEW v, NEW q, NEW g, NEW k, InForceOf(g, v, q)', InForceOf(k, v, q)'
      PROVE  g = k
  <2>1. CASE g \in DOMAIN grants /\ k \in DOMAIN grants
    <3>1. InForceOf(g, v, q) /\ InForceOf(k, v, q)
      BY <1>6, <1>9, <2>1 DEF InForceOf, IsFor, Active
    <3>2. QED
      BY <3>1 DEF GrantsInv, OneOfAPair
  <2>2. CASE g = last /\ k \in DOMAIN grants
    <3>1. v = u /\ q = p
      BY <1>3, <1>6, <1>9, <2>2 DEF InForceOf, IsFor
    <3>2. IsFor(k, u, p) /\ Active(k)
      BY <1>6, <1>9, <2>2, <3>1 DEF InForceOf, IsFor, Active
    <3>3. QED
      BY <1>8, <2>2, <3>2
  <2>3. CASE k = last /\ g \in DOMAIN grants
    <3>1. v = u /\ q = p
      BY <1>3, <1>6, <1>9, <2>3 DEF InForceOf, IsFor
    <3>2. IsFor(g, u, p) /\ Active(g)
      BY <1>6, <1>9, <2>3, <3>1 DEF InForceOf, IsFor, Active
    <3>3. QED
      BY <1>8, <2>3, <3>2
  <2>4. QED
    BY <1>6, <1>9, <2>1, <2>2, <2>3 DEF InForceOf
<1>10. QED
  BY <1>7, <1>9 DEF GrantsInv, OneOfAPair

LEMMA RevokeAccessKeepsInv ==
  ASSUME GrantsInv, NEW u, NEW p, RevokeAccess(u, p)
  PROVE  GrantsInv'
<1>1. PICK g \in DOMAIN grants : grants' = [grants EXCEPT ![g].revoked = TRUE]
  BY DEF RevokeAccess, Target, ListGrants
<1>2. PICK accounts : grants \in Seq(GrantRows(accounts))
  BY DEF GrantsInv, GrantsTyped
<1>3. grants[g] \in GrantRows(accounts) /\ g \in 1 .. Len(grants)
  BY <1>2
<1> DEFINE row == [grants[g] EXCEPT !.revoked = TRUE]
<1>4. /\ row \in GrantRows(accounts) /\ row.revoked
      /\ row.user = grants[g].user /\ row.person = grants[g].person
  BY <1>3 DEF GrantRows
<1>5. grants' = [grants EXCEPT ![g] = row]
  BY <1>1
<1> HIDE DEF row
<1>6. GrantsTyped'
  BY <1>2, <1>3, <1>4, <1>5, ExceptSeq DEF GrantsTyped
<1>7. /\ DOMAIN grants' = DOMAIN grants /\ grants'[g] = row
      /\ \A k \in DOMAIN grants \ {g} : grants'[k] = grants[k]
  BY <1>5
<1>8. ASSUME NEW v, NEW q, NEW k, InForceOf(k, v, q)'
      PROVE  InForceOf(k, v, q)
  BY <1>4, <1>7, <1>8 DEF InForceOf, IsFor, Active
<1>9. QED
  BY <1>6, <1>8 DEF GrantsInv, OneOfAPair

LEMMA GrantsStandHold ==
  ASSUME GrantsInv, UNCHANGED grants
  PROVE  GrantsInv'
BY DEF GrantsInv, GrantsTyped, OneOfAPair, InForceOf, IsFor, Active

LEMMA OfficeStepKeepsGrants ==
  ASSUME GrantsInv, OfficeStep
  PROVE  GrantsInv'
<1>1. ASSUME NEW typed \in Addresses, Provision(typed)
      PROVE  GrantsInv'
  BY <1>1, GrantsStandHold DEF Provision
<1>2. ASSUME NEW typed \in Addresses, NEW p \in People, MemberAccessGrant(typed, p)
      PROVE  GrantsInv'
  BY <1>2, GrantAccessKeepsInv DEF MemberAccessGrant
<1>3. ASSUME NEW p \in People, MemberAccessRevoke(p)
      PROVE  GrantsInv'
  <2>1. PICK row \in MemberAccessPage(p) : RevokeAccess(row.user, p)
    BY <1>3 DEF MemberAccessRevoke
  <2>2. QED
    BY <2>1, RevokeAccessKeepsInv
<1>4. CASE PageStep
  BY <1>1, <1>2, <1>3, <1>4 DEF PageStep
<1>5. CASE ApiStep
  <2>1. ASSUME NEW u \in Users, NEW p \in People, GrantAccess(u, p) \/ RevokeAccess(u, p)
        PROVE  GrantsInv'
    BY <2>1, GrantAccessKeepsInv, RevokeAccessKeepsInv
  <2>2. QED
    BY <1>1, <1>5, <2>1 DEF ApiStep
<1>6. CASE RoleStep
  <2>1. UNCHANGED grants
    BY <1>6 DEF RoleStep, CreateRoleGrant, RevokeRoleGrant
  <2>2. QED
    BY <2>1, GrantsStandHold
<1>7. CASE UNCHANGED <<users, roles, grants>>
  BY <1>7, GrantsStandHold
<1>8. QED
  BY <1>4, <1>5, <1>6, <1>7 DEF OfficeStep

LEMMA GrantsInvStep ==
  ASSUME GrantsInv, [Next]_vars
  PROVE  GrantsInv'
<1> USE DEF accountVars
<1>1. CASE SignInStep
  <2>1. UNCHANGED grants
    BY <1>1 DEF SignInStep, LoginSubmit, SignInReads, LockRunsOut, SignInFails,
       SignInSucceeds, CreateSession, SignOut
  <2>2. QED
    BY <2>1, GrantsStandHold
<1>2. CASE RecoveryStep
  <2>1. UNCHANGED grants
    BY <1>2 DEF RecoveryStep, ForgotPasswordSubmit, MemberAccessRecovery, AllowCounts,
         AllowRecords, RequestRecovery
  <2>2. QED
    BY <2>1, GrantsStandHold
<1>3. CASE LinkStep
  <2>1. UNCHANGED grants
    BY <1>3 DEF LinkStep, CreateInvitation, ResetPasswordSubmit, InvitationSubmit,
         ConsumeReads, ConsumeMarks, SetPassword, CreateUserFromInvitation,
         LoginByUserID, CallStops
  <2>2. QED
    BY <2>1, GrantsStandHold
<1>4. CASE Tick \/ UNCHANGED vars
  BY <1>4, GrantsStandHold DEF Tick, vars
<1>5. QED
  BY <1>1, <1>2, <1>3, <1>4, OfficeStepKeepsGrants DEF Next

\* Whoever can reach a record is stopped by one revocation, after any number
\* of grants and revocations of the same pair.
THEOREM OneRevocationEndsAccess == Spec => []RevocationEndsAccess
<1>1. Init => GrantsInv
  BY GrantsInvInit
<1>2. GrantsInv /\ [Next]_vars => GrantsInv'
  BY GrantsInvStep
<1>3. GrantsInv => RevocationEndsAccess
  BY OneOfAPairEndsAccess
<1>4. QED
  BY <1>1, <1>2, <1>3, PTL DEF Spec

-----------------------------------------------------------------------------
(* Invitations.  Role grants are only added and marked, and the role an    *)
(* account was invited to is written once, with its grant.                 *)

RoleRows(accounts, names) == [user : accounts, role : names, revoked : BOOLEAN]
RolesTyped == \E accounts, names : roles \in Seq(RoleRows(accounts, names))

InvitesInv ==
  /\ RolesTyped /\ InvitedRoleIsHeld
  /\ \A u \in Users : "invited" \in DOMAIN users[u]

RolesGrow ==
  \A r \in DOMAIN roles :
    r \in DOMAIN roles' /\ roles'[r].user = roles[r].user /\ roles'[r].role = roles[r].role

RoleIsHeld(u, role) == \E r \in DOMAIN roles : roles[r].user = u /\ roles[r].role = role

\* Every account was there, or was invited to nothing, or holds its role.
AccountsAreWelcome ==
  \A u \in Users' :
    /\ "invited" \in DOMAIN users'[u]
    /\ \/ u \in Users /\ users'[u].invited = users[u].invited
       \/ users'[u].invited = NoRole
       \/ RoleIsHeld(u, users[u].invited)'

LEMMA WelcomeKeepsInvites ==
  ASSUME InvitesInv, RolesTyped', RolesGrow, AccountsAreWelcome
  PROVE  InvitesInv'
<1>1. ASSUME NEW u \in Users', users'[u].invited # NoRole
      PROVE  RoleIsHeld(u, users[u].invited)'
  <2>1. CASE u \in Users /\ users'[u].invited = users[u].invited
    <3>1. RoleIsHeld(u, users[u].invited)
      BY <1>1, <2>1 DEF InvitesInv, InvitedRoleIsHeld, RoleIsHeld
    <3>2. QED
      BY <2>1, <3>1 DEF RoleIsHeld, RolesGrow
  <2>2. QED
    BY <1>1, <2>1 DEF AccountsAreWelcome
<1>2. InvitedRoleIsHeld'
  BY <1>1 DEF InvitedRoleIsHeld, RoleIsHeld
<1>3. QED
  BY <1>2 DEF InvitesInv, AccountsAreWelcome

LEMMA RolesGrowWhenUnchanged ==
  ASSUME RolesTyped, UNCHANGED roles
  PROVE  RolesTyped' /\ RolesGrow
BY DEF RolesTyped, RolesGrow

LEMMA RolesGrowByAppend ==
  ASSUME RolesTyped, NEW u, NEW role, roles' = Append(roles, RoleGrant(u, role))
  PROVE  RolesTyped' /\ RolesGrow /\ RoleIsHeld(u, role)'
<1> DEFINE row == RoleGrant(u, role)
<1>1. PICK accounts, names : roles \in Seq(RoleRows(accounts, names))
  BY DEF RolesTyped
<1> DEFINE S == RoleRows(accounts \cup {u}, names \cup {role})
<1>2. RoleRows(accounts, names) \subseteq S /\ row \in S
  BY DEF RoleRows, RoleGrant
<1>3. row.user = u /\ row.role = role
  BY DEF RoleGrant
<1> HIDE DEF S, row
<1>4. roles \in Seq(S) /\ roles' = Append(roles, row)
  BY <1>1, <1>2 DEF row
<1>5. /\ roles' \in Seq(S) /\ Len(roles') = Len(roles) + 1
      /\ \A r \in 1 .. Len(roles) : roles'[r] = roles[r]
      /\ roles'[Len(roles) + 1] = row
  BY <1>2, <1>4, AppendProperties
<1>6. /\ DOMAIN roles = 1 .. Len(roles) /\ Len(roles) \in Nat
      /\ DOMAIN roles' = 1 .. Len(roles) + 1
  BY <1>4, <1>5, LenProperties
<1>7. RolesTyped'
  BY <1>5 DEF RolesTyped, S
<1>8. RolesGrow
  BY <1>5, <1>6 DEF RolesGrow
<1>9. Len(roles) + 1 \in DOMAIN roles'
  BY <1>6
<1>10. RoleIsHeld(u, role)'
  BY <1>3, <1>5, <1>9 DEF RoleIsHeld
<1>11. QED
  BY <1>7, <1>8, <1>10

LEMMA RolesGrowByRevocation ==
  ASSUME RolesTyped, NEW r \in DOMAIN roles, RevokeRoleGrant(r)
  PROVE  RolesTyped' /\ RolesGrow
<1>1. PICK accounts, names : roles \in Seq(RoleRows(accounts, names))
  BY DEF RolesTyped
<1>2. roles[r] \in RoleRows(accounts, names) /\ r \in 1 .. Len(roles)
  BY <1>1
<1> DEFINE row == [roles[r] EXCEPT !.revoked = TRUE]
<1>3. /\ row \in RoleRows(accounts, names)
      /\ row.user = roles[r].user /\ row.role = roles[r].role
  BY <1>2 DEF RoleRows
<1>4. roles' = [roles EXCEPT ![r] = row]
  BY DEF RevokeRoleGrant
<1> HIDE DEF row
<1>5. RolesTyped'
  BY <1>1, <1>2, <1>3, <1>4, ExceptSeq DEF RolesTyped
<1>6. RolesGrow
  BY <1>3, <1>4 DEF RolesGrow
<1>7. QED
  BY <1>5, <1>6

LEMMA InvitesInvInit ==
  ASSUME Init
  PROVE  InvitesInv
<1>1. CASE users = <<>> /\ roles = <<>>
  <2>1. roles \in Seq(RoleRows({}, {})) /\ Users = {}
    BY <1>1 DEF Users
  <2>2. QED
    BY <2>1 DEF InvitesInv, RolesTyped, InvitedRoleIsHeld
<1>2. ASSUME NEW a \in Addresses, users = [u \in {a} |-> Account(TRUE, Officer)],
             roles = <<RoleGrant(a, Officer)>>
      PROVE  InvitesInv
  <2>1. Users = {a} /\ users[a] = Account(TRUE, Officer)
    BY <1>2 DEF Users
  <2>2. RoleGrant(a, Officer) \in RoleRows({a}, {Officer})
    BY DEF RoleGrant, RoleRows
  <2>3. RolesTyped
    BY <1>2, <2>2 DEF RolesTyped
  <2>4. 1 \in DOMAIN roles /\ roles[1] = RoleGrant(a, Officer)
    BY <1>2
  <2>5. roles[1].user = a /\ roles[1].role = Officer
    BY <2>4 DEF RoleGrant
  <2>6. users[a].invited = Officer /\ "invited" \in DOMAIN users[a]
    BY <2>1 DEF Account
  <2>7. InvitedRoleIsHeld
    BY <2>1, <2>4, <2>5, <2>6 DEF InvitedRoleIsHeld
  <2>8. QED
    BY <2>1, <2>3, <2>6, <2>7 DEF InvitesInv
<1>3. QED
  BY <1>1, <1>2 DEF Init

\* The accounts are the same, and invited as they were.
SameAccounts ==
  \A u \in Users' :
    u \in Users /\ "invited" \in DOMAIN users'[u] /\ users'[u].invited = users[u].invited

LEMMA SameAccountsKeepInvites ==
  ASSUME InvitesInv, SameAccounts, UNCHANGED roles
  PROVE  InvitesInv'
<1>1. RolesTyped' /\ RolesGrow
  BY RolesGrowWhenUnchanged DEF InvitesInv
<1>2. AccountsAreWelcome
  BY DEF SameAccounts, AccountsAreWelcome
<1>3. QED
  BY <1>1, <1>2, WelcomeKeepsInvites

LEMMA SameUsersAreSameAccounts ==
  ASSUME InvitesInv, UNCHANGED users
  PROVE  SameAccounts
BY DEF InvitesInv, SameAccounts, Users

LEMMA AccountIsAdded ==
  ASSUME InvitesInv, NEW e, NEW account, e \notin Users,
         users' = CreateUser(e, account), "invited" \in DOMAIN account
  PROVE  \A u \in Users' :
           \/ /\ u \in Users /\ "invited" \in DOMAIN users'[u]
              /\ users'[u].invited = users[u].invited
           \/ u = e /\ users'[u] = account
<1>1. Users' = Users \cup {e}
  BY DEF CreateUser, Users
<1>2. \A u \in Users : users'[u] = users[u]
  BY DEF CreateUser, Users
<1>3. users'[e] = account
  BY DEF CreateUser
<1>4. QED
  BY <1>1, <1>2, <1>3 DEF InvitesInv

\* A field of one account that is not its invitation is written.
LEMMA UnlockingKeepsAccounts ==
  ASSUME InvitesInv, NEW u, users' \in {users, Unlocked(u)}
  PROVE  SameAccounts
<1> DEFINE row == [users[u] EXCEPT !.failed = 0, !.locked = FALSE, !.wait = 0]
<1>1. CASE users' = Unlocked(u)
  <2>1. users' = [users EXCEPT ![u].failed = 0, ![u].locked = FALSE, ![u].wait = 0]
    BY <1>1 DEF Unlocked
  <2>2. Users' = Users /\ \A v \in Users : users'[v] = IF v = u THEN row ELSE users[v]
    BY <2>1 DEF Users
  <2>3. u \in Users => "invited" \in DOMAIN row /\ row.invited = users[u].invited
    BY DEF InvitesInv
  <2> HIDE DEF row
  <2>4. QED
    BY <2>2, <2>3 DEF InvitesInv, SameAccounts
<1>2. CASE users' = users
  BY <1>2 DEF InvitesInv, SameAccounts, Users
<1>3. QED
  BY <1>1, <1>2

LEMMA SignInFailsKeepsAccounts ==
  ASSUME InvitesInv, NEW call, SignInFails(call)
  PROVE  SameAccounts
<1> DEFINE u == call.user
           count == Min({call.read + 1, MaxFailedAttempts})
           locks == count = MaxFailedAttempts
           locked == users[u].locked \/ locks
           wait == IF locks THEN LockTicks ELSE users[u].wait
           row == [users[u] EXCEPT !.failed = count, !.locked = @ \/ locks,
                                   !.wait = IF locks THEN LockTicks ELSE @]
<1>1. users' = [users EXCEPT ![u].failed = count, ![u].locked = @ \/ locks,
                             ![u].wait = IF locks THEN LockTicks ELSE @]
  BY DEF SignInFails
<1>2. Users' = Users /\ \A v \in Users : v # u => users'[v] = users[v]
  BY <1>1 DEF Users
<1>3. u \in Users => "invited" \in DOMAIN users'[u] /\ users'[u].invited = users[u].invited
  <2>1. SUFFICES ASSUME u \in Users
                 PROVE  "invited" \in DOMAIN users'[u] /\ users'[u].invited = users[u].invited
    OBVIOUS
  <2>2. "invited" \in DOMAIN users[u]
    BY <2>1 DEF InvitesInv
  <2>3. QED
    BY <1>1, <2>1, <2>2 DEF Users
<1>4. QED
  BY <1>2, <1>3 DEF InvitesInv, SameAccounts

LEMMA WelcomesKeepsAccounts ==
  ASSUME InvitesInv, NEW call, NEW u, Welcomes(call, u)
  PROVE  SameAccounts
BY UnlockingKeepsAccounts DEF Welcomes

LEMMA SetPasswordKeepsAccounts ==
  ASSUME InvitesInv, NEW call, SetPassword(call)
  PROVE  SameAccounts
<1> DEFINE u == links[call.link].address
           row == [users[u] EXCEPT !.password = TRUE]
<1>1. users' = [users EXCEPT ![u].password = TRUE]
  BY DEF SetPassword
<1>2. Users' = Users /\ \A v \in Users : users'[v] = IF v = u THEN row ELSE users[v]
  BY <1>1 DEF Users
<1>3. u \in Users => "invited" \in DOMAIN row /\ row.invited = users[u].invited
  BY DEF InvitesInv
<1> HIDE DEF row, u
<1>4. QED
  BY <1>2, <1>3 DEF InvitesInv, SameAccounts

LEMMA TickKeepsAccounts ==
  ASSUME InvitesInv, Tick
  PROVE  SameAccounts
<1>1. users' = [u \in Users |-> [users[u] EXCEPT !.wait = Less(@)]]
  BY DEF Tick
<1>2. Users' = Users
  BY <1>1 DEF Users
<1>3. ASSUME NEW u \in Users
      PROVE  "invited" \in DOMAIN users'[u] /\ users'[u].invited = users[u].invited
  <2>1. users'[u] = [users[u] EXCEPT !.wait = Less(@)] /\ "invited" \in DOMAIN users[u]
    BY <1>1 DEF InvitesInv
  <2>2. QED
    BY <2>1
<1>4. QED
  BY <1>2, <1>3 DEF SameAccounts

LEMMA CreateUserFromInvitationKeepsInv ==
  ASSUME InvitesInv, NEW call, CreateUserFromInvitation(call)
  PROVE  InvitesInv'
<1>1. PICK e, role : e = links[call.link].address /\ role = links[call.link].role
  OBVIOUS
<1> DEFINE account == Account(TRUE, role)
<1>2. e \notin Users /\ users' = CreateUser(e, account)
  BY <1>1 DEF CreateUserFromInvitation
<1>3. "invited" \in DOMAIN account /\ account.invited = role
  BY DEF Account
<1>4. roles' = IF role = NoRole THEN roles ELSE Append(roles, RoleGrant(e, role))
  BY <1>1 DEF CreateUserFromInvitation
<1> HIDE DEF account
<1>5. \A u \in Users' :
        \/ /\ u \in Users /\ "invited" \in DOMAIN users'[u]
           /\ users'[u].invited = users[u].invited
        \/ u = e /\ users'[u] = account
  BY <1>2, <1>3, AccountIsAdded
<1>6. CASE role = NoRole
  <2>1. AccountsAreWelcome
    BY <1>3, <1>5, <1>6 DEF AccountsAreWelcome
  <2>2. RolesTyped' /\ RolesGrow
    BY <1>4, <1>6, RolesGrowWhenUnchanged DEF InvitesInv
  <2>3. QED
    BY <2>1, <2>2, WelcomeKeepsInvites
<1>7. CASE role # NoRole
  <2>1. RolesTyped' /\ RolesGrow /\ RoleIsHeld(e, role)'
    BY <1>4, <1>7, RolesGrowByAppend DEF InvitesInv
  <2>2. ASSUME NEW u \in Users', u = e, users'[u] = account
        PROVE  "invited" \in DOMAIN users'[u] /\ RoleIsHeld(u, users[u].invited)'
    BY <1>3, <2>1, <2>2 DEF RoleIsHeld
  <2>3. AccountsAreWelcome
    BY <1>5, <2>2 DEF AccountsAreWelcome
  <2>4. QED
    BY <2>1, <2>3, WelcomeKeepsInvites
<1>8. QED
  BY <1>6, <1>7

LEMMA ProvisionKeepsInvites ==
  ASSUME InvitesInv, NEW typed, Provision(typed)
  PROVE  InvitesInv'
<1> DEFINE e == NormalizeEmail(typed)
           account == Account(FALSE, NoRole)
<1>1. /\ users' = IF e \in Users THEN users ELSE CreateUser(e, account)
      /\ roles' = IF Member \in Held(e) THEN roles ELSE Append(roles, RoleGrant(e, Member))
  BY DEF Provision
<1>2. "invited" \in DOMAIN account /\ account.invited = NoRole
  BY DEF Account
<1> HIDE DEF e, account
<1>3. RolesTyped' /\ RolesGrow
  BY <1>1, RolesGrowWhenUnchanged, RolesGrowByAppend DEF InvitesInv
<1>4. CASE e \in Users
  <2>1. SameAccounts
    BY <1>1, <1>4, SameUsersAreSameAccounts
  <2>2. AccountsAreWelcome
    BY <2>1 DEF SameAccounts, AccountsAreWelcome
  <2>3. QED
    BY <1>3, <2>2, WelcomeKeepsInvites
<1>5. CASE e \notin Users
  <2>1. \A u \in Users' :
          \/ /\ u \in Users /\ "invited" \in DOMAIN users'[u]
             /\ users'[u].invited = users[u].invited
          \/ u = e /\ users'[u] = account
    BY <1>1, <1>2, <1>5, AccountIsAdded
  <2>2. AccountsAreWelcome
    BY <1>2, <2>1 DEF AccountsAreWelcome
  <2>3. QED
    BY <1>3, <2>2, WelcomeKeepsInvites
<1>6. QED
  BY <1>4, <1>5

LEMMA OfficeStepKeepsInvites ==
  ASSUME InvitesInv, OfficeStep
  PROVE  InvitesInv'
<1>1. ASSUME UNCHANGED <<users, roles>>
      PROVE  InvitesInv'
  BY <1>1, SameUsersAreSameAccounts, SameAccountsKeepInvites
<1>2. ASSUME NEW u, NEW p, GrantAccess(u, p) \/ RevokeAccess(u, p)
      PROVE  InvitesInv'
  BY <1>1, <1>2 DEF GrantAccess, RevokeAccess
<1>3. CASE PageStep
  BY <1>2, <1>3, ProvisionKeepsInvites DEF PageStep, MemberAccessGrant, MemberAccessRevoke
<1>4. CASE ApiStep
  BY <1>2, <1>4, ProvisionKeepsInvites DEF ApiStep
<1>5. ASSUME UNCHANGED users, RolesTyped', RolesGrow
      PROVE  InvitesInv'
  <2>1. AccountsAreWelcome
    BY <1>5, SameUsersAreSameAccounts DEF SameAccounts, AccountsAreWelcome
  <2>2. QED
    BY <1>5, <2>1, WelcomeKeepsInvites
<1>6. ASSUME NEW u \in Users, NEW role \in Roles, CreateRoleGrant(u, role)
      PROVE  InvitesInv'
  <2>1. RolesTyped' /\ RolesGrow /\ UNCHANGED users
    BY <1>6, RolesGrowByAppend DEF InvitesInv, CreateRoleGrant
  <2>2. QED
    BY <1>5, <2>1
<1>7. ASSUME NEW r \in DOMAIN roles, RevokeRoleGrant(r)
      PROVE  InvitesInv'
  <2>1. RolesTyped' /\ RolesGrow
    BY <1>7, RolesGrowByRevocation DEF InvitesInv
  <2>2. UNCHANGED users
    BY <1>7 DEF RevokeRoleGrant
  <2>3. QED
    BY <1>5, <2>1, <2>2
<1>8. CASE RoleStep
  BY <1>6, <1>7, <1>8 DEF RoleStep
<1>9. QED
  BY <1>1, <1>3, <1>4, <1>8 DEF OfficeStep

LEMMA SignInStepKeepsInvites ==
  ASSUME InvitesInv, SignInStep
  PROVE  InvitesInv'
<1>1. ASSUME NEW call \in calls, LockRunsOut(call)
      PROVE  InvitesInv'
  <2>1. users' \in {users, Unlocked(call.user)} /\ UNCHANGED roles
    BY <1>1 DEF LockRunsOut
  <2>2. QED
    BY <2>1, UnlockingKeepsAccounts, SameAccountsKeepInvites
<1>2. ASSUME NEW call \in calls, SignInFails(call)
      PROVE  InvitesInv'
  <2>1. UNCHANGED roles
    BY <1>2 DEF SignInFails
  <2>2. QED
    BY <1>2, <2>1, SignInFailsKeepsAccounts, SameAccountsKeepInvites
<1>3. ASSUME NEW call \in calls, SignInSucceeds(call)
      PROVE  InvitesInv'
  <2>1. Welcomes(call, call.user) /\ UNCHANGED roles
    BY <1>3 DEF SignInSucceeds
  <2>2. QED
    BY <2>1, WelcomesKeepsAccounts, SameAccountsKeepInvites
<1>4. ASSUME UNCHANGED <<users, roles>>
      PROVE  InvitesInv'
  BY <1>4, SameUsersAreSameAccounts, SameAccountsKeepInvites
<1>5. QED
  BY <1>1, <1>2, <1>3, <1>4
     DEF SignInStep, LoginSubmit, SignInReads, CreateSession, SignOut, accountVars

LEMMA LinkStepKeepsInvites ==
  ASSUME InvitesInv, LinkStep
  PROVE  InvitesInv'
<1>1. ASSUME NEW call \in calls, SetPassword(call)
      PROVE  InvitesInv'
  <2>1. UNCHANGED roles
    BY <1>1 DEF SetPassword
  <2>2. QED
    BY <1>1, <2>1, SetPasswordKeepsAccounts, SameAccountsKeepInvites
<1>2. ASSUME NEW call \in calls, LoginByUserID(call)
      PROVE  InvitesInv'
  <2>1. Welcomes(call, links[call.link].address) /\ UNCHANGED roles
    BY <1>2 DEF LoginByUserID
  <2>2. QED
    BY <2>1, WelcomesKeepsAccounts, SameAccountsKeepInvites
<1>3. ASSUME UNCHANGED <<users, roles>>
      PROVE  InvitesInv'
  BY <1>3, SameUsersAreSameAccounts, SameAccountsKeepInvites
<1>4. ASSUME NEW call \in calls, ConsumeMarks(call) \/ CallStops(call)
      PROVE  InvitesInv'
  BY <1>3, <1>4 DEF ConsumeMarks, CallStops, accountVars
<1>5. ASSUME NEW a, NEW role, CreateInvitation(a, role)
      PROVE  InvitesInv'
  BY <1>3, <1>5 DEF CreateInvitation, accountVars
<1>6. ASSUME NEW l, ResetPasswordSubmit(l) \/ InvitationSubmit(l)
      PROVE  InvitesInv'
  BY <1>3, <1>6 DEF ResetPasswordSubmit, InvitationSubmit, ConsumeReads, accountVars
<1>7. QED
  BY <1>1, <1>2, <1>4, <1>5, <1>6, CreateUserFromInvitationKeepsInv DEF LinkStep

LEMMA InvitesInvStep ==
  ASSUME InvitesInv, [Next]_vars
  PROVE  InvitesInv'
<1>1. CASE RecoveryStep \/ UNCHANGED vars
  <2>1. UNCHANGED <<users, roles>>
    BY <1>1 DEF RecoveryStep, ForgotPasswordSubmit, MemberAccessRecovery, AllowCounts,
         AllowRecords, RequestRecovery, vars, accountVars
  <2>2. QED
    BY <2>1, SameUsersAreSameAccounts, SameAccountsKeepInvites
<1>2. CASE Tick
  <2>1. UNCHANGED roles
    BY <1>2 DEF Tick
  <2>2. QED
    BY <1>2, <2>1, TickKeepsAccounts, SameAccountsKeepInvites
<1>3. QED
  BY <1>1, <1>2, SignInStepKeepsInvites, LinkStepKeepsInvites, OfficeStepKeepsInvites
     DEF Next

\* An account made by an invitation has the role it was invited to from the
\* moment it exists: account and grant are one transaction, and no later step
\* deletes a grant or changes whose it is.
THEOREM InvitedRoleIsGranted == Spec => []InvitedRoleIsHeld
<1>1. Init => InvitesInv
  BY InvitesInvInit
<1>2. InvitesInv /\ [Next]_vars => InvitesInv'
  BY InvitesInvStep
<1>3. InvitesInv => InvitedRoleIsHeld
  BY DEF InvitesInv
<1>4. QED
  BY <1>1, <1>2, <1>3, PTL DEF Spec

-----------------------------------------------------------------------------
(* Relationships.                                                          *)

RelationRow ==
  [from : People, to : People, kind : Kinds, archived : BOOLEAN, version : Nat]
RelationsTyped == relations \in Seq(RelationRow)

\* A line keeps its two ends, and an archived one all it says.
LinesStand ==
  \A r \in DOMAIN relations :
    /\ r \in DOMAIN relations'
    /\ relations'[r].from = relations[r].from /\ relations'[r].to = relations[r].to
    /\ relations[r].archived => relations'[r] = relations[r]

LEMMA LinesStandAreHistory ==
  ASSUME LinesStand
  PROVE  HouseholdsAreHistory
<1>1. SUFFICES ASSUME NEW p \in People
               PROVE  /\ History(p) \subseteq History(p)'
                      /\ \A r \in History(p) : OtherPerson(r, p)' = OtherPerson(r, p)
                      /\ \A r \in History(p) \ ListForPerson(p) : relations'[r] = relations[r]
  BY DEF HouseholdsAreHistory
<1>2. History(p) \subseteq History(p)'
  BY DEF History, LinesStand
<1>3. \A r \in History(p) : OtherPerson(r, p)' = OtherPerson(r, p)
  BY DEF History, OtherPerson, LinesStand
<1>4. \A r \in History(p) \ ListForPerson(p) : relations'[r] = relations[r]
  BY DEF History, ListForPerson, Current, LinesStand
<1>5. QED
  BY <1>2, <1>3, <1>4

LEMMA OneLineChanges ==
  ASSUME RelationsTyped, NEW r \in Current, NEW row \in RelationRow,
         row.from = relations[r].from, row.to = relations[r].to,
         relations' = [relations EXCEPT ![r] = row]
  PROVE  RelationsTyped' /\ LinesStand
<1>1. r \in DOMAIN relations /\ ~relations[r].archived
  BY DEF Current
<1>2. r \in 1 .. Len(relations) /\ relations \in Seq(RelationRow)
  BY <1>1 DEF RelationsTyped
<1>3. RelationsTyped'
  BY <1>2, ExceptSeq DEF RelationsTyped
<1>4. LinesStand
  BY <1>1 DEF LinesStand
<1>5. QED
  BY <1>3, <1>4

\* A line corrected or archived keeps its ends and its type.
LEMMA KindIsCorrected ==
  ASSUME NEW q \in RelationRow, NEW kind \in Kinds
  PROVE  LET row == [q EXCEPT !.kind = kind, !.version = @ + 1]
         IN row \in RelationRow /\ row.from = q.from /\ row.to = q.to
<1> DEFINE f == [q EXCEPT !.kind = kind]
           row == [q EXCEPT !.kind = kind, !.version = @ + 1]
<1>1. /\ q.from \in People /\ q.to \in People /\ q.kind \in Kinds
      /\ q.archived \in BOOLEAN /\ q.version + 1 \in Nat
  BY DEF RelationRow
<1>2. f = [from |-> q.from, to |-> q.to, kind |-> kind, archived |-> q.archived,
           version |-> q.version]
  BY DEF RelationRow
<1>3. row = [f EXCEPT !.version = q.version + 1]
  BY <1>2
<1> HIDE DEF f
<1>4. row = [from |-> q.from, to |-> q.to, kind |-> kind, archived |-> q.archived,
             version |-> q.version + 1]
  BY <1>2, <1>3
<1> HIDE DEF row
<1>5. QED
  BY <1>1, <1>4 DEF RelationRow

LEMMA LineIsArchived ==
  ASSUME NEW q \in RelationRow, NEW on \in BOOLEAN
  PROVE  LET row == [q EXCEPT !.archived = on, !.version = @ + 1]
         IN row \in RelationRow /\ row.from = q.from /\ row.to = q.to
<1> DEFINE f == [q EXCEPT !.archived = on]
           row == [q EXCEPT !.archived = on, !.version = @ + 1]
<1>1. /\ q.from \in People /\ q.to \in People /\ q.kind \in Kinds
      /\ q.archived \in BOOLEAN /\ q.version + 1 \in Nat
  BY DEF RelationRow
<1>2. f = [from |-> q.from, to |-> q.to, kind |-> q.kind, archived |-> on,
           version |-> q.version]
  BY DEF RelationRow
<1>3. row = [f EXCEPT !.version = q.version + 1]
  BY <1>2
<1> HIDE DEF f
<1>4. row = [from |-> q.from, to |-> q.to, kind |-> q.kind, archived |-> on,
             version |-> q.version + 1]
  BY <1>2, <1>3
<1> HIDE DEF row
<1>5. QED
  BY <1>1, <1>4 DEF RelationRow

LEMMA RelationshipStepStands ==
  ASSUME RelationsTyped, RelationshipStep
  PROVE  RelationsTyped' /\ LinesStand
<1>1. ASSUME NEW from \in People, NEW to \in People, NEW kind \in Kinds,
             CreateRelationship(from, to, kind)
      PROVE  RelationsTyped' /\ LinesStand
  <2> DEFINE row == [from |-> from, to |-> to, kind |-> kind, archived |-> FALSE,
                     version |-> 1]
  <2>1. row \in RelationRow /\ relations \in Seq(RelationRow)
    BY DEF RelationRow, RelationsTyped
  <2>2. relations' = Append(relations, row)
    BY <1>1 DEF CreateRelationship
  <2> HIDE DEF row
  <2>3. /\ relations' \in Seq(RelationRow) /\ Len(relations') = Len(relations) + 1
        /\ \A r \in 1 .. Len(relations) : relations'[r] = relations[r]
    BY <2>1, <2>2, AppendProperties
  <2>4. /\ DOMAIN relations = 1 .. Len(relations) /\ Len(relations) \in Nat
        /\ DOMAIN relations' = 1 .. Len(relations) + 1
    BY <2>1, <2>3, LenProperties
  <2>5. QED
    BY <2>3, <2>4 DEF RelationsTyped, LinesStand
<1>2. ASSUME NEW r \in DOMAIN relations, NEW version, NEW kind \in Kinds,
             UpdateRelationship(r, version, kind)
      PROVE  RelationsTyped' /\ LinesStand
  <2> DEFINE row == [relations[r] EXCEPT !.kind = kind, !.version = @ + 1]
  <2>1. relations[r] \in RelationRow /\ r \in Current
    BY <1>2 DEF RelationsTyped, UpdateRelationship
  <2>2. /\ row \in RelationRow
        /\ row.from = relations[r].from /\ row.to = relations[r].to
    BY <2>1, KindIsCorrected
  <2>3. relations' = [relations EXCEPT ![r] = row]
    BY <1>2, <2>1 DEF UpdateRelationship
  <2> HIDE DEF row
  <2>4. QED
    BY <2>1, <2>2, <2>3, OneLineChanges
<1>3. ASSUME NEW r \in DOMAIN relations, NEW version, ArchiveRelationship(r, version)
      PROVE  RelationsTyped' /\ LinesStand
  <2> DEFINE row == [relations[r] EXCEPT !.archived = TRUE, !.version = @ + 1]
  <2>1. relations[r] \in RelationRow /\ r \in Current
    BY <1>3 DEF RelationsTyped, ArchiveRelationship
  <2>2. /\ row \in RelationRow
        /\ row.from = relations[r].from /\ row.to = relations[r].to
    <3>1. TRUE \in BOOLEAN
      OBVIOUS
    <3>2. QED
      BY <2>1, <3>1, LineIsArchived
  <2>3. relations' = [relations EXCEPT ![r] = row]
    BY <1>3, <2>1 DEF ArchiveRelationship
  <2> HIDE DEF row
  <2>4. QED
    BY <2>1, <2>2, <2>3, OneLineChanges
<1>4. QED
  BY <1>1, <1>2, <1>3 DEF RelationshipStep

LEMMA RelationsStep ==
  ASSUME RelationsTyped, [Next]_vars
  PROVE  RelationsTyped' /\ [HouseholdsAreHistory]_relations
<1> USE DEF accountVars
<1>1. ASSUME UNCHANGED relations
      PROVE  RelationsTyped' /\ [HouseholdsAreHistory]_relations
  BY <1>1 DEF RelationsTyped
<1>2. CASE SignInStep
  <2>1. UNCHANGED relations
    BY <1>2 DEF SignInStep, LoginSubmit, SignInReads, LockRunsOut, SignInFails,
       SignInSucceeds, CreateSession, SignOut
  <2>2. QED
    BY <1>1, <2>1
<1>3. CASE RecoveryStep
  <2>1. UNCHANGED relations
    BY <1>3 DEF RecoveryStep, ForgotPasswordSubmit, MemberAccessRecovery, AllowCounts,
         AllowRecords, RequestRecovery
  <2>2. QED
    BY <1>1, <2>1
<1>4. CASE LinkStep
  <2>1. UNCHANGED relations
    BY <1>4 DEF LinkStep, CreateInvitation, ResetPasswordSubmit, InvitationSubmit,
         ConsumeReads, ConsumeMarks, SetPassword, CreateUserFromInvitation,
         LoginByUserID, CallStops
  <2>2. QED
    BY <1>1, <2>1
<1>5. CASE OfficeStep
  <2>1. CASE RelationshipStep
    BY <2>1, RelationshipStepStands, LinesStandAreHistory
  <2>2. CASE PageStep \/ ApiStep \/ RoleStep
    <3>1. UNCHANGED relations
      BY <2>2 DEF PageStep, ApiStep, RoleStep, Provision, MemberAccessGrant,
           MemberAccessRevoke, GrantAccess, RevokeAccess, CreateRoleGrant, RevokeRoleGrant
    <3>2. QED
      BY <1>1, <3>1
  <2>3. QED
    BY <1>5, <2>1, <2>2 DEF OfficeStep
<1>6. CASE Tick \/ UNCHANGED vars
  BY <1>1, <1>6 DEF Tick, vars
<1>7. QED
  BY <1>2, <1>3, <1>4, <1>5, <1>6 DEF Next

\* A person's history only grows, a line of it names the same other person for
\* ever, and what is archived stays as it was recorded.
THEOREM RelationsStayHistory == Spec => RelationsAreHistory
<1>1. Init => RelationsTyped
  BY DEF Init, RelationsTyped
<1>2. RelationsTyped /\ [Next]_vars => RelationsTyped' /\ [HouseholdsAreHistory]_relations
  BY RelationsStep
<1>3. QED
  BY <1>1, <1>2, PTL DEF Spec, RelationsAreHistory

-----------------------------------------------------------------------------
(* The limit on recovery mails.  The limiter counts in one statement and   *)
(* records in another, so an attempt counts twice in the argument: among   *)
(* the calls that were allowed and have not recorded yet, then among the   *)
(* attempts.  The inductive invariant bounds the two together.             *)

Mails(a) == {t \in OnTarget(a) : t.verdict = "allowed"}
Coming(a) ==
  {c \in calls : /\ c.kind = "ask" /\ Mailbox[c.typed] = Mailbox[a]
                 /\ c.verdict = "allowed" /\ ~ c.recorded}

CallsAreFew == IsFiniteSet(calls) /\ Cardinality(calls) <= CallLimit

\* A call knows what it is, and one that asks for a mail all it asked.
IsACall(c) ==
  /\ "kind" \in DOMAIN c
  /\ c.kind = "ask" => {"typed", "verdict", "recorded"} \subseteq DOMAIN c
IsAnAttempt(t) == {"target", "verdict"} \subseteq DOMAIN t

MailsAndComing ==
  \A a \in Addresses :
    Cardinality(Mails(a)) + Cardinality(Coming(a)) <= MaxPerTarget + CallLimit - 1

MailsInv ==
  /\ CallsAreFew /\ IsFiniteSet(attempts)
  /\ \A c \in calls : IsACall(c)
  /\ \A t \in attempts : IsAnAttempt(t)
  /\ MailsAndComing

LEMMA OneMore ==
  ASSUME NEW S, NEW x, IsFiniteSet(S)
  PROVE  /\ IsFiniteSet(S \cup {x}) /\ Cardinality(S \cup {x}) <= Cardinality(S) + 1
         /\ Cardinality(S) \in Nat /\ Cardinality(S \cup {x}) \in Nat
BY FS_AddElement, FS_CardinalityType

LEMMA PutAdds ==
  ASSUME NEW S, NEW x, IsFiniteSet(S)
  PROVE  /\ IsFiniteSet(Put(S, x)) /\ Cardinality(Put(S, x)) <= Cardinality(S) + 1
         /\ Cardinality(S) \in Nat
         /\ \E y : /\ Put(S, x) = S \cup {y} /\ DOMAIN y = DOMAIN x
                   /\ \A f \in DOMAIN x \ {"nth"} : y[f] = x[f]
<1>1. PICK n : Put(S, x) = S \cup {[x EXCEPT !.nth = n]}
  BY DEF Put
<1>2. PICK y : y = [x EXCEPT !.nth = n]
  OBVIOUS
<1>3. DOMAIN y = DOMAIN x /\ \A f \in DOMAIN x \ {"nth"} : y[f] = x[f]
  BY <1>2
<1>4. Put(S, x) = S \cup {y}
  BY <1>1, <1>2
<1>5. /\ IsFiniteSet(S \cup {y}) /\ Cardinality(S \cup {y}) <= Cardinality(S) + 1
      /\ Cardinality(S) \in Nat
  BY OneMore
<1>6. QED
  BY <1>3, <1>4, <1>5

LEMMA MailsAreCounted ==
  ASSUME MailsInv, NEW a
  PROVE  /\ IsFiniteSet(Mails(a)) /\ Cardinality(Mails(a)) \in Nat
         /\ IsFiniteSet(OnTarget(a)) /\ Cardinality(OnTarget(a)) \in Nat
         /\ Cardinality(Mails(a)) <= Cardinality(OnTarget(a))
         /\ IsFiniteSet(Coming(a)) /\ Cardinality(Coming(a)) \in Nat
<1>1. /\ OnTarget(a) \in SUBSET attempts /\ Mails(a) \in SUBSET OnTarget(a)
      /\ Coming(a) \in SUBSET calls
  BY DEF OnTarget, Mails, Coming
<1>2. IsFiniteSet(OnTarget(a)) /\ IsFiniteSet(Coming(a))
  BY <1>1, FS_Subset DEF MailsInv, CallsAreFew
<1>3. IsFiniteSet(Mails(a)) /\ Cardinality(Mails(a)) <= Cardinality(OnTarget(a))
  BY <1>1, <1>2, FS_Subset
<1>4. QED
  BY <1>2, <1>3, FS_CardinalityType

\* A step that lets no new mail through: what is on its way and what was sent
\* are not more than before.
LEMMA NoMoreMails ==
  ASSUME MailsInv, IsFiniteSet(calls'), Cardinality(calls') <= CallLimit,
         \A c \in calls' : IsACall(c),
         \A c \in calls' : c \in calls \/ c.kind # "ask",
         UNCHANGED attempts
  PROVE  MailsInv'
<1>1. ASSUME NEW a \in Addresses
      PROVE  Cardinality(Mails(a)') + Cardinality(Coming(a)')
               <= MaxPerTarget + CallLimit - 1
  <2>1. Mails(a)' = Mails(a)
    BY DEF Mails, OnTarget
  <2>2. Coming(a)' \in SUBSET Coming(a)
    BY DEF Coming
  <2>3. Cardinality(Coming(a)') <= Cardinality(Coming(a)) /\ IsFiniteSet(Coming(a)')
    BY <2>2, FS_Subset, MailsAreCounted
  <2>4. /\ Cardinality(Coming(a)') \in Nat /\ Cardinality(Coming(a)) \in Nat
        /\ Cardinality(Mails(a)) \in Nat
    BY <2>3, FS_CardinalityType, MailsAreCounted
  <2>5. Cardinality(Mails(a)) + Cardinality(Coming(a)) <= MaxPerTarget + CallLimit - 1
    BY DEF MailsInv, MailsAndComing
  <2>6. QED
    BY <2>1, <2>3, <2>4, <2>5, LimitsArePositive, CallsAreCounted
<1>2. QED
  BY <1>1 DEF MailsInv, CallsAreFew, MailsAndComing, IsAnAttempt, IsACall

LEMMA EndingACallSendsNothing ==
  ASSUME MailsInv, NEW S \in SUBSET calls, calls' = S, UNCHANGED attempts
  PROVE  MailsInv'
<1>1. IsFiniteSet(S) /\ Cardinality(S) <= CallLimit
  <2>1. /\ IsFiniteSet(S) /\ Cardinality(S) <= Cardinality(calls)
    BY FS_Subset DEF MailsInv, CallsAreFew
  <2>2. Cardinality(S) \in Nat /\ Cardinality(calls) \in Nat
    BY <2>1, FS_CardinalityType DEF MailsInv, CallsAreFew
  <2>3. QED
    BY <2>1, <2>2, CallsAreCounted DEF MailsInv, CallsAreFew
<1>2. QED
  BY <1>1, NoMoreMails DEF MailsInv

LEMMA NewCallSendsNothing ==
  ASSUME MailsInv, NEW x, calls' = Put(calls, x), HasSlot, UNCHANGED attempts,
         "kind" \in DOMAIN x, x.kind # "ask"
  PROVE  MailsInv'
<1>1. PICK y : /\ calls' = calls \cup {y} /\ DOMAIN y = DOMAIN x
               /\ \A f \in DOMAIN x \ {"nth"} : y[f] = x[f]
  BY PutAdds DEF MailsInv, CallsAreFew
<1>2. "kind" \in DOMAIN y /\ y.kind # "ask"
  BY <1>1
<1>3. /\ IsFiniteSet(calls') /\ Cardinality(calls') <= Cardinality(calls) + 1
      /\ Cardinality(calls) \in Nat /\ Cardinality(calls') \in Nat
  BY PutAdds, FS_CardinalityType DEF MailsInv, CallsAreFew
<1>4. Cardinality(calls') <= CallLimit
  BY <1>3, CallsAreCounted DEF HasSlot
<1>5. \A c \in calls' : IsACall(c)
  BY <1>1, <1>2 DEF MailsInv, IsACall
<1>6. QED
  BY <1>1, <1>2, <1>3, <1>4, <1>5, NoMoreMails

\* A call goes on as another one: the slot it held is the one that is taken.
LEMMA NextStageSendsNothing ==
  ASSUME MailsInv, NEW call \in calls, NEW x, calls' = Put(calls \ {call}, x),
         UNCHANGED attempts, "kind" \in DOMAIN x, x.kind # "ask"
  PROVE  MailsInv'
<1>1. /\ IsFiniteSet(calls \ {call}) /\ Cardinality(calls \ {call}) = Cardinality(calls) - 1
      /\ Cardinality(calls) \in Nat
  BY FS_RemoveElement, FS_CardinalityType DEF MailsInv, CallsAreFew
<1>2. PICK y : /\ calls' = (calls \ {call}) \cup {y} /\ DOMAIN y = DOMAIN x
               /\ \A f \in DOMAIN x \ {"nth"} : y[f] = x[f]
  BY <1>1, PutAdds
<1>3. "kind" \in DOMAIN y /\ y.kind # "ask"
  BY <1>2
<1>4. /\ IsFiniteSet(calls') /\ Cardinality(calls') <= Cardinality(calls \ {call}) + 1
      /\ Cardinality(calls') \in Nat
  BY <1>1, PutAdds, FS_CardinalityType
<1>5. Cardinality(calls') <= CallLimit
  BY <1>1, <1>4, CallsAreCounted DEF MailsInv, CallsAreFew
<1>6. \A c \in calls' : IsACall(c)
  BY <1>2, <1>3 DEF MailsInv, IsACall
<1>7. QED
  BY <1>2, <1>3, <1>4, <1>5, <1>6, NoMoreMails

\* A call that counted fewer than the rule allows leaves room for itself: the
\* mails sent are among those counted, the others coming among the other calls.
LEMMA CountingKeepsMails ==
  ASSUME MailsInv, NEW source, NEW typed \in Addresses, AllowCounts(source, typed)
  PROVE  MailsInv'
<1>1. PICK answered, verdict, x :
        /\ verdict = Verdict(source, typed, answered)
        /\ x = AskCall(source, typed, verdict) /\ calls' = Put(calls, x)
  BY DEF AllowCounts
<1>2. verdict = "allowed" =>
        ~ Limited(source, typed, answered) /\ "target" \in answered
  BY <1>1 DEF Verdict
<1>3. /\ DOMAIN x = {"kind", "nth", "source", "typed", "verdict", "recorded", "left"}
      /\ x.kind = "ask" /\ x.typed = typed /\ x.verdict = verdict
  BY <1>1 DEF AskCall
<1>4. calls' = Put(calls, x) /\ HasSlot /\ UNCHANGED attempts
  BY <1>1 DEF AllowCounts
<1>5. PICK y : /\ calls' = calls \cup {y} /\ DOMAIN y = DOMAIN x
               /\ \A f \in DOMAIN x \ {"nth"} : y[f] = x[f]
  BY <1>4, PutAdds DEF MailsInv, CallsAreFew
<1>6. y.kind = "ask" /\ y.typed = typed /\ y.verdict = verdict /\ IsACall(y)
  BY <1>3, <1>5 DEF IsACall
<1>7. /\ IsFiniteSet(calls') /\ Cardinality(calls') <= Cardinality(calls) + 1
      /\ Cardinality(calls) \in Nat /\ Cardinality(calls') \in Nat
  BY <1>4, PutAdds, FS_CardinalityType DEF MailsInv, CallsAreFew
<1>8. Cardinality(calls') <= CallLimit
  BY <1>4, <1>7, CallsAreCounted DEF HasSlot
<1>9. ASSUME NEW a \in Addresses
      PROVE  Cardinality(Mails(a)') + Cardinality(Coming(a)')
               <= MaxPerTarget + CallLimit - 1
  <2>1. Mails(a)' = Mails(a)
    BY <1>4 DEF Mails, OnTarget
  <2>2. Coming(a)' \in SUBSET calls'
    BY DEF Coming
  <2>3. /\ IsFiniteSet(Coming(a)') /\ Cardinality(Coming(a)') \in Nat
        /\ Cardinality(Coming(a)') <= Cardinality(calls')
    BY <1>7, <2>2, FS_Subset, FS_CardinalityType
  <2>4. /\ Cardinality(Mails(a)) \in Nat /\ Cardinality(OnTarget(a)) \in Nat
        /\ Cardinality(Mails(a)) <= Cardinality(OnTarget(a))
        /\ IsFiniteSet(Coming(a)) /\ Cardinality(Coming(a)) \in Nat
    BY MailsAreCounted
  <2>5. CASE Mailbox[typed] = Mailbox[a] /\ verdict = "allowed"
    <3>1. OnTarget(typed) = OnTarget(a)
      BY <2>5 DEF OnTarget
    <3>2. ~ (Cardinality(OnTarget(a)) >= MaxPerTarget)
      BY <1>2, <2>5, <3>1 DEF Limited
    <3>3. QED
      BY <1>7, <1>8, <2>1, <2>3, <2>4, <3>2, LimitsArePositive, CallsAreCounted
  <2>6. CASE ~ (Mailbox[typed] = Mailbox[a] /\ verdict = "allowed")
    <3>1. Coming(a)' \in SUBSET Coming(a)
      BY <1>5, <1>6, <2>6 DEF Coming
    <3>2. Cardinality(Coming(a)') <= Cardinality(Coming(a))
      BY <2>4, <3>1, FS_Subset
    <3>3. Cardinality(Mails(a)) + Cardinality(Coming(a)) <= MaxPerTarget + CallLimit - 1
      BY DEF MailsInv, MailsAndComing
    <3>4. QED
      BY <2>1, <2>3, <2>4, <3>2, <3>3, LimitsArePositive, CallsAreCounted
  <2>7. QED
    BY <2>5, <2>6
<1>10. QED
  BY <1>4, <1>5, <1>6, <1>7, <1>8, <1>9
     DEF MailsInv, CallsAreFew, MailsAndComing, IsAnAttempt, IsACall

\* An attempt recorded is a call less to come, and one that is not recorded is
\* no mail that counts.
LEMMA RecordingKeepsMails ==
  ASSUME MailsInv, NEW call \in calls, AllowRecords(call)
  PROVE  MailsInv'
<1>1. /\ call.kind = "ask" /\ ~ call.recorded /\ "kind" \in DOMAIN call
      /\ {"typed", "verdict", "recorded"} \subseteq DOMAIN call
  BY DEF AllowRecords, MailsInv, IsACall
<1>2. PICK x : x = Attempt(call)
  OBVIOUS
<1>3. /\ DOMAIN x = {"nth", "source", "target", "verdict", "left"}
      /\ x.target = Mailbox[call.typed] /\ x.verdict = call.verdict
  BY <1>2 DEF Attempt
<1>4. PICK z : z = [call EXCEPT !.recorded = TRUE, !.left = 0]
  OBVIOUS
<1>5. DOMAIN z = DOMAIN call /\ z.recorded = TRUE /\ z.kind = "ask"
  BY <1>1, <1>4
<1>6. /\ attempts' = Put(attempts, x) \/ attempts' = attempts
      /\ calls' = Put(calls \ {call}, z)
  BY <1>2, <1>4 DEF AllowRecords
<1>7. PICK t : /\ Put(attempts, x) = attempts \cup {t} /\ DOMAIN t = DOMAIN x
               /\ \A f \in DOMAIN x \ {"nth"} : t[f] = x[f]
  BY PutAdds DEF MailsInv
<1>8. /\ t.target = Mailbox[call.typed] /\ t.verdict = call.verdict /\ IsAnAttempt(t)
      /\ attempts' \in {attempts, attempts \cup {t}}
  BY <1>3, <1>6, <1>7 DEF IsAnAttempt
<1>9. /\ IsFiniteSet(calls \ {call}) /\ Cardinality(calls \ {call}) = Cardinality(calls) - 1
      /\ Cardinality(calls) \in Nat
  BY FS_RemoveElement, FS_CardinalityType DEF MailsInv, CallsAreFew
<1>10. PICK y : /\ calls' = (calls \ {call}) \cup {y} /\ DOMAIN y = DOMAIN z
                /\ \A f \in DOMAIN z \ {"nth"} : y[f] = z[f]
  BY <1>6, <1>9, PutAdds
<1>11. y.recorded = TRUE /\ y.kind = "ask" /\ IsACall(y)
  BY <1>1, <1>5, <1>10 DEF IsACall
<1>12. CallsAreFew'
  <2>1. /\ IsFiniteSet(calls') /\ Cardinality(calls') <= Cardinality(calls \ {call}) + 1
        /\ Cardinality(calls') \in Nat
    BY <1>6, <1>9, PutAdds, FS_CardinalityType
  <2>2. QED
    BY <1>9, <2>1, CallsAreCounted DEF MailsInv, CallsAreFew
<1>13. ASSUME NEW a \in Addresses
       PROVE  Cardinality(Mails(a)') + Cardinality(Coming(a)')
                <= MaxPerTarget + CallLimit - 1
  <2>1. /\ Cardinality(Mails(a)) \in Nat /\ IsFiniteSet(Mails(a))
        /\ IsFiniteSet(Coming(a)) /\ Cardinality(Coming(a)) \in Nat
    BY MailsAreCounted
  <2>2. Cardinality(Mails(a)) + Cardinality(Coming(a)) <= MaxPerTarget + CallLimit - 1
    BY DEF MailsInv, MailsAndComing
  <2>3. Coming(a)' = Coming(a) \ {call}
    BY <1>10, <1>11 DEF Coming
  <2>4. CASE Mailbox[call.typed] = Mailbox[a] /\ call.verdict = "allowed"
    <3>1. call \in Coming(a)
      BY <1>1, <2>4 DEF Coming
    <3>2. Cardinality(Coming(a)') = Cardinality(Coming(a)) - 1
      BY <2>1, <2>3, <3>1, FS_RemoveElement
    <3>3. Mails(a)' \in {Mails(a), Mails(a) \cup {t}}
      BY <1>8, <2>4 DEF Mails, OnTarget
    <3>4. /\ Cardinality(Mails(a)') <= Cardinality(Mails(a)) + 1
          /\ Cardinality(Mails(a)') \in Nat
      <4>1. PICK m, n : m = Mails(a) /\ n = Mails(a)'
        OBVIOUS
      <4>2. n = m \/ n = m \cup {t}
        BY <3>3, <4>1
      <4>3. /\ Cardinality(m \cup {t}) <= Cardinality(m) + 1 /\ Cardinality(m) \in Nat
            /\ Cardinality(m \cup {t}) \in Nat
        BY <2>1, <4>1, OneMore
      <4>4. Cardinality(n) <= Cardinality(m) + 1 /\ Cardinality(n) \in Nat
        BY <4>2, <4>3
      <4>5. QED
        BY <4>1, <4>4
    <3>5. QED
      BY <2>1, <2>2, <3>2, <3>4, LimitsArePositive, CallsAreCounted
  <2>5. CASE ~ (Mailbox[call.typed] = Mailbox[a] /\ call.verdict = "allowed")
    <3>1. Mails(a)' = Mails(a)
      BY <1>8, <2>5 DEF Mails, OnTarget
    <3>2. /\ Cardinality(Coming(a)') <= Cardinality(Coming(a))
          /\ Cardinality(Coming(a)') \in Nat
      BY <2>1, <2>3, FS_Subset, FS_CardinalityType
    <3>3. QED
      BY <2>1, <2>2, <3>1, <3>2, LimitsArePositive, CallsAreCounted
  <2>6. QED
    BY <2>4, <2>5
<1>14. IsFiniteSet(attempts') /\ \A s \in attempts' : IsAnAttempt(s)
  <2>1. IsFiniteSet(attempts')
    BY <1>6, PutAdds DEF MailsInv
  <2>2. \A s \in attempts' : IsAnAttempt(s)
    BY <1>8 DEF MailsInv
  <2>3. QED
    BY <2>1, <2>2
<1>15. \A c \in calls' : IsACall(c)
  BY <1>10, <1>11 DEF MailsInv
<1>16. QED
  BY <1>12, <1>13, <1>14, <1>15 DEF MailsInv, MailsAndComing, IsACall, IsAnAttempt

\* The image of a finite set is no larger.
LEMMA ImagesAreNoMore ==
  ASSUME NEW S, IsFiniteSet(S), NEW T, NEW later,
         \A y \in T : \E x \in S : y = later[x]
  PROVE  IsFiniteSet(T) /\ Cardinality(T) <= Cardinality(S)
<1> DEFINE U == {x \in S : later[x] \in T}
           f == [x \in U |-> later[x]]
<1>1. IsFiniteSet(U) /\ Cardinality(U) <= Cardinality(S)
  <2>1. U \in SUBSET S
    OBVIOUS
  <2>2. QED
    BY <2>1, FS_Subset
<1>2. f \in Surjection(U, T)
  BY DEF Surjection
<1>3. IsFiniteSet(T) /\ Cardinality(T) <= Cardinality(U)
  BY <1>1, <1>2, FS_Surjection
<1>4. /\ Cardinality(T) \in Nat /\ Cardinality(U) \in Nat /\ Cardinality(S) \in Nat
  BY <1>1, <1>3, FS_CardinalityType
<1>5. QED
  BY <1>1, <1>3, <1>4

\* Time takes attempts out of the window and makes none: those that stay were
\* there before, each under the same address and with the same verdict, and so
\* were the calls.
LEMMA TimeKeepsMails ==
  ASSUME MailsInv, Tick
  PROVE  MailsInv'
<1>1. PICK older : older = [t \in attempts |-> [t EXCEPT !.left = @ - 1]]
  OBVIOUS
<1>2. PICK later : later = [c \in calls |-> Later(c)]
  OBVIOUS
<1>3. \A t \in attempts : /\ older[t].target = t.target /\ older[t].verdict = t.verdict
                          /\ IsAnAttempt(older[t])
  BY <1>1 DEF MailsInv, IsAnAttempt
<1>4. ASSUME NEW c \in calls
      PROVE  /\ IsACall(later[c]) /\ later[c].kind = c.kind
             /\ c.kind = "ask" => /\ later[c].typed = c.typed
                                  /\ later[c].verdict = c.verdict
                                  /\ later[c].recorded = c.recorded
  <2>1. PICK d : d = [c EXCEPT !.left = Less(@)]
    OBVIOUS
  <2>2. IsACall(c)
    BY DEF MailsInv
  <2>3. later[c] = IF c.kind = "ask" THEN d ELSE c
    BY <1>2, <2>1 DEF Later
  <2>4. DOMAIN d = DOMAIN c /\ \A f \in DOMAIN c \ {"left"} : d[f] = c[f]
    BY <2>1
  <2>5. QED
    BY <2>2, <2>3, <2>4 DEF IsACall
<1>5. \A s \in attempts' : \E t \in attempts : s = older[t]
  BY <1>1 DEF Tick
<1>6. \A d \in calls' : \E c \in calls : d = later[c]
  BY <1>2 DEF Tick
<1>7. IsFiniteSet(attempts')
  BY <1>5, ImagesAreNoMore DEF MailsInv
<1>8. CallsAreFew'
  <2>1. IsFiniteSet(calls') /\ Cardinality(calls') <= Cardinality(calls)
    BY <1>6, ImagesAreNoMore DEF MailsInv, CallsAreFew
  <2>2. Cardinality(calls') \in Nat /\ Cardinality(calls) \in Nat
    BY <2>1, FS_CardinalityType DEF MailsInv, CallsAreFew
  <2>3. QED
    BY <2>1, <2>2, CallsAreCounted DEF MailsInv, CallsAreFew
<1>9. ASSUME NEW a \in Addresses
      PROVE  Cardinality(Mails(a)') + Cardinality(Coming(a)')
               <= MaxPerTarget + CallLimit - 1
  <2>1. \A s \in Mails(a)' : \E t \in Mails(a) : s = older[t]
    BY <1>3, <1>5 DEF Mails, OnTarget
  <2>2. \A d \in Coming(a)' : \E c \in Coming(a) : d = later[c]
    BY <1>4, <1>6 DEF Coming
  <2>3. /\ IsFiniteSet(Mails(a)) /\ Cardinality(Mails(a)) \in Nat
        /\ IsFiniteSet(Coming(a)) /\ Cardinality(Coming(a)) \in Nat
    BY MailsAreCounted
  <2>4. IsFiniteSet(Mails(a)') /\ Cardinality(Mails(a)') <= Cardinality(Mails(a))
    BY <2>1, <2>3, ImagesAreNoMore
  <2>5. IsFiniteSet(Coming(a)') /\ Cardinality(Coming(a)') <= Cardinality(Coming(a))
    BY <2>2, <2>3, ImagesAreNoMore
  <2>6. Cardinality(Mails(a)') \in Nat /\ Cardinality(Coming(a)') \in Nat
    BY <2>4, <2>5, FS_CardinalityType
  <2>7. Cardinality(Mails(a)) + Cardinality(Coming(a)) <= MaxPerTarget + CallLimit - 1
    BY DEF MailsInv, MailsAndComing
  <2>8. QED
    BY <2>3, <2>4, <2>5, <2>6, <2>7, LimitsArePositive, CallsAreCounted
<1>10. \A s \in attempts' : IsAnAttempt(s)
  BY <1>3, <1>5
<1>11. \A d \in calls' : IsACall(d)
  BY <1>4, <1>6
<1>12. QED
  BY <1>7, <1>8, <1>9, <1>10, <1>11
     DEF MailsInv, CallsAreFew, MailsAndComing, IsACall, IsAnAttempt

\* Calls of the other kinds: none of them asks for a mail.
LEMMA OtherCallsKeepMails ==
  ASSUME MailsInv, SignInStep \/ LinkStep
  PROVE  MailsInv'
<1>1. UNCHANGED attempts
  BY DEF SignInStep, LinkStep, LoginSubmit, SignInReads, LockRunsOut, SignInFails,
       SignInSucceeds, CreateSession, SignOut, CreateInvitation, ResetPasswordSubmit,
       InvitationSubmit, ConsumeReads, ConsumeMarks, SetPassword,
       CreateUserFromInvitation, LoginByUserID, CallStops
<1>2. ASSUME NEW call \in calls, calls' = calls \ {call}
      PROVE  MailsInv'
  BY <1>1, <1>2, EndingACallSendsNothing
<1>3. calls' = calls => MailsInv'
  BY <1>1, EndingACallSendsNothing
<1>4. ASSUME NEW u, NEW right, SignInReads(u, right)
      PROVE  MailsInv'
  <2>1. PICK x : x = SignInCall(u, right)
    OBVIOUS
  <2>2. "kind" \in DOMAIN x /\ x.kind # "ask"
    BY <2>1 DEF SignInCall
  <2>3. QED
    BY <1>1, <1>4, <2>1, <2>2, NewCallSendsNothing DEF SignInReads
<1>5. ASSUME NEW call \in calls, NEW u, Welcomes(call, u)
      PROVE  MailsInv'
  <2>1. PICK x : x = [kind |-> "open", nth |-> 1, user |-> u]
    OBVIOUS
  <2>2. "kind" \in DOMAIN x /\ x.kind # "ask"
    BY <2>1
  <2>3. QED
    BY <1>1, <1>5, <2>1, <2>2, NextStageSendsNothing DEF Welcomes
<1>6. ASSUME NEW l, NEW page, ConsumeReads(l, page)
      PROVE  MailsInv'
  <2>1. PICK x : x = ConsumeCall(l, page)
    OBVIOUS
  <2>2. "kind" \in DOMAIN x /\ x.kind # "ask"
    BY <2>1 DEF ConsumeCall
  <2>3. QED
    BY <1>1, <1>6, <2>1, <2>2, NewCallSendsNothing DEF ConsumeReads
<1>7. ASSUME NEW call \in calls, call.kind = "follow", NEW stage,
             calls' = Put(calls \ {call}, [call EXCEPT !.stage = stage])
      PROVE  MailsInv'
  <2>1. PICK x : x = [call EXCEPT !.stage = stage]
    OBVIOUS
  <2>2. "kind" \in DOMAIN call
    BY DEF MailsInv, IsACall
  <2>3. "kind" \in DOMAIN x /\ x.kind # "ask"
    BY <1>7, <2>1, <2>2
  <2>4. QED
    BY <1>1, <1>7, <2>1, <2>3, NextStageSendsNothing
<1>8. CASE SignInStep
  <2>1. ASSUME NEW call \in calls, LockRunsOut(call)
        PROVE  MailsInv'
    <3>1. call.kind = "signin" /\ calls' = Put(calls \ {call}, [call EXCEPT !.over = FALSE])
      BY <2>1 DEF LockRunsOut
    <3>2. PICK x : x = [call EXCEPT !.over = FALSE]
      OBVIOUS
    <3>3. "kind" \in DOMAIN call
      BY DEF MailsInv, IsACall
    <3>4. "kind" \in DOMAIN x /\ x.kind # "ask"
      BY <3>1, <3>2, <3>3
    <3>5. QED
      BY <1>1, <3>1, <3>2, <3>4, NextStageSendsNothing
  <2>2. ASSUME NEW call \in calls,
               SignInFails(call) \/ SignInSucceeds(call) \/ CreateSession(call)
        PROVE  MailsInv'
    BY <1>2, <1>5, <2>2 DEF SignInFails, SignInSucceeds, CreateSession
  <2>3. \A s : SignOut(s) => MailsInv'
    BY <1>3 DEF SignOut
  <2>4. QED
    BY <1>4, <1>8, <2>1, <2>2, <2>3 DEF SignInStep, LoginSubmit
<1>9. CASE LinkStep
  <2>1. ASSUME NEW call \in calls, ConsumeMarks(call)
        PROVE  MailsInv'
    BY <1>2, <1>7, <2>1 DEF ConsumeMarks
  <2>2. ASSUME NEW call \in calls, SetPassword(call) \/ CreateUserFromInvitation(call)
        PROVE  MailsInv'
    BY <1>7, <2>2 DEF SetPassword, CreateUserFromInvitation, Done, Follows
  <2>3. ASSUME NEW call \in calls, LoginByUserID(call) \/ CallStops(call)
        PROVE  MailsInv'
    BY <1>2, <1>5, <2>3 DEF LoginByUserID, CallStops
  <2>4. \A a, role : CreateInvitation(a, role) => MailsInv'
    BY <1>3 DEF CreateInvitation
  <2>5. QED
    BY <1>6, <1>9, <2>1, <2>2, <2>3, <2>4
       DEF LinkStep, ResetPasswordSubmit, InvitationSubmit
<1>10. QED
  BY <1>8, <1>9

LEMMA RecoveryStepKeepsMails ==
  ASSUME MailsInv, RecoveryStep
  PROVE  MailsInv'
<1>1. ASSUME NEW call \in calls, RequestRecovery(call)
      PROVE  MailsInv'
  BY <1>1, EndingACallSendsNothing DEF RequestRecovery
<1>2. QED
  BY <1>1, CountingKeepsMails, RecordingKeepsMails
     DEF RecoveryStep, ForgotPasswordSubmit, MemberAccessRecovery

\* A count allows no more recovery mails to one mailbox in a window than the
\* rule says, but for the calls that counted before the others recorded: the
\* slack is the number of requests in flight and nothing else, in any order of
\* them, whichever of their statements fail.
THEOREM MailsAreBounded == Spec => []RecoveryMailsAreBounded
<1>1. Init => MailsInv
  <2>1. SUFFICES ASSUME Init PROVE MailsInv
    OBVIOUS
  <2>2. calls = {} /\ attempts = {}
    BY <2>1 DEF Init
  <2>3. CallsAreFew /\ IsFiniteSet(attempts)
    BY <2>2, FS_EmptySet, CallsAreCounted DEF CallsAreFew
  <2>4. \A a : Mails(a) = {} /\ Coming(a) = {}
    BY <2>2 DEF Mails, OnTarget, Coming
  <2>5. MailsAndComing
    BY <2>4, FS_EmptySet, LimitsArePositive, CallsAreCounted DEF MailsAndComing
  <2>6. QED
    BY <2>2, <2>3, <2>5 DEF MailsInv
<1>2. MailsInv /\ [Next]_vars => MailsInv'
  <2>1. SUFFICES ASSUME MailsInv, [Next]_vars PROVE MailsInv'
    OBVIOUS
  <2>2. UNCHANGED <<calls, attempts>> => MailsInv'
    BY <2>1, EndingACallSendsNothing
  <2>3. OfficeStep => UNCHANGED <<calls, attempts>>
    BY DEF OfficeStep, signVars
  <2>4. QED
    BY <2>1, <2>2, <2>3, OtherCallsKeepMails, RecoveryStepKeepsMails, TimeKeepsMails
       DEF Next, vars, signVars
<1>3. MailsInv => RecoveryMailsAreBounded
  <2>1. SUFFICES ASSUME MailsInv, NEW a \in Addresses
                 PROVE  Cardinality(Mails(a)) <= MaxPerTarget + CallLimit - 1
    BY DEF RecoveryMailsAreBounded, Mails
  <2>2. Cardinality(Mails(a)) \in Nat /\ Cardinality(Coming(a)) \in Nat
    BY <2>1, MailsAreCounted
  <2>3. Cardinality(Mails(a)) + Cardinality(Coming(a)) <= MaxPerTarget + CallLimit - 1
    BY <2>1 DEF MailsInv, MailsAndComing
  <2>4. QED
    BY <2>2, <2>3, LimitsArePositive, CallsAreCounted
<1>4. QED
  BY <1>1, <1>2, <1>3, PTL DEF Spec

=============================================================================
