------------------------------- MODULE SignIn -------------------------------
(***************************************************************************)
(* How people come to be signed in: invitations, passwords and lockout,    *)
(* recovery mail and its limit, sessions; and what the officers then do to *)
(* accounts.                                                               *)
(*                                                                         *)
(* Code: internal/authn, internal/ratelimit, the sign-in pages of          *)
(* internal/web/handler.go and internal/httpapi/ops_session.go.            *)
(*                                                                         *)
(* These calls run without a transaction: "calls" holds those between two  *)
(* statements.  Time counts down: a lock, a session, a link and an attempt *)
(* each carry the ticks they have left, so that signing in goes on for     *)
(* ever in finitely many states.                                           *)
(***************************************************************************)
EXTENDS Accounts, FiniteSetsExt

CONSTANTS
  Sources, Unknown,            \* client addresses, one of them not known
  MaxFailedAttempts, LockTicks, SessionTicks, LinkTicks, Window,
  MaxPerSource, MaxPerTarget,
  CallLimit, LinkLimit, RequestLimit   \* bounds: calls at a time, links, requests that add rows

ASSUME LimitsArePositive ==
  {MaxFailedAttempts, LockTicks, SessionTicks, LinkTicks, Window,
   MaxPerSource, MaxPerTarget} \subseteq Nat \ {0}
ASSUME CallsAreCounted == CallLimit \in Nat

VARIABLES
  sessions,   \* live sessions; two alike are one
  links,      \* email_links
  attempts,   \* request_attempts of the window
  calls,      \* calls between two statements
  asked       \* requests that add rows, so far

accountVars == <<users, roles, grants, relations>>
signVars == <<sessions, links, attempts, calls>>
vars == <<accountVars, signVars, asked>>

Asks == asked < RequestLimit /\ asked' = asked + 1

\* Adds a call or an attempt to others, under a number of its own.
Put(S, x) == S \cup {[x EXCEPT !.nth = Min({n \in 1 .. Cardinality(S) + 1 :
                                              \A y \in S : y.nth # n})]}
HasSlot == Cardinality(calls) < CallLimit

Session(u) == [user |-> u, left |-> SessionTicks]
Live == {s \in sessions : s.left > 0}

\* principalFromRequest, requireCap: a live session whose account has a role.
SignedIn(u) == \E s \in Live : s.user = u
ByOfficer == \E u \in Users : SignedIn(u) /\ MayManage(u)

-----------------------------------------------------------------------------
(* Password sign-in.                                                       *)

\* over: the account is locked, and the time is up.
SignInCall(u, right) ==
  [kind |-> "signin", nth |-> 1, user |-> u, read |-> users[u].failed,
   over |-> users[u].locked /\ users[u].wait = 0, right |-> right]

\* Slip: a locked account is only told so once its password was compared.
SignInReadsLocked(u, right) ==
  /\ HasSlot /\ users[u].password
  /\ calls' = Put(calls, SignInCall(u, right))
  /\ UNCHANGED <<accountVars, sessions, links, attempts, asked>>

\* The account as it is in one statement.  (One without a password was never
\* locked.)
SignInReads(u, right) ==
  /\ HasSlot /\ users[u].password
  /\ users[u].locked => users[u].wait = 0
  /\ calls' = Put(calls, SignInCall(u, right))
  /\ UNCHANGED <<accountVars, sessions, links, attempts, asked>>

\* failed_login_count = 0, locked_until = NULL, whatever they are by now.
Unlocked(u) == [users EXCEPT ![u].failed = 0, ![u].locked = FALSE, ![u].wait = 0]

\* A lock that is over is taken off, and an error of that is ignored; the count
\* that was read is kept.
LockRunsOut(call) ==
  /\ call.kind = "signin" /\ call.over
  /\ users' \in {users, Unlocked(call.user)}
  /\ calls' = Put(calls \ {call}, [call EXCEPT !.over = FALSE])
  /\ UNCHANGED <<roles, grants, relations, sessions, links, attempts, asked>>

\* recordFailedLogin: what was read plus one is written; beyond the maximum
\* a count is as good as the maximum.
SignInFails(call) ==
  LET count == Min({call.read + 1, MaxFailedAttempts})
      locks == count = MaxFailedAttempts
  IN /\ call.kind = "signin" /\ ~call.over /\ ~call.right
     /\ calls' = calls \ {call}
     /\ users' = [users EXCEPT ![call.user].failed = count,
                    ![call.user].locked = @ \/ locks,
                    ![call.user].wait = IF locks THEN LockTicks ELSE @]
     /\ UNCHANGED <<roles, grants, relations, sessions, links, attempts, asked>>

\* The counter is reset, and only then is the session made.  (The code ignores
\* an error of the reset and makes the session all the same; what this leaves
\* out is a session beside a count that stays.)
Welcomes(call, u) ==
  /\ users' = Unlocked(u)
  /\ calls' = Put(calls \ {call}, [kind |-> "open", nth |-> 1, user |-> u])

SignInSucceeds(call) ==
  /\ call.kind = "signin" /\ ~call.over /\ call.right
  /\ Welcomes(call, call.user)
  /\ UNCHANGED <<roles, grants, relations, sessions, links, attempts, asked>>

CreateSession(call) ==
  /\ call.kind = "open"
  /\ calls' = calls \ {call}
  /\ sessions' = sessions \cup {Session(call.user)}
  /\ UNCHANGED <<accountVars, links, attempts, asked>>

\* The form of the web pages, and the same call over the API.
LoginSubmit(u, right) == SignInReads(u, right)

SignOut(s) ==
  /\ sessions' = sessions \ {s}
  /\ UNCHANGED <<accountVars, links, attempts, calls, asked>>

-----------------------------------------------------------------------------
(* Asking for a recovery mail.  The limiter counts, records, and only then *)
(* is the address looked up.                                               *)

FromSource(source) == {a \in attempts : a.source = source}
OnTarget(typed) == {a \in attempts : a.target = Mailbox[typed]}

\* Slip: the last attempt of a window is one too many.
LimitedTooLate(source, typed, answered) ==
  \/ /\ "source" \in answered /\ source # Unknown
     /\ Cardinality(FromSource(source)) > MaxPerSource
  \/ "target" \in answered /\ Cardinality(OnTarget(typed)) > MaxPerTarget

\* A source that is not known is no bucket, nor is one that cannot be counted:
\* an error of the database allows.
Limited(source, typed, answered) ==
  \/ /\ "source" \in answered /\ source # Unknown
     /\ Cardinality(FromSource(source)) >= MaxPerSource
  \/ "target" \in answered /\ Cardinality(OnTarget(typed)) >= MaxPerTarget

\* What is allowed because the mailbox's attempts could not be counted is told
\* apart from what a count allowed; the code calls both allowed.
Verdict(source, typed, answered) ==
  IF Limited(source, typed, answered) THEN "limited"
  ELSE IF "target" \in answered THEN "allowed" ELSE "unchecked"

\* left: how long the attempt, stamped before it was counted, is in the window.
AskCall(source, typed, verdict) ==
  [kind |-> "ask", nth |-> 1, source |-> source, typed |-> typed,
   verdict |-> verdict, recorded |-> FALSE, left |-> Window]

AllowCounts(source, typed) ==
  /\ HasSlot /\ Asks
  /\ \E answered \in SUBSET {"source", "target"} :
       calls' = Put(calls, AskCall(source, typed, Verdict(source, typed, answered)))
  /\ UNCHANGED <<accountVars, sessions, links, attempts>>

Attempt(call) ==
  [nth |-> 1, source |-> call.source, target |-> Mailbox[call.typed],
   verdict |-> call.verdict, left |-> call.left]

\* Refused attempts count as well.  One whose stamp has left the window counts
\* no more, nor does one that could not be stored, which is ignored.
AllowRecords(call) ==
  /\ call.kind = "ask" /\ ~call.recorded
  /\ \/ call.left > 0 /\ attempts' = Put(attempts, Attempt(call))
     \/ attempts' = attempts
  /\ calls' = Put(calls \ {call}, [call EXCEPT !.recorded = TRUE, !.left = 0])
  /\ UNCHANGED <<accountVars, sessions, links, asked>>

Link(purpose, address, role) ==
  [purpose |-> purpose, address |-> address, role |-> role, left |-> LinkTicks,
   consumed |-> FALSE]

RequestRecovery(call) ==
  /\ call.kind = "ask" /\ call.recorded
  /\ calls' = calls \ {call}
  /\ links' = IF call.verdict # "limited" /\ call.typed \in Users /\ Len(links) < LinkLimit
              THEN Append(links, Link("password_recovery", call.typed, NoRole))
              ELSE links
  /\ UNCHANGED <<accountVars, sessions, attempts, asked>>

ForgotPasswordSubmit(source, typed) == AllowCounts(source, typed)

\* An officer asks for a member; it counts against the officer's address.
MemberAccessRecovery(source, typed) == ByOfficer /\ AllowCounts(source, typed)

-----------------------------------------------------------------------------
(* Following a link.                                                       *)

\* By an officer over the API, or by portalctl on the server.
CreateInvitation(address, role) ==
  /\ Asks /\ Len(links) < LinkLimit
  /\ links' = Append(links, Link("invitation", address, role))
  /\ UNCHANGED <<accountVars, sessions, attempts, calls>>

ConsumeCall(l, page) ==
  [kind |-> "follow", nth |-> 1, link |-> l, page |-> page, stage |-> "read"]

ConsumeReads(l, page) ==
  /\ HasSlot /\ ~links[l].consumed /\ links[l].left > 0
  /\ calls' = Put(calls, ConsumeCall(l, page))
  /\ UNCHANGED <<accountVars, sessions, links, attempts, asked>>

\* The mark compares nothing; a link of the other purpose is marked as well.
ConsumeMarks(call) ==
  /\ call.kind = "follow" /\ call.stage = "read"
  /\ links' = [links EXCEPT ![call.link].consumed = TRUE]
  /\ calls' = IF links[call.link].purpose = call.page
              THEN Put(calls \ {call}, [call EXCEPT !.stage = "marked"]) ELSE calls \ {call}
  /\ UNCHANGED <<accountVars, sessions, attempts, asked>>

\* The two pages; a password that is too short is refused before this.
ResetPasswordSubmit(l) == ConsumeReads(l, "password_recovery")
InvitationSubmit(l) == ConsumeReads(l, "invitation")

Follows(call, page) == call.kind = "follow" /\ call.stage = "marked" /\ call.page = page
Done(call) == calls' = Put(calls \ {call}, [call EXCEPT !.stage = "done"])

SetPassword(call) ==
  /\ Follows(call, "password_recovery") /\ Done(call)
  /\ users' = [users EXCEPT ![links[call.link].address].password = TRUE]
  /\ UNCHANGED <<roles, grants, relations, sessions, links, attempts, asked>>

\* Slip: the account is created, and the role is left to somebody else.
CreateUserOnly(call) ==
  LET e == links[call.link].address
      role == links[call.link].role IN
  /\ Follows(call, "invitation") /\ e \notin Users /\ Done(call)
  /\ users' = CreateUser(e, Account(TRUE, role))
  /\ UNCHANGED <<roles, grants, relations, sessions, links, attempts, asked>>

\* One transaction; an address that has an account is refused.
CreateUserFromInvitation(call) ==
  LET e == links[call.link].address
      role == links[call.link].role IN
  /\ Follows(call, "invitation") /\ e \notin Users /\ Done(call)
  /\ users' = CreateUser(e, Account(TRUE, role))
  /\ roles' = IF role = NoRole THEN roles ELSE Append(roles, RoleGrant(e, role))
  /\ UNCHANGED <<grants, relations, sessions, links, attempts, asked>>

LoginByUserID(call) ==
  /\ call.kind = "follow" /\ call.stage = "done"
  /\ Welcomes(call, links[call.link].address)
  /\ UNCHANGED <<roles, grants, relations, sessions, links, attempts, asked>>

\* A statement fails, the account exists already, or the process stops.
CallStops(call) ==
  /\ calls' = calls \ {call}
  /\ UNCHANGED <<accountVars, sessions, links, attempts, asked>>

-----------------------------------------------------------------------------

Less(n) == IF n = 0 THEN 0 ELSE n - 1

Later(call) == IF call.kind = "ask" THEN [call EXCEPT !.left = Less(@)] ELSE call

Tick ==
  /\ users' = [u \in Users |-> [users[u] EXCEPT !.wait = Less(@)]]
  /\ sessions' = {[user |-> s.user, left |-> s.left - 1] : s \in {t \in sessions : t.left > 1}}
  /\ links' = [l \in DOMAIN links |-> [links[l] EXCEPT !.left = Less(@)]]
  /\ attempts' = {[a EXCEPT !.left = @ - 1] : a \in {b \in attempts : b.left > 1}}
  /\ calls' = {Later(call) : call \in calls}
  /\ UNCHANGED <<roles, grants, relations, asked>>

\* A new installation, or one whose first officer has been made.
Init ==
  /\ \/ users = <<>> /\ roles = <<>>
     \/ \E a \in Addresses : /\ a = Mailbox[a] /\ users = [u \in {a} |-> Account(TRUE, Officer)]
                            /\ roles = <<RoleGrant(a, Officer)>>
  /\ grants = <<>> /\ relations = <<>>
  /\ sessions = {} /\ links = <<>> /\ attempts = {} /\ calls = {}
  /\ asked = 0

SignInStep ==
  \/ \E u \in Users, right \in BOOLEAN : LoginSubmit(u, right)
  \/ \E call \in calls :
       LockRunsOut(call) \/ SignInFails(call) \/ SignInSucceeds(call) \/ CreateSession(call)
  \/ \E s \in Live : SignOut(s)

RecoveryStep ==
  \/ \E source \in Sources, typed \in Addresses :
       ForgotPasswordSubmit(source, typed) \/ MemberAccessRecovery(source, typed)
  \/ \E call \in calls : AllowRecords(call) \/ RequestRecovery(call)

LinkStep ==
  \/ \E a \in Addresses, role \in Roles \cup {NoRole} : CreateInvitation(a, role)
  \/ \E l \in DOMAIN links : ResetPasswordSubmit(l) \/ InvitationSubmit(l)
  \/ \E call \in calls :
       \/ ConsumeMarks(call) \/ SetPassword(call) \/ CreateUserFromInvitation(call)
       \/ LoginByUserID(call) \/ CallStops(call)

OfficeStep ==
  /\ ByOfficer /\ Asks
  /\ PageStep \/ ApiStep \/ RoleStep \/ (RelationshipStep /\ UNCHANGED <<users, roles, grants>>)
  /\ UNCHANGED signVars

Next == SignInStep \/ RecoveryStep \/ LinkStep \/ OfficeStep \/ Tick

\* Time goes on.
Spec == Init /\ [][Next]_vars /\ WF_vars(Tick)

-----------------------------------------------------------------------------
(* Properties.                                                             *)

\* A locked account comes free again, whatever its owner tries meanwhile and
\* whichever sign-ins were under way when it was locked.
NoLockIsForever ==
  \A a \in Addresses : []<>(a \in Users => users[a].wait = 0)

\* An account made by an invitation has the role it was invited to, from the
\* moment it exists, whatever stops on the way to its first session; only an
\* officer takes it away.
InvitedRoleIsHeld ==
  \A u \in Users : users[u].invited # NoRole =>
    \E r \in DOMAIN roles : roles[r].user = u /\ roles[r].role = users[u].invited

\* A count allows no more recovery mails to one mailbox in a window than the
\* rule says, but for the calls that counted before the others recorded.
RecoveryMailsAreBounded ==
  \A a \in Addresses :
    Cardinality({t \in OnTarget(a) : t.verdict = "allowed"}) <= MaxPerTarget + CallLimit - 1

RelationsAreHistory == [][HouseholdsAreHistory]_relations

\* SignIn: "Lockout expired - reset counter."  Whoever is locked out has failed
\* as often as the maximum says since the counter was reset.
LockNeedsFailures ==
  [][\A u \in Users :
       (~users[u].locked /\ users'[u].locked) => users[u].failed = MaxFailedAttempts - 1]_users

=============================================================================
