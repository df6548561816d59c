--------------------------- MODULE ChangeRequests ---------------------------
(***************************************************************************)
(* Reviewed corrections: a member or an officer proposes typed changes to  *)
(* a record, officers decide them one at a time, and an approval writes    *)
(* the record in the transaction that records the decision.                *)
(*                                                                         *)
(* Code: internal/domain/changerequests and migrations 0009, 0013, 0016,   *)
(* 0017.  Officers go on editing the records directly meanwhile (Records). *)
(*                                                                         *)
(* Every method is one transaction, so one action; a refused call rolls    *)
(* back and is a stutter, as is a replay of a decision or of an            *)
(* idempotency key.  The pages that apply or decline a whole request call  *)
(* DecideItem once per item, each in its own transaction, so the actions   *)
(* of other officers fall between the items.                               *)
(***************************************************************************)
EXTENDS Records

CONSTANTS
  Users, NoUser,   \* accounts, and NULL
  Intakes,         \* lists of proposals that validateCreate accepts
  Keys             \* idempotency keys

CONSTANT RequestLimit, RequestVersionLimit   \* bounds

PersonOps == {"person.display_name.set", "person.call_sign.set"}
ContactOps == {"contact_method.update", "contact_method.archive",
               "contact_method.set_primary", "contact_method.visibility.set"}
RewritingOps == PersonOps \cup (ContactOps \ {"contact_method.visibility.set"})
UnappliedOps == {"relationship.add", "relationship.correct", "other"}
Operations == PersonOps \cup ContactOps \cup UnappliedOps \cup
              {"contact_method.add", "sharing_pref.acs_ares.set"}

\* target is 0 when the item names no record; declared is the submitter's own
\* opinion that the change is sensitive; kind and text are the proposed value.
Proposal == [op : Operations, target : Nat, declared : BOOLEAN,
             kind : Kinds, text : Texts]

Verdicts == {"approved", "rejected", "needs_verification"}

\* seen is the version of the target the submitter saw, 0 when none; written is
\* the value that reached the record; made is the id of what the write produced.
Item == [proposal : Proposal, seen : Nat, status : Verdicts \cup {"pending"},
         reviewer : Users \cup {NoUser}, applied : BOOLEAN,
         made : Nat, written : Maybe, version : Nat]

\* The two flags stand for resolved_at and withdrawn_at.
Request == [requester : Users \cup {NoUser}, person : People \cup {0},
            status : {"submitted", "in_review", "resolved", "withdrawn"},
            resolvedAt : BOOLEAN, withdrawnAt : BOOLEAN, version : Nat]

ASSUME NoUserIsNoUser == NoUser \notin Users
ASSUME IntakesAreProposals == Intakes \subseteq Seq(Proposal) \ {<<>>}
ASSUME RequestLimits == RequestLimit \in Nat /\ RequestVersionLimit \in Nat

VARIABLES
  requests,   \* member_change_requests, by id
  items,      \* items[r]: its member_change_request_items, by ordinal
  claims      \* idempotency_records of change-request-create

requestVars == <<requests, items, claims>>
vars == <<persons, contacts, visibility, sharing, pending, requests, items,
          claims>>

TypeOK ==
  /\ RecordsTypeOK
  /\ requests \in Seq(Request)
  /\ items \in Seq(Seq(Item))
  /\ Len(items) = Len(requests)
  /\ claims \subseteq [actor : Users, key : Keys, request : Nat]

Init ==
  /\ RecordsInit
  /\ requests = <<>>
  /\ items = <<>>
  /\ claims = {}

-----------------------------------------------------------------------------
(* The policy table.                                                       *)

CanApply(op) == op \notin UnappliedOps

Sensitive(proposal) ==
  \/ proposal.declared
  \/ proposal.op \in {"person.call_sign.set", "contact_method.visibility.set",
                      "sharing_pref.acs_ares.set"}

-----------------------------------------------------------------------------
(* Intake, triage, closing.                                                *)

RequestIds == DOMAIN requests
ItemIds(r) == DOMAIN items[r]

\* Slip: only a withdrawn request is refused.
ClosedWhenWithdrawn(r) == requests[r].status = "withdrawn"

Closed(r) == requests[r].status \in {"resolved", "withdrawn"}

Pending(its) == {i \in DOMAIN its : its[i].status = "pending"}

RoomFor(r) == requests[r].version < RequestVersionLimit

Unclaimed(u, key) == \A c \in claims : c.actor # u \/ c.key # key

\* What the target id of an operation counts: contacts, or else persons.
TargetVersion(proposal) ==
  CASE proposal.op \in ContactOps /\ proposal.target \in ContactIds ->
         contacts[proposal.target].version
    [] proposal.op \notin ContactOps /\ proposal.target \in People ->
         persons[proposal.target].version
    [] OTHER -> 0

\* Slip: the item takes the request's first status.
FiledAsSubmitted(proposal, seen) ==
  [proposal |-> proposal, seen |-> seen, status |-> "submitted",
   reviewer |-> NoUser, applied |-> FALSE, made |-> 0,
   written |-> NoText, version |-> 1]

Filed(proposal, seen) ==
  [proposal |-> proposal, seen |-> seen, status |-> "pending",
   reviewer |-> NoUser, applied |-> FALSE, made |-> 0,
   written |-> NoText, version |-> 1]

\* A member files as requester; the officers' intake names no requester.
Create(u, key, requester, person, intake, seen) ==
  /\ Unclaimed(u, key)
  /\ Len(requests) < RequestLimit
  /\ requests' = Append(requests,
       [requester |-> requester, person |-> person, status |-> "submitted",
        resolvedAt |-> FALSE, withdrawnAt |-> FALSE, version |-> 1])
  /\ items' = Append(items,
       [i \in DOMAIN intake |-> Filed(intake[i], seen[i])])
  /\ claims' = claims \cup
       {[actor |-> u, key |-> key, request |-> Len(requests) + 1]}
  /\ UNCHANGED recordVars

\* The submitter read the target at some version up to now, or at none.
Seen(intake) ==
  {seen \in [DOMAIN intake -> 0..ContactVersionLimit + PersonVersionLimit] :
     \A i \in DOMAIN intake : seen[i] <= TargetVersion(intake[i])}

Triage(r, person) ==
  /\ ~Closed(r)
  /\ RoomFor(r)
  /\ requests' = [requests EXCEPT ![r] =
       [requester |-> requests[r].requester, person |-> person,
        status |-> requests[r].status, resolvedAt |-> requests[r].resolvedAt,
        withdrawnAt |-> requests[r].withdrawnAt,
        version |-> requests[r].version + 1]]
  /\ UNCHANGED <<items, claims, recordVars>>

\* SetChangeRequestStatus: both times are written, whatever they were.
WithStatus(row, status) ==
  [requester |-> row.requester, person |-> row.person, status |-> status,
   resolvedAt |-> status = "resolved", withdrawnAt |-> status = "withdrawn",
   version |-> row.version + 1]

\* Slip: the first item speaks for all.
FirstItemHoldsNothing(r) ==
  \/ items[r][1].status # "pending"
  \/ ~CanApply(items[r][1].proposal.op)
  \/ items[r][1].proposal.target = 0

\* What is pending names no record or cannot be applied.
HoldsNothing(r) ==
  \A i \in Pending(items[r]) :
    \/ ~CanApply(items[r][i].proposal.op)
    \/ items[r][i].proposal.target = 0

\* An officer is done with the request.
Resolve(r) ==
  /\ ~Closed(r)
  /\ RoomFor(r)
  /\ HoldsNothing(r)
  /\ requests' = [requests EXCEPT ![r] = WithStatus(@, "resolved")]
  /\ UNCHANGED <<items, claims, recordVars>>

Withdraw(u, r) ==
  /\ requests[r].requester = u
  /\ ~Closed(r)
  /\ RoomFor(r)
  /\ \A i \in ItemIds(r) : items[r][i].status = "pending"
  /\ requests' = [requests EXCEPT ![r] = WithStatus(@, "withdrawn")]
  /\ UNCHANGED <<items, claims, recordVars>>

-----------------------------------------------------------------------------
(* Applying an approved item.  text is the proposed value, or the one the  *)
(* reviewer wrote in its place.                                            *)

\* Slip: the version is not compared.
AnyVersion(item, version) == TRUE

\* checkTargetVersion: an item that recorded no version opts out.
NotMoved(item, version) == item.seen = 0 \/ item.seen = version

\* UpdatePerson writes the licence columns from parameters the adapter leaves
\* empty.
ApplyPersonUpdate(item, text) ==
  LET p == item.proposal.target IN
  /\ p \in People
  /\ NotMoved(item, persons[p].version)
  /\ \/ /\ item.proposal.op = "person.display_name.set"
        /\ WritePerson(p, text, persons[p].sign, NoText)
     \/ /\ item.proposal.op = "person.call_sign.set"
        /\ WritePerson(p, persons[p].name, text, NoText)
  /\ UNCHANGED <<contacts, visibility, sharing>>

\* An add belongs to the person it names, else to the one the request concerns.
Beneficiary(r, item) ==
  IF item.proposal.target = 0 THEN requests[r].person ELSE item.proposal.target

ApplyContactCreate(r, item, text) ==
  /\ item.proposal.op = "contact_method.add"
  /\ Beneficiary(r, item) \in People
  /\ RoomForContact
  /\ contacts' = Append(contacts,
       NewContact(Beneficiary(r, item), item.proposal.kind, text, FALSE))
  /\ UNCHANGED <<persons, visibility, sharing>>

ApplyContactChange(item, text) ==
  LET c == item.proposal.target IN
  /\ c \in ContactIds
  /\ NotMoved(item, contacts[c].version)
  /\ RoomForVersions
  /\ \/ /\ item.proposal.op = "contact_method.update"
        /\ item.proposal.kind = contacts[c].kind
        /\ UpdateText(c, text)
     \/ /\ item.proposal.op = "contact_method.archive"
        /\ Archive(c)
     \/ /\ item.proposal.op = "contact_method.set_primary"
        /\ contacts' = SetPrimary(ClearPrimary(contacts, contacts[c].owner), c)
  /\ UNCHANGED <<persons, visibility, sharing>>

\* The two preferences are recorded without a version check.
ApplyPreference(item, text) ==
  \/ /\ item.proposal.op = "contact_method.visibility.set"
     /\ item.proposal.target \in ContactIds
     /\ RecordVisibility(item.proposal.target, text, "member_request")
     /\ UNCHANGED <<persons, contacts, sharing>>
  \/ /\ item.proposal.op = "sharing_pref.acs_ares.set"
     /\ item.proposal.target \in People
     /\ RecordSharing(item.proposal.target, text, "member_request")
     /\ UNCHANGED <<persons, contacts, visibility>>

Apply(r, item, text) ==
  \/ ApplyPersonUpdate(item, text)
  \/ ApplyContactCreate(r, item, text)
  \/ ApplyContactChange(item, text)
  \/ ApplyPreference(item, text)

\* appliedResourceID.
Made(item) ==
  CASE item.proposal.op = "contact_method.add" -> Len(contacts) + 1
    [] item.proposal.op = "contact_method.visibility.set" -> Len(visibility) + 1
    [] item.proposal.op = "sharing_pref.acs_ares.set" -> Len(sharing) + 1
    [] OTHER -> item.proposal.target

-----------------------------------------------------------------------------
(* Deciding an item.                                                       *)

\* Slip: only a request in review is resolved by its last decision.
FollowOnceInReview(row, its) ==
  IF row.status = "in_review" /\ Pending(its) = {} THEN WithStatus(row, "resolved")
  ELSE IF row.status = "submitted" THEN WithStatus(row, "in_review") ELSE row

\* The request follows its items: resolved with the last decision, in review
\* with the first.
FollowItems(row, its) ==
  IF Pending(its) = {} /\ row.status # "resolved"
  THEN WithStatus(row, "resolved")
  ELSE IF row.status = "submitted" THEN WithStatus(row, "in_review") ELSE row

Decided(item, verdict, u) ==
  [proposal |-> item.proposal, seen |-> item.seen, status |-> verdict,
   reviewer |-> u, applied |-> FALSE, made |-> 0, written |-> NoText,
   version |-> item.version + 1]

\* An operation that sets no value records the empty string.
Written(item, text) ==
  IF item.proposal.op \in {"contact_method.archive", "contact_method.set_primary"}
  THEN NoText ELSE text

\* MarkChangeRequestItemApplied: a second version for the decided row.
Stamped(item, u, text) ==
  [proposal |-> item.proposal, seen |-> item.seen, status |-> "approved",
   reviewer |-> u, applied |-> TRUE, made |-> Made(item),
   written |-> Written(item, text), version |-> item.version + 2]

Settle(r, i, item) ==
  /\ items' = [items EXCEPT ![r][i] = item]
  /\ requests' = [requests EXCEPT ![r] = FollowItems(@, items'[r])]
  /\ UNCHANGED <<claims, pending>>

\* Slip: an approved item may be approved again.
IsNotRefused(r, i) == items[r][i].status \in {"pending", "approved"}

IsPending(r, i) == items[r][i].status = "pending"

\* A rejection or a hold for verification.
Refuse(u, r, i, verdict) ==
  /\ IsPending(r, i)
  /\ RoomFor(r)
  /\ verdict # "approved"
  /\ Settle(r, i, Decided(items[r][i], verdict, u))
  /\ UNCHANGED records

ApprovalAllowed(u, r, item, noted) ==
  /\ CanApply(item.proposal.op)
  /\ Sensitive(item.proposal) => requests[r].requester # u /\ noted

Approve(u, r, i, noted, text) ==
  LET item == items[r][i] IN
  /\ IsPending(r, i)
  /\ RoomFor(r)
  /\ ApprovalAllowed(u, r, item, noted)
  /\ Apply(r, item, text)
  /\ Settle(r, i, Stamped(item, u, text))

-----------------------------------------------------------------------------

RequestNext ==
  \/ \E intake \in Intakes, u \in Users, key \in Keys, person \in People \cup {0} :
       \E requester \in {u, NoUser}, seen \in Seen(intake) :
         Create(u, key, requester, person, intake, seen)
  \/ \E r \in RequestIds, person \in People \cup {0} : Triage(r, person)
  \/ \E r \in RequestIds : Resolve(r)
  \/ \E u \in Users, r \in RequestIds : Withdraw(u, r)
  \/ \E u \in Users, r \in RequestIds : \E i \in ItemIds(r) :
       \/ \E verdict \in Verdicts : Refuse(u, r, i, verdict)
       \/ \E noted \in BOOLEAN, text \in Texts : Approve(u, r, i, noted, text)

Next ==
  \/ RequestNext
  \/ RecordsNext /\ UNCHANGED requestVars

Spec == Init /\ [][Next]_vars

-----------------------------------------------------------------------------
(* Properties.                                                             *)

\* "Review is once per item; changing your mind is a new request, not a silent
\* overwrite of the record": a decided item keeps its decision and what it wrote.
DecisionsAreFinal ==
  [][\A r \in RequestIds : \A i \in ItemIds(r) :
       items[r][i].status # "pending" => items'[r][i] = items[r][i]]_vars

\* The queue tells the truth: nothing is decided on a submitted request, work
\* has begun and remains on one in review, and a request whose items are all
\* decided has left the queue.
StatusTellsProgress ==
  \A r \in RequestIds :
    LET open == Pending(items[r]) IN
    /\ requests[r].status = "submitted" => open = ItemIds(r)
    /\ requests[r].status = "in_review" => open # {} /\ open # ItemIds(r)
    /\ open = {} => requests[r].status = "resolved"

Approvals(op) ==
  UNION {{<<r, i>> : i \in {j \in ItemIds(r) : /\ items[r][j].status = "approved"
                                             /\ items[r][j].proposal.op = op}} :
           r \in RequestIds}

EventsOf(history) == {e \in DOMAIN history : history[e].source = "member_request"}

\* "An approval either applies completely or changes nothing": the preference
\* events a review wrote and the approved preference items are one to one, each
\* item naming the event it made, with the value it records as written.
AppliedExactlyOnce ==
  /\ \A r \in RequestIds : \A i \in ItemIds(r) :
       items[r][i].applied = (items[r][i].status = "approved")
  /\ \A op \in {"contact_method.visibility.set", "sharing_pref.acs_ares.set"} :
       LET history == IF op = "sharing_pref.acs_ares.set" THEN sharing ELSE visibility
           made(a) == items[a[1]][a[2]].made IN
       /\ {made(a) : a \in Approvals(op)} = EventsOf(history)
       /\ Cardinality(Approvals(op)) = Cardinality(EventsOf(history))
       /\ \A a \in Approvals(op) :
            LET item == items[a[1]][a[2]] IN
            history[made(a)].text = item.written
              /\ history[made(a)].of = item.proposal.target

\* A request an officer closed holds back no change that names a record: each
\* of those was decided first.
NothingNamedIsLost ==
  \A r \in RequestIds : requests[r].status = "resolved" =>
    \A i \in Pending(items[r]) :
      \/ ~CanApply(items[r][i].proposal.op)
      \/ items[r][i].proposal.target = 0

\* A resolved request stays resolved, and keeps its time of resolution.
ResolvedIsFinal ==
  [][\A r \in RequestIds : requests[r].status = "resolved" =>
       requests'[r] = requests[r]]_vars

\* "An item recording the version its submitter saw is refused if the resource
\* moved since": a person or a contact is rewritten only at that version,
\* whoever edited it meanwhile.  The two preferences are not checked by review.
MovedTargetIsRefused ==
  [][\A r \in RequestIds : \A i \in ItemIds(r) :
       LET item == items[r][i] IN
       /\ ~item.applied
       /\ items'[r][i].applied
       /\ item.seen # 0
       /\ item.proposal.op \in RewritingOps
       => item.seen = TargetVersion(item.proposal)]_vars

=============================================================================
