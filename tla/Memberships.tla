---------------------------- MODULE Memberships ----------------------------
(***************************************************************************)
(* What officers decide about a membership, and what is kept of it: the    *)
(* application and its approval, the end of a membership, licence checks,  *)
(* honorary grants, notes with their revisions, the queue of applications  *)
(* and the timeline of a member.                                           *)
(*                                                                         *)
(* Code: internal/domain/members, its statements in internal/db/sqlc, the  *)
(* pages of internal/web and the operations of internal/httpapi over them. *)
(*                                                                         *)
(* These operations run without a transaction: a call that takes several   *)
(* statements is held in "creating", "deciding", "merging" or "editing"    *)
(* between two of them, and may stop there.  Every call has a number,      *)
(* which stands for its time and makes the text it writes its own.         *)
(***************************************************************************)
EXTENDS Integers, FiniteSets, Sequences, SequencesExt, Ranking

CONSTANTS
  BaseTypes,          \* "full", "associate"
  DayLimit,           \* bounds: days that pass,
  MembershipLimit,    \* memberships,
  RowLimit,           \* rows of any other kind,
  EditLimit,          \* calls made,
  PageSize,           \* rows of a page of the queue (50 in the code)
  TimelineSize        \* events of a timeline (20 in the code)

ASSUME PagesHoldRows == PageSize \in Nat \ {0} /\ TimelineSize \in Nat \ {0}

VARIABLES
  persons,       \* the audit events of each person, by time
  memberships, approvals,
  fcc,           \* fcc_verifications
  honors,        \* honorary_grants; "asked" is a history: the end last asked for
  notes, revisions,
  texts,         \* history: every text a note has had
  creating, deciding, merging, editing,    \* calls between two statements
  day, edits

rowVars == <<persons, memberships, approvals, fcc, honors, notes, revisions, texts>>
callVars == <<creating, deciding, merging, editing>>
vars == <<rowVars, callVars, day, edits>>

Never == 0      \* a day that is not set
Persons == DOMAIN persons
Ends == {"inactive", "resigned", "deceased"}

\* One more call; "now" is its number.
now == edits + 1
Begin == edits < EditLimit /\ edits' = now

Fits(rows) == Len(rows) < RowLimit

-----------------------------------------------------------------------------
(* Rows, and the statements that write them.                               *)

Membership(person, base, at) ==
  [person |-> person, base |-> base, life |-> "pending", ended |-> Never,
   version |-> 1, at |-> at]

Honor(m, until) ==
  [membership |-> m, until |-> until, asked |-> until, lifetime |-> until = Never,
   revoked |-> FALSE, version |-> 1]

Note(person) == [person |-> person, body |-> now, version |-> 1, at |-> now]

\* Slip: the version a statement was given is not compared.
IsCurrentAnyVersion(row, version) == TRUE

\* WHERE id = ? AND version = ?
IsCurrent(row, version) == row.version = version

\* A page an officer may still have open shows the row as of any version.
Seen(row) == 1 .. row.version

Approved(m, base) == [m EXCEPT !.life = "approved", !.base = base, !.version = @ + 1]
Rejected(m) == [m EXCEPT !.life = "rejected", !.version = @ + 1]
Ended(m, life) == [m EXCEPT !.life = life, !.ended = day, !.version = @ + 1]

Rewritten(h, until, asked) ==
  [h EXCEPT !.until = until, !.asked = asked,
            !.lifetime = until = Never /\ @, !.version = @ + 1]
Expired(h) ==
  [h EXCEPT !.until = day, !.asked = day, !.lifetime = FALSE, !.version = @ + 1]
Revoked(h) == [h EXCEPT !.revoked = TRUE, !.version = @ + 1]

Reworded(n, body) == [n EXCEPT !.body = body, !.version = @ + 1]

-----------------------------------------------------------------------------
(* Persons and applications.                                               *)

HasRoom == Len(memberships) + Cardinality(creating) < MembershipLimit

CreatePerson(base) ==
  /\ HasRoom /\ Fits(persons) /\ Begin
  /\ persons' = Append(persons, <<now>>)
  /\ creating' = creating \cup {[person |-> Len(persons) + 1, base |-> base]}
  /\ UNCHANGED <<memberships, approvals, fcc, honors, notes, revisions, texts,
                 deciding, merging, editing, day>>

\* The form may leave the type out: such a person has no membership yet.
CreatePersonOnly ==
  /\ Fits(persons) /\ Begin
  /\ persons' = Append(persons, <<now>>)
  /\ UNCHANGED <<memberships, approvals, fcc, honors, notes, revisions, texts,
                 callVars, day>>

CreatePersonApplies(call) ==
  /\ creating' = creating \ {call}
  /\ memberships' = Append(memberships, Membership(call.person, call.base, edits))
  /\ UNCHANGED <<persons, approvals, fcc, honors, notes, revisions, texts,
                 deciding, merging, editing, day, edits>>

CreatePersonStops(call) ==
  /\ creating' = creating \ {call}
  /\ UNCHANGED <<rowVars, deciding, merging, editing, day, edits>>

MembershipApply(person, base) ==
  /\ HasRoom /\ Begin
  /\ memberships' = Append(memberships, Membership(person, base, now))
  /\ UNCHANGED <<persons, approvals, fcc, honors, notes, revisions, texts,
                 callVars, day>>

\* An update, a deactivation or a reactivation leaves an audit event.
PersonChanges(person) ==
  /\ Begin
  /\ persons' = [persons EXCEPT ![person] = Append(@, now)]
  /\ UNCHANGED <<memberships, approvals, fcc, honors, notes, revisions, texts,
                 callVars, day>>

-----------------------------------------------------------------------------
(* Decisions.  The lifecycle is written first and its record second; only  *)
(* the version is compared, never the lifecycle.                           *)

Decides(m, version, decision, row) ==
  /\ Begin /\ IsCurrent(memberships[m], version)
  /\ memberships' = [memberships EXCEPT ![m] = row]
  /\ deciding' = deciding \cup
       {[membership |-> m, decision |-> decision, version |-> version]}
  /\ UNCHANGED <<persons, approvals, fcc, honors, notes, revisions, texts,
                 creating, merging, editing, day>>

ApproveMembership(m, version, base) ==
  Decides(m, version, "approved", Approved(memberships[m], base))

RejectMembership(m, version) ==
  Decides(m, version, "rejected", Rejected(memberships[m]))

CreateMembershipApproval(call) ==
  /\ deciding' = deciding \ {call}
  /\ approvals' = Append(approvals, call)
  /\ UNCHANGED <<persons, memberships, fcc, honors, notes, revisions, texts,
                 creating, merging, editing, day, edits>>

\* A failed insert or a stopped process leaves the lifecycle as written.
DecisionStops(call) ==
  /\ deciding' = deciding \ {call}
  /\ UNCHANGED <<rowVars, creating, merging, editing, day, edits>>

TransitionLifecycle(m, version, life) ==
  /\ Begin /\ IsCurrent(memberships[m], version)
  /\ memberships' = [memberships EXCEPT ![m] = Ended(@, life)]
  /\ UNCHANGED <<persons, approvals, fcc, honors, notes, revisions, texts,
                 callVars, day>>

-----------------------------------------------------------------------------
(* Licence checks and honorary grants.                                     *)

VerifyFCC(m) ==
  /\ Fits(fcc) /\ Begin
  /\ fcc' = Append(fcc, [membership |-> m, revoked |-> Never])
  /\ UNCHANGED <<persons, memberships, approvals, honors, notes, revisions, texts,
                 callVars, day>>

\* No version, and no look at what is there: a second revocation restamps.
RevokeFCCVerification(v) ==
  /\ Begin
  /\ fcc' = [fcc EXCEPT ![v].revoked = now]
  /\ UNCHANGED <<persons, memberships, approvals, honors, notes, revisions, texts,
                 callVars, day>>

CreateHonoraryGrant(m, until) ==
  /\ Fits(honors) /\ Begin
  /\ honors' = Append(honors, Honor(m, until))
  /\ UNCHANGED <<persons, memberships, approvals, fcc, notes, revisions, texts,
                 callVars, day>>

\* An edit reads the grant and keeps what the request leaves out.
UpdateHonoraryReads(g, version, until) ==
  /\ Begin
  /\ merging' = merging \cup
       {[grant |-> g, version |-> version, named |-> until,
         until |-> IF until = Never THEN honors[g].until ELSE until]}
  /\ UNCHANGED <<rowVars, creating, deciding, editing, day>>

UpdateHonoraryWrites(call) ==
  /\ IsCurrent(honors[call.grant], call.version)
  /\ merging' = merging \ {call}
  /\ honors' = [honors EXCEPT ![call.grant] =
       Rewritten(@, call.until, IF call.named = Never THEN @.asked ELSE call.named)]
  /\ UNCHANGED <<persons, memberships, approvals, fcc, notes, revisions, texts,
                 creating, deciding, editing, day, edits>>

UpdateHonoraryStops(call) ==
  /\ merging' = merging \ {call}
  /\ UNCHANGED <<rowVars, creating, deciding, editing, day, edits>>

EndHonor(g, version, row) ==
  /\ Begin /\ IsCurrent(honors[g], version)
  /\ honors' = [honors EXCEPT ![g] = row]
  /\ UNCHANGED <<persons, memberships, approvals, fcc, notes, revisions, texts,
                 callVars, day>>

ExpireHonoraryGrant(g, version) == EndHonor(g, version, Expired(honors[g]))
RevokeHonoraryGrant(g, version) == EndHonor(g, version, Revoked(honors[g]))

-----------------------------------------------------------------------------
(* Notes.  An edit reads the note, keeps the text it read as a revision,   *)
(* and only then compares the version.                                     *)

CreateNote(person) ==
  /\ Fits(notes) /\ Begin
  /\ notes' = Append(notes, Note(person))
  /\ texts' = texts \cup {[note |-> Len(notes) + 1, body |-> now]}
  /\ UNCHANGED <<persons, memberships, approvals, fcc, honors, revisions, callVars, day>>

UpdateNoteReads(n, version) ==
  /\ Begin
  /\ editing' = editing \cup
       {[note |-> n, version |-> version, old |-> notes[n].body, new |-> now,
         kept |-> FALSE]}
  /\ UNCHANGED <<rowVars, creating, deciding, merging, day>>

CreateNoteRevision(call) ==
  /\ ~call.kept
  /\ editing' = (editing \ {call}) \cup {[call EXCEPT !.kept = TRUE]}
  /\ revisions' = Append(revisions, [note |-> call.note, body |-> call.old])
  /\ UNCHANGED <<persons, memberships, approvals, fcc, honors, notes, texts,
                 creating, deciding, merging, day, edits>>

UpdateNoteWrites(call) ==
  /\ call.kept /\ IsCurrent(notes[call.note], call.version)
  /\ editing' = editing \ {call}
  /\ notes' = [notes EXCEPT ![call.note] = Reworded(@, call.new)]
  /\ texts' = texts \cup {[note |-> call.note, body |-> call.new]}
  /\ UNCHANGED <<persons, memberships, approvals, fcc, honors, revisions,
                 creating, deciding, merging, day, edits>>

\* Refused as stale, failed or stopped.
UpdateNoteStops(call) ==
  /\ editing' = editing \ {call}
  /\ UNCHANGED <<rowVars, creating, deciding, merging, day, edits>>

-----------------------------------------------------------------------------
(* The queue of applications, and the timeline of a member.                *)

Pending == {m \in DOMAIN memberships : memberships[m].life = "pending"
                                         /\ memberships[m].ended = Never}
CountPendingMemberships == Cardinality(Pending)

ListPendingMemberships(limit, offset) ==
  SubSeq(Ascending(Pending), offset + 1,
         Min({offset + limit, CountPendingMemberships}))

\* Slip: no row more than the page shows is asked for.
PageWithoutLookahead(offset) ==
  LET rows == ListPendingMemberships(PageSize, offset)
  IN [rows |-> rows, more |-> Len(rows) > PageSize, next |-> offset + PageSize]

\* One row more than is shown tells whether there is another page.
PendingPage(offset) ==
  LET rows == ListPendingMemberships(PageSize + 1, offset)
  IN [rows |-> SubSeq(rows, 1, Min({Len(rows), PageSize})),
      more |-> Len(rows) > PageSize, next |-> offset + PageSize]

\* Slip: sorted the other way round.
NewestAscending(events, n) ==
  {e \in events : Cardinality({f \in events : f.at < e.at}) < n}

\* The n newest of a set of events, ordered by their time.
Newest(events, n) ==
  {e \in events : Cardinality({f \in events : f.at > e.at}) < n}

Event(kind, id, at) == [kind |-> kind, id |-> id, at |-> at]

AuditEvents(p) == {Event("audit", i, persons[p][i]) : i \in DOMAIN persons[p]}
ListNotes(p) ==
  {Event("note", n, notes[n].at) : n \in {k \in DOMAIN notes : notes[k].person = p}}
ListMembershipsByPerson(p) ==
  {Event("membership", m, memberships[m].at) :
     m \in {k \in DOMAIN memberships : memberships[k].person = p}}

\* Three queries.  One that fails counts as one that found nothing.
Queries == {"audit", "note", "membership"}
Answer(query, answered, events) == IF query \in answered THEN events ELSE {}

\* Two of the lists are cut before they are merged, and the merged one again.
Timeline(p, n, answered) ==
  Newest(Newest(Answer("audit", answered, AuditEvents(p)), n)
           \cup Newest(Answer("note", answered, ListNotes(p)), n)
           \cup Answer("membership", answered, ListMembershipsByPerson(p)), n)

-----------------------------------------------------------------------------

Tick == day < DayLimit /\ day' = day + 1 /\ UNCHANGED <<rowVars, callVars, edits>>

Init ==
  /\ persons = <<>> /\ memberships = <<>> /\ approvals = <<>> /\ fcc = <<>>
  /\ honors = <<>> /\ notes = <<>> /\ revisions = <<>> /\ texts = {}
  /\ creating = {} /\ deciding = {} /\ merging = {} /\ editing = {}
  /\ day = 1 /\ edits = 0

PersonStep ==
  \/ \E base \in BaseTypes : CreatePerson(base)
  \/ CreatePersonOnly
  \/ \E call \in creating : CreatePersonApplies(call) \/ CreatePersonStops(call)
  \/ \E p \in Persons : PersonChanges(p)

\* What the API offers over a membership.
MembershipStep ==
  \/ \E p \in Persons, base \in BaseTypes : MembershipApply(p, base)
  \/ \E m \in DOMAIN memberships, life \in Ends :
       \E version \in Seen(memberships[m]) : TransitionLifecycle(m, version, life)

DecisionStep ==
  \/ \E m \in DOMAIN memberships : \E version \in Seen(memberships[m]) :
       \/ \E base \in BaseTypes : ApproveMembership(m, version, base)
       \/ RejectMembership(m, version)
  \/ \E call \in deciding : CreateMembershipApproval(call) \/ DecisionStops(call)

FccStep ==
  \/ \E m \in DOMAIN memberships : VerifyFCC(m)
  \/ \E v \in DOMAIN fcc : RevokeFCCVerification(v)

HonoraryStep ==
  \/ \E m \in DOMAIN memberships, until \in {Never, DayLimit} : CreateHonoraryGrant(m, until)
  \/ \E g \in DOMAIN honors : \E version \in Seen(honors[g]) :
       \/ \E until \in {Never, DayLimit} : UpdateHonoraryReads(g, version, until)
       \/ ExpireHonoraryGrant(g, version)
       \/ RevokeHonoraryGrant(g, version)
  \/ \E call \in merging : UpdateHonoraryWrites(call) \/ UpdateHonoraryStops(call)

NoteStep ==
  \/ \E p \in Persons : CreateNote(p)
  \/ \E n \in DOMAIN notes : \E version \in Seen(notes[n]) : UpdateNoteReads(n, version)
  \/ \E call \in editing :
       CreateNoteRevision(call) \/ UpdateNoteWrites(call) \/ UpdateNoteStops(call)

Next ==
  PersonStep \/ MembershipStep \/ DecisionStep \/ FccStep \/ HonoraryStep \/ NoteStep \/ Tick

Spec == Init /\ [][Next]_vars

-----------------------------------------------------------------------------
(* Properties.                                                             *)

\* UpdateNote "preserving edit history": every text a note ever had is its
\* text now or one of its revisions, however edits of it interleave or fail.
Kept(n) ==
  {notes[n].body} \cup
  {revisions[r].body : r \in {k \in DOMAIN revisions : revisions[k].note = n}}
NoTextIsLost == \A t \in texts : t.body \in Kept(t.note)

\* Two officers who decide on what one page showed: one of them is refused.
\* No two records of a decision are about the same version of a membership.
Recorded(d) == <<d.membership, d.version>>
TwoOfficersOneDecision ==
  /\ \A i, j \in DOMAIN approvals :
       Recorded(approvals[i]) = Recorded(approvals[j]) => i = j
  /\ \A i \in DOMAIN approvals, call \in deciding :
       Recorded(approvals[i]) # Recorded(call)
  /\ \A c, d \in deciding : Recorded(c) = Recorded(d) => c = d

\* An edit that names no end leaves the end alone: a grant ends on the day
\* somebody last asked for, and an expired one does not come back to life.
LastAskedEndHolds ==
  \A g \in DOMAIN honors : honors[g].until = honors[g].asked
                             /\ (honors[g].lifetime => honors[g].until = Never)

\* The pages of the queue, one after another, show every application that the
\* tile counts, once, in the order in which they were made.
QueueIsWalkedWhole ==
  LET Walk[o \in 0 .. CountPendingMemberships + PageSize] ==
        PendingPage(o).rows \o
          (IF PendingPage(o).more THEN Walk[PendingPage(o).next] ELSE <<>>)
  IN /\ ToSet(Walk[0]) = Pending
     /\ \A i, j \in DOMAIN Walk[0] : i < j => Walk[0][i] < Walk[0][j]

\* Of the events its queries found, whichever of them failed, a timeline leaves
\* one out only for as many that are no older.
TimelineIsNewest ==
  \A p \in Persons, answered \in SUBSET Queries :
    LET all == Answer("audit", answered, AuditEvents(p))
                 \cup Answer("note", answered, ListNotes(p))
                 \cup Answer("membership", answered, ListMembershipsByPerson(p))
        shown == Timeline(p, TimelineSize, answered)
    IN \A e \in all \ shown :
         Cardinality({f \in shown : f.at >= e.at}) >= TimelineSize

=============================================================================
