------------------------------ MODULE Records -------------------------------
(***************************************************************************)
(* The members' records: persons, their contact methods, and the two       *)
(* append-only preference histories (directory visibility, ACS/ARES        *)
(* sharing).                                                               *)
(*                                                                         *)
(* Code: internal/domain/members, reached from the officer pages and the   *)
(* API; the tables of migration 0001.                                      *)
(*                                                                         *)
(* Called directly, a service method runs WITHOUT a transaction: each SQL  *)
(* statement commits on its own.  A method of one writing statement is one *)
(* action; MakePrimary and CreateContactMethod of a primary clear the old  *)
(* primary in one statement and write the new one in another, so each is   *)
(* two actions, and "pending" holds the second statement meanwhile.        *)
(*                                                                         *)
(* A guarded UPDATE carries the version its caller read and changes no row *)
(* when it moved, so a write that happens is made on the row as it is; a   *)
(* refused one is a stutter.  Texts stand for names, call signs, contact   *)
(* values, audiences and answers alike.                                    *)
(***************************************************************************)
EXTENDS Integers, Sequences, FiniteSets, SequencesExt

CONSTANTS
  People,          \* ids of the persons on file
  Kinds,           \* kinds of contact: email, phone, postal
  Texts, NoText,   \* values that pass validation, and NULL
  Calls,           \* HTTP requests the server may be handling at once
  FirstPersons,    \* the records as the import left them
  FirstContacts

CONSTANTS          \* bounds of the explored state space, none is in the code
  PersonVersionLimit, ContactLimit, ContactVersionLimit, EventLimit

Maybe == Texts \cup {NoText}

\* licence stands for license_class and volunteer_examiner together.
Person == [name : Texts, sign : Maybe, licence : Maybe, active : BOOLEAN,
           version : Nat]

Contact == [owner : People, kind : Kinds, text : Texts, primary : BOOLEAN,
            archived : BOOLEAN, version : Nat]

ActivePrimaries(rows, p) ==
  {c \in DOMAIN rows : rows[c].owner = p /\ rows[c].primary /\ ~rows[c].archived}

Sources == {"officer", "member_request"}
Choice == [of : Nat, text : Texts, source : Sources]

\* The statement a call has yet to run: an UPDATE of contact, or, when contact
\* is 0, the INSERT of a primary.
Statement ==
  {s \in [call : Calls, contact : Nat, owner : People, kind : Kinds, text : Maybe] :
     s.contact = 0 => s.text \in Texts}

ASSUME PeopleAreIds == People \subseteq Nat \ {0}
ASSUME NoTextIsNoText == NoText \notin Texts
ASSUME FirstRecords ==
  /\ FirstPersons \in [People -> Person]
  /\ FirstContacts \in Seq(Contact)
\* The import marks the e-mail address it creates, and nothing else.
ASSUME OneFirstPrimary ==
  \A p \in People : Cardinality(ActivePrimaries(FirstContacts, p)) <= 1
ASSUME CallsAreFinite == IsFiniteSet(Calls)
ASSUME RecordLimits ==
  /\ PersonVersionLimit \in Nat /\ ContactLimit \in Nat
  /\ ContactVersionLimit \in Nat /\ EventLimit \in Nat

VARIABLES
  persons,      \* persons, by id
  contacts,     \* contact_methods, by id; rows are archived, never deleted
  visibility,   \* contact_method_visibility_events, append-only
  sharing,      \* acs_ares_sharing_events, append-only
  pending       \* second statements of calls under way

records == <<persons, contacts, visibility, sharing>>
recordVars == <<persons, contacts, visibility, sharing, pending>>

RecordsInit ==
  /\ persons = FirstPersons
  /\ contacts = FirstContacts
  /\ visibility = <<>>
  /\ sharing = <<>>
  /\ pending = {}

RecordsTypeOK ==
  /\ persons \in [People -> Person]
  /\ contacts \in Seq(Contact)
  /\ visibility \in Seq(Choice)
  /\ sharing \in Seq(Choice)
  /\ pending \subseteq Statement

-----------------------------------------------------------------------------
(* Writes, shared by the officers' direct calls and by review.             *)

ContactIds == DOMAIN contacts

\* The partial unique index on call_sign.
SignIsFree(p, sign) ==
  sign # NoText => \A q \in People \ {p} : persons[q].sign # sign

WritePerson(p, name, sign, licence) ==
  /\ persons[p].version < PersonVersionLimit
  /\ SignIsFree(p, sign)
  /\ persons' = [persons EXCEPT ![p] =
       [name |-> name, sign |-> sign, licence |-> licence,
        active |-> persons[p].active, version |-> persons[p].version + 1]]

NewContact(p, kind, text, primary) ==
  [owner |-> p, kind |-> kind, text |-> text, primary |-> primary,
   archived |-> FALSE, version |-> 1]

RoomForContact == Len(contacts) < ContactLimit

RoomForVersions ==
  \A c \in ContactIds : contacts[c].version < ContactVersionLimit

Rewritten(row, text, primary, archived) ==
  [owner |-> row.owner, kind |-> row.kind, text |-> text, primary |-> primary,
   archived |-> archived, version |-> row.version + 1]

\* Slip: the old primary is left standing.
ClearNothing(rows, p) == rows

\* Every active primary of the person, whatever its kind.
ClearPrimary(rows, p) ==
  [c \in DOMAIN rows |->
     IF rows[c].owner = p /\ rows[c].primary /\ ~rows[c].archived
     THEN Rewritten(rows[c], rows[c].text, FALSE, FALSE)
     ELSE rows[c]]

SetPrimary(rows, c) ==
  [rows EXCEPT ![c] = Rewritten(rows[c], rows[c].text, TRUE, rows[c].archived)]

UpdateText(c, text) ==
  contacts' = [contacts EXCEPT ![c] =
    Rewritten(contacts[c], text, contacts[c].primary, contacts[c].archived)]

Archive(c) ==
  contacts' = [contacts EXCEPT ![c] =
    Rewritten(contacts[c], contacts[c].text, contacts[c].primary, TRUE)]

RecordVisibility(c, text, source) ==
  /\ Len(visibility) < EventLimit
  /\ visibility' = Append(visibility, [of |-> c, text |-> text, source |-> source])

RecordSharing(p, text, source) ==
  /\ Len(sharing) < EventLimit
  /\ sharing' = Append(sharing, [of |-> p, text |-> text, source |-> source])

-----------------------------------------------------------------------------
(* The officers' direct calls.                                             *)

UpdatePerson(p, name, sign, licence) ==
  /\ WritePerson(p, name, sign, licence)
  /\ UNCHANGED <<contacts, visibility, sharing, pending>>

\* DeactivatePerson and ReactivatePerson.
SetActive(p, active) ==
  /\ persons[p].version < PersonVersionLimit
  /\ persons' = [persons EXCEPT ![p] =
       [name |-> persons[p].name, sign |-> persons[p].sign,
        licence |-> persons[p].licence, active |-> active,
        version |-> persons[p].version + 1]]
  /\ UNCHANGED <<contacts, visibility, sharing, pending>>

CreateContactMethod(p, kind, text) ==
  /\ RoomForContact
  /\ contacts' = Append(contacts, NewContact(p, kind, text, FALSE))
  /\ UNCHANGED <<persons, visibility, sharing, pending>>

ArchiveContactMethod(c) ==
  /\ RoomForVersions
  /\ Archive(c)
  /\ UNCHANGED <<persons, visibility, sharing, pending>>

SetDirectoryVisibility(c, text) ==
  /\ RecordVisibility(c, text, "officer")
  /\ UNCHANGED <<persons, contacts, sharing, pending>>

SetAcsAresSharing(p, text) ==
  /\ RecordSharing(p, text, "officer")
  /\ UNCHANGED <<persons, contacts, visibility, pending>>

Idle(call) == \A s \in pending : s.call # call

\* The first statement of CreateContactMethod with IsPrimary.
ClearForNew(call, p, kind, text) ==
  /\ Idle(call)
  /\ RoomForVersions
  /\ contacts' = ClearPrimary(contacts, p)
  /\ pending' = pending \cup
       {[call |-> call, contact |-> 0, owner |-> p, kind |-> kind, text |-> text]}
  /\ UNCHANGED <<persons, visibility, sharing>>

InsertPrimary(s) ==
  /\ s.contact = 0
  /\ RoomForContact
  /\ contacts' = Append(contacts, NewContact(s.owner, s.kind, s.text, TRUE))
  /\ pending' = pending \ {s}
  /\ UNCHANGED <<persons, visibility, sharing>>

\* MakePrimary reads the contact's owner, which never changes, and clears.
ClearForMark(call, c) ==
  /\ Idle(call)
  /\ RoomForVersions
  /\ contacts' = ClearPrimary(contacts, contacts[c].owner)
  /\ pending' = pending \cup
       {[call |-> call, contact |-> c, owner |-> contacts[c].owner,
         kind |-> contacts[c].kind, text |-> NoText]}
  /\ UNCHANGED <<persons, visibility, sharing>>

MarkPrimary(s) ==
  /\ s.contact # 0
  /\ RoomForVersions
  /\ contacts' = SetPrimary(contacts, s.contact)
  /\ pending' = pending \ {s}
  /\ UNCHANGED <<persons, visibility, sharing>>

\* The process stops, or the statement fails, between the two.
LoseCall(s) ==
  /\ pending' = pending \ {s}
  /\ UNCHANGED records

RecordsNext ==
  \/ \E p \in People, name \in Texts, sign, licence \in Maybe :
       UpdatePerson(p, name, sign, licence)
  \/ \E p \in People, active \in BOOLEAN : SetActive(p, active)
  \/ \E p \in People, kind \in Kinds, text \in Texts :
       CreateContactMethod(p, kind, text)
  \/ \E c \in ContactIds : ArchiveContactMethod(c)
  \/ \E c \in ContactIds, text \in Texts : SetDirectoryVisibility(c, text)
  \/ \E p \in People, text \in Texts : SetAcsAresSharing(p, text)
  \/ \E call \in Calls, p \in People, kind \in Kinds, text \in Texts :
       ClearForNew(call, p, kind, text)
  \/ \E call \in Calls, c \in ContactIds : ClearForMark(call, c)
  \/ \E s \in pending : InsertPrimary(s) \/ MarkPrimary(s) \/ LoseCall(s)

RecordsSpec == RecordsInit /\ [][RecordsNext]_recordVars

-----------------------------------------------------------------------------
(* Properties.                                                             *)

\* "MakePrimary sets a contact method as primary, clearing others".  Calls that
\* overlap all clear before they mark, so a person may end with as many active
\* primaries as calls ran at once, and never with more: with one call at a time,
\* one.  Worksheets and profiles show the first of them.
OnePrimaryPerCall ==
  \A p \in People :
    Cardinality(ActivePrimaries(contacts, p)) <= Cardinality(Calls)

\* The calls that have cleared p's primaries and have one to write.
Marking(p) == {s \in pending : s.owner = p}

\* Why: each call has one statement to run, on a row of the person whose
\* primaries it cleared.
PrimaryInv ==
  /\ \A s, t \in pending : s.call = t.call => s = t
  /\ \A s \in pending : s.contact # 0 =>
       s.contact \in ContactIds /\ contacts[s.contact].owner = s.owner
  /\ \A p \in People :
       Cardinality(ActivePrimaries(contacts, p)) + Cardinality(Marking(p))
         <= Cardinality(Calls)

=============================================================================
