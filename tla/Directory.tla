------------------------------ MODULE Directory ------------------------------
(***************************************************************************)
(* The directory members read about each other: who is listed, in two      *)
(* orders and in pages, and which contact values are shown beside a name.  *)
(*                                                                         *)
(* Code: internal/domain/directory and its queries in                      *)
(* internal/db/sqlc/directory.sql.go, the page internal/web/directory.go   *)
(* and the operation of internal/httpapi/ops_directory.go.                 *)
(*                                                                         *)
(* A page is read in four statements outside a transaction: whether the    *)
(* reader may look, how many are listed, the rows, the contacts.  A choice *)
(* of audience takes its instant first and is stored later; between the    *)
(* two the clock may move and other choices be stored.                     *)
(*                                                                         *)
(* A person is a number, and the numbers are in the order of the names.    *)
(***************************************************************************)
EXTENDS Integers, Sequences, SequencesExt, Ranking

CONSTANTS
  People,
  Sign,               \* call signs by person; 0 for none
  Contacts, Owner,    \* e-mail addresses and telephone numbers, their owners
  FirstMemberships,   \* memberships on file at first
  Limits, Offsets,    \* pages a reader asks for
  DefaultLimit, MaxLimit, PrintLimit,
  ChangeLimit         \* bound on the changes of the records

ASSUME PeopleAreNumbers == People \subseteq Nat \ {0}
ASSUME DirectoryRecords ==
  /\ Sign \in [People -> Nat] /\ Owner \in [Contacts -> People]
  /\ {DefaultLimit, MaxLimit, PrintLimit} \subseteq Nat \ {0}
ASSUME PagesAreNumbers == Limits \subseteq Nat /\ Offsets \subseteq Nat

VARIABLES
  memberships,  \* rows: person, base type, approved and not ended
  inactive,     \* deactivated or deceased
  archived,     \* archived contacts
  choices,      \* contact_method_visibility_events, by id
  granted,      \* people whose records the reader may reach
  now,          \* the clock, to the granularity of the instants
  asked,        \* choices whose instant is taken and which are not stored
  page,         \* what a reader's request has read so far
  changes       \* changes so far

records == <<memberships, inactive, archived, granted>>
vars == <<records, choices, now, asked, page, changes>>

Types == {"full", "associate"}
Membership == [person : People, type : Types, current : BOOLEAN]
ASSUME FirstRows == FirstMemberships \in Seq(Membership)
Audiences == {"full_members", "officers"}
Sorts == {"name", "call_sign"}
Filters == {"all"} \cup Types

-----------------------------------------------------------------------------
(* Which values are shown.                                                 *)

EventsOf(c) == {e \in DOMAIN choices : choices[e].of = c}

\* Slip: of two choices of one instant the first is taken.
LatestByTimeOnly(c) ==
  {e \in EventsOf(c) : \A d \in EventsOf(c) \ {e} :
     choices[d].at < choices[e].at \/ (choices[d].at = choices[e].at /\ e < d)}

\* ORDER BY effective_at DESC, id DESC LIMIT 1
Latest(c) ==
  {e \in EventsOf(c) : \A d \in EventsOf(c) \ {e} :
     choices[d].at < choices[e].at \/ (choices[d].at = choices[e].at /\ d < e)}

\* Without a choice on file, full members share and associates do not.
IsShown(c, type) ==
  /\ c \notin archived
  /\ IF EventsOf(c) = {} THEN type = "full"
     ELSE \E e \in Latest(c) : choices[e].audience = "full_members"

-----------------------------------------------------------------------------
(* Who is listed, in which order.                                          *)

\* The one population the queries share; a person with two memberships in
\* force is in it twice.
Population(filter) ==
  {m \in DOMAIN memberships :
     /\ memberships[m].current
     /\ filter \in {"all", memberships[m].type}
     /\ memberships[m].person \notin inactive}

Eligible ==
  \E m \in DOMAIN memberships :
    memberships[m].person \in granted /\ memberships[m].current /\ memberships[m].type = "full"

CountDirectoryEntries(filter) == Cardinality(Population(filter))

\* The rows of one person come in the order of their ids; SQL leaves it open.
ByName(m, n) ==
  \/ memberships[m].person < memberships[n].person
  \/ memberships[m].person = memberships[n].person /\ m < n

\* Those without a call sign come last, in the order of the names.
ByCallSign(m, n) ==
  LET s == Sign[memberships[m].person]  t == Sign[memberships[n].person]
  IN \/ s # 0 /\ t = 0
     \/ s # 0 /\ t # 0 /\ s < t
     \/ s = t /\ ByName(m, n)

Before(sort, m, n) == IF sort = "name" THEN ByName(m, n) ELSE ByCallSign(m, n)

Order(sort, listed) == {pair \in listed \X listed : Before(sort, pair[1], pair[2])}

Ordered(sort, filter) == Ranked(Population(filter), Order(sort, Population(filter)))

Least(a, b) == IF a < b THEN a ELSE b
Bounds(q) == SubSeq(Ordered(q.sort, q.filter), q.offset + 1,
                    Least(q.offset + q.limit, CountDirectoryEntries(q.filter)))

ListDirectoryEntries(q) == Bounds([q EXCEPT !.sort = "name"])
ListDirectoryEntriesByCallSign(q) == Bounds([q EXCEPT !.sort = "call_sign"])

\* The contacts of the memberships on a page, each with its owner.
Shown(rows) ==
  {c \in Contacts : \E i \in DOMAIN rows :
     memberships[rows[i]].person = Owner[c] /\ IsShown(c, memberships[rows[i]].type)}

\* Slip: the page of the contacts is cut from the order of the names.
ContactsOfNames(q) == Shown(Bounds([q EXCEPT !.sort = "name"]))

ListDirectoryContacts(q) == Shown(Bounds([q EXCEPT !.sort = "name"]))
ListDirectoryContactsByCallSign(q) == Shown(Bounds([q EXCEPT !.sort = "call_sign"]))

Entries(q) ==
  IF q.sort = "name" THEN ListDirectoryEntries(q) ELSE ListDirectoryEntriesByCallSign(q)
ContactsFor(q) ==
  IF q.sort = "name" THEN ListDirectoryContacts(q) ELSE ListDirectoryContactsByCallSign(q)

\* What is asked for is cut to what is served; 0 stands for nothing asked.
Limited(limit, print) ==
  IF limit = 0 THEN (IF print THEN PrintLimit ELSE DefaultLimit)
  ELSE Least(limit, IF print THEN PrintLimit ELSE MaxLimit)

\* A sheet has no offset; the text that is searched for is left out.
DirectoryQueryFrom(sort, filter, limit, offset, print) ==
  [sort |-> sort, filter |-> filter, limit |-> Limited(limit, print),
   offset |-> IF print THEN 0 ELSE offset]

-----------------------------------------------------------------------------
(* Reading a page.                                                         *)

NoPage == [stage |-> "none"]

\* Refused, or granted to read on: evaluated for every request.
ListAsks(q) ==
  /\ page = NoPage
  /\ page' = IF Eligible THEN [stage |-> "may", q |-> q] ELSE [stage |-> "refused"]
  /\ UNCHANGED <<records, choices, now, asked, changes>>

ListCounts ==
  /\ page.stage = "may"
  /\ page' = [stage |-> "counted", q |-> page.q, total |-> CountDirectoryEntries(page.q.filter)]
  /\ UNCHANGED <<records, choices, now, asked, changes>>

ListReadsEntries ==
  /\ page.stage = "counted"
  /\ page' = [stage |-> "listed", q |-> page.q, total |-> page.total,
              people |-> {memberships[m].person : m \in Range(Entries(page.q))}]
  /\ UNCHANGED <<records, choices, now, asked, changes>>

\* The contacts are hung on the rows by person; what hangs on none is dropped.
ListReadsContacts ==
  /\ page.stage = "listed"
  /\ page' = [stage |-> "read", q |-> page.q, total |-> page.total, people |-> page.people,
              shown |-> {c \in ContactsFor(page.q) : Owner[c] \in page.people}]
  /\ UNCHANGED <<records, choices, now, asked, changes>>

\* One line: what is withheld and what is not on file read the same.
DirectoryRowFrom(p) ==
  [person |-> p, contacts |-> {c \in page.shown : Owner[c] = p}]

Rendered ==
  /\ page.stage \in {"read", "refused"}
  /\ page' = NoPage
  /\ UNCHANGED <<records, choices, now, asked, changes>>

HasNext(q) == q.offset + Len(Entries(q)) < CountDirectoryEntries(q.filter)

DirectoryPage(sort, filter, limit, offset) ==
  ListAsks(DirectoryQueryFrom(sort, filter, limit, offset, FALSE))
DirectoryPrint(sort, filter) == ListAsks(DirectoryQueryFrom(sort, filter, 0, 0, TRUE))

-----------------------------------------------------------------------------
(* What happens to the records meanwhile.                                  *)

Changes == changes < ChangeLimit /\ changes' = changes + 1

\* "after" is a history: the choices that were on file when this one was asked.
SetDirectoryVisibility(c, audience) ==
  /\ Changes
  /\ asked' = asked \cup {[of |-> c, audience |-> audience, at |-> now, after |-> Len(choices)]}
  /\ UNCHANGED <<records, choices, now, page>>

CreateVisibilityEvent(call) ==
  /\ choices' = Append(choices, call)
  /\ asked' = asked \ {call}
  /\ UNCHANGED <<records, now, page, changes>>

ClockMoves ==
  /\ Changes /\ now' = now + 1
  /\ UNCHANGED <<records, choices, asked, page>>

ApproveMembership(p, type) ==
  /\ Changes
  /\ memberships' = Append(memberships, [person |-> p, type |-> type, current |-> TRUE])
  /\ UNCHANGED <<inactive, archived, granted, choices, now, asked, page>>

TransitionLifecycle(m) ==
  /\ Changes /\ memberships[m].current
  /\ memberships' = [memberships EXCEPT ![m].current = FALSE]
  /\ UNCHANGED <<inactive, archived, granted, choices, now, asked, page>>

DeactivatePerson(p) ==
  /\ Changes /\ inactive' = inactive \cup {p}
  /\ UNCHANGED <<memberships, archived, granted, choices, now, asked, page>>

ArchiveContactMethod(c) ==
  /\ Changes /\ archived' = archived \cup {c}
  /\ UNCHANGED <<memberships, inactive, granted, choices, now, asked, page>>

GrantMemberAccess(p) ==
  /\ Changes /\ granted' = granted \cup {p}
  /\ UNCHANGED <<memberships, inactive, archived, choices, now, asked, page>>

RevokeMemberAccess(p) ==
  /\ Changes /\ granted' = granted \ {p}
  /\ UNCHANGED <<memberships, inactive, archived, choices, now, asked, page>>

Init ==
  /\ memberships = FirstMemberships
  /\ inactive = {} /\ archived = {} /\ choices = <<>> /\ granted = People
  /\ now = 1 /\ asked = {} /\ page = NoPage /\ changes = 0

ReadStep ==
  \/ \E sort \in Sorts, filter \in Filters, limit \in Limits, offset \in Offsets :
       DirectoryPage(sort, filter, limit, offset)
  \/ \E sort \in Sorts, filter \in Filters : DirectoryPrint(sort, filter)
  \/ ListCounts \/ ListReadsEntries \/ ListReadsContacts \/ Rendered

ChoiceStep ==
  \/ \E c \in Contacts, audience \in Audiences : SetDirectoryVisibility(c, audience)
  \/ \E call \in asked : CreateVisibilityEvent(call)
  \/ ClockMoves

RecordStep ==
  \/ \E p \in People, type \in Types : ApproveMembership(p, type)
  \/ \E m \in DOMAIN memberships : TransitionLifecycle(m)
  \/ \E p \in People : DeactivatePerson(p) \/ GrantMemberAccess(p) \/ RevokeMemberAccess(p)
  \/ \E c \in Contacts : ArchiveContactMethod(c)

Next == ReadStep \/ ChoiceStep \/ RecordStep

Spec == Init /\ [][Next]_vars

-----------------------------------------------------------------------------
(* Properties.                                                             *)

\* The last choice about c was to withhold it: whoever made it asked after
\* every other choice about c had been answered.
Withheld(c) ==
  \E d \in EventsOf(c) :
    /\ choices[d].audience # "full_members"
    /\ \A e \in EventsOf(c) \ {d} : e <= choices[d].after

\* A value its member has withheld is read into no page, whichever choices
\* carry one instant or are stored in another order than they were asked.
NothingWithheldIsShown ==
  [][page'.stage = "read" =>
       \A p \in page'.people : \A c \in DirectoryRowFrom(p).contacts' : ~Withheld(c)]_page

\* A reader who follows the links to the next page meets every row once, in
\* the order asked for, each with the contacts that are shown of it.
PagesAddUp ==
  page = NoPage => \A sort \in Sorts, filter \in Filters, limit \in Limits :
    LET q(i) == DirectoryQueryFrom(sort, filter, limit, (i - 1) * Limited(limit, FALSE), FALSE)
        last == CHOOSE i \in 1 .. Len(memberships) + 1 :
                  ~HasNext(q(i)) /\ \A j \in 1 .. i - 1 : HasNext(q(j))
    IN /\ FlattenSeq([i \in 1 .. last |-> Entries(q(i))]) = Ordered(sort, filter)
       /\ \A i \in 1 .. last : ContactsFor(q(i)) = Shown(Entries(q(i)))

=============================================================================
