--------------------------- MODULE DirectoryProofs ---------------------------
(***************************************************************************)
(* Theorems about the member directory, for any members, memberships and   *)
(* contacts, any number of choices in flight and pages of any size.        *)
(***************************************************************************)
EXTENDS Directory, RankingProofs

-----------------------------------------------------------------------------
(* Withheld values.  A choice that was asked after others had been stored  *)
(* is no earlier than they are, and its id is above theirs: the clock and  *)
(* the ids agree about the choices that do not overlap.                    *)

FollowsChoices(call) ==
  /\ call.at \in Nat /\ call.at <= now
  /\ call.after \in Nat /\ call.after <= Len(choices)
  /\ \A e \in 1 .. call.after : choices[e].at <= call.at

ChoicesTyped == \E known : choices \in Seq(known)

ChoicesInv ==
  /\ ChoicesTyped /\ now \in Nat
  /\ \A call \in asked : FollowsChoices(call)
  /\ \A d \in DOMAIN choices : FollowsChoices(choices[d]) /\ choices[d].after < d

LEMMA ChoiceIsAsked ==
  ASSUME ChoicesInv, NEW c, NEW audience, SetDirectoryVisibility(c, audience)
  PROVE  ChoicesInv'
<1> DEFINE call == [of |-> c, audience |-> audience, at |-> now, after |-> Len(choices)]
<1>1. choices' = choices /\ now' = now /\ asked' = asked \cup {call}
  BY DEF SetDirectoryVisibility
<1>2. Len(choices) \in Nat /\ DOMAIN choices = 1 .. Len(choices)
  BY DEF ChoicesInv, ChoicesTyped
<1>3. FollowsChoices(call)
  BY <1>2 DEF ChoicesInv, FollowsChoices
<1>4. \A x : FollowsChoices(x) => FollowsChoices(x)'
  BY <1>1 DEF FollowsChoices
<1>5. QED
  BY <1>1, <1>3, <1>4 DEF ChoicesInv, ChoicesTyped, FollowsChoices

LEMMA ChoiceIsStored ==
  ASSUME ChoicesInv, NEW call \in asked, CreateVisibilityEvent(call)
  PROVE  ChoicesInv'
<1>1. choices' = Append(choices, call) /\ now' = now /\ asked' \subseteq asked
  BY DEF CreateVisibilityEvent
<1>2. PICK known : choices \in Seq(known)
  BY DEF ChoicesInv, ChoicesTyped
<1>3. PICK n \in Nat : n = Len(choices)
  BY <1>2
<1>4. choices \in Seq(known \cup {call})
  BY <1>2
<1>5. /\ choices' \in Seq(known \cup {call}) /\ Len(choices') = n + 1
      /\ DOMAIN choices = 1 .. n /\ DOMAIN choices' = 1 .. n + 1
      /\ \A i \in 1 .. n : choices'[i] = choices[i]
      /\ choices'[n + 1] = call
  BY <1>1, <1>3, <1>4, AppendProperties, LenProperties
<1>6. ASSUME NEW x, FollowsChoices(x)
      PROVE  /\ x.at \in Nat /\ x.at <= now' /\ x.after \in Nat
             /\ x.after <= Len(choices')
             /\ x.after <= n
             /\ \A e \in 1 .. x.after : choices'[e].at <= x.at
  BY <1>1, <1>3, <1>5, <1>6 DEF FollowsChoices
<1>7. ASSUME NEW d \in DOMAIN choices'
      PROVE  /\ FollowsChoices(choices'[d])
             /\ choices'[d].after < d
  <2>1. CASE d \in 1 .. n
    BY <1>5, <2>1 DEF ChoicesInv
  <2>2. CASE d = n + 1
    BY <1>5, <1>6, <1>3, <2>2 DEF ChoicesInv
  <2>3. QED
    BY <1>5, <2>1, <2>2
<1>8. \A x \in asked' : FollowsChoices(x)'
  BY <1>1, <1>6 DEF ChoicesInv, FollowsChoices
<1>9. \A d \in DOMAIN choices' : FollowsChoices(choices[d])' /\ choices'[d].after < d
  BY <1>6, <1>7 DEF FollowsChoices
<1>10. QED
  BY <1>1, <1>5, <1>8, <1>9 DEF ChoicesInv, ChoicesTyped

LEMMA TimeFollowsChoices ==
  ASSUME ChoicesInv, ClockMoves
  PROVE  ChoicesInv'
<1>1. now' = now + 1 /\ choices' = choices /\ asked' = asked /\ now \in Nat
  BY DEF ClockMoves, ChoicesInv
<1>2. \A x : FollowsChoices(x) => FollowsChoices(x)'
  BY <1>1 DEF FollowsChoices
<1>3. QED
  BY <1>1, <1>2 DEF ChoicesInv, ChoicesTyped

LEMMA ReadsAndRecordsLeaveChoices ==
  ASSUME ReadStep \/ RecordStep
  PROVE  UNCHANGED <<choices, now, asked>>
<1>1. CASE ReadStep
  BY <1>1 DEF ReadStep, DirectoryPage, DirectoryPrint, ListAsks, ListCounts,
              ListReadsEntries, ListReadsContacts, Rendered
<1>2. CASE RecordStep
  BY <1>2 DEF RecordStep, ApproveMembership, TransitionLifecycle, DeactivatePerson,
              GrantMemberAccess, RevokeMemberAccess, ArchiveContactMethod
<1>3. QED
  BY <1>1, <1>2

LEMMA ChoicesInvHolds == Spec => []ChoicesInv
<1>1. Init => ChoicesInv
  BY DEF Init, ChoicesInv, ChoicesTyped
<1>2. ChoicesInv /\ [Next]_vars => ChoicesInv'
  <2>1. SUFFICES ASSUME ChoicesInv, [Next]_vars PROVE ChoicesInv'
    OBVIOUS
  <2>2. CASE UNCHANGED <<choices, now, asked>>
    BY <2>1, <2>2 DEF ChoicesInv, ChoicesTyped, FollowsChoices
  <2>3. CASE ChoiceStep
    BY <2>1, <2>3, ChoiceIsAsked, ChoiceIsStored, TimeFollowsChoices DEF ChoiceStep
  <2>4. QED
    BY <2>1, <2>2, <2>3, ReadsAndRecordsLeaveChoices DEF Next, vars
<1>3. QED
  BY <1>1, <1>2, PTL DEF Spec

\* A choice that was asked when every other choice about the contact had been
\* stored is the latest one.
LEMMA WithheldIsNotShown ==
  ASSUME ChoicesInv, NEW c, Withheld(c), NEW type
  PROVE  ~ IsShown(c, type)
<1>1. PICK d \in EventsOf(c) :
        /\ choices[d].audience # "full_members"
        /\ \A e \in EventsOf(c) \ {d} : e <= choices[d].after
  BY DEF Withheld
<1>2. d \in DOMAIN choices /\ d \in Nat /\ DOMAIN choices = 1 .. Len(choices)
  BY DEF EventsOf, ChoicesInv, ChoicesTyped
<1>3. ASSUME NEW e \in EventsOf(c) \ {d}
      PROVE  ~ (choices[d].at < choices[e].at \/ (choices[d].at = choices[e].at /\ d < e))
  <2>1. e \in 1 .. choices[d].after /\ e \in DOMAIN choices
    BY <1>1, <1>2, <1>3 DEF EventsOf, ChoicesInv, FollowsChoices
  <2>2. choices[e].at <= choices[d].at /\ choices[e].at \in Nat /\ choices[d].at \in Nat
    BY <1>2, <2>1 DEF ChoicesInv, FollowsChoices
  <2>3. choices[d].after \in Nat /\ choices[d].after < d
    BY <1>2 DEF ChoicesInv, FollowsChoices
  <2>4. QED
    BY <1>2, <2>1, <2>2, <2>3
<1>4. \A e \in Latest(c) : e = d
  BY <1>3 DEF Latest
<1>5. QED
  BY <1>1, <1>4 DEF IsShown

\* Whichever choices carry one instant or are stored in another order than
\* they were asked, ListDirectoryContacts shows no value that its member has
\* withheld (the ORDER BY effective_at DESC, id DESC of its choices).
THEOREM WithheldStaysWithheld == Spec => NothingWithheldIsShown
<1>1. ASSUME ChoicesInv, [Next]_vars
      PROVE  [page'.stage = "read" =>
                \A p \in page'.people :
                  \A c \in DirectoryRowFrom(p).contacts' : ~ Withheld(c)]_page
  <2>1. SUFFICES ASSUME page' # page, page'.stage = "read", NEW p \in page'.people,
                        NEW c \in DirectoryRowFrom(p).contacts'
                 PROVE  ~ Withheld(c)
    OBVIOUS
  <2>2. ~ ChoiceStep /\ ~ RecordStep
    BY <2>1 DEF ChoiceStep, SetDirectoryVisibility, CreateVisibilityEvent, ClockMoves,
              RecordStep, ApproveMembership, TransitionLifecycle, DeactivatePerson,
              GrantMemberAccess, RevokeMemberAccess, ArchiveContactMethod
  <2>3. ListReadsContacts
    <3>1. ~ Rendered /\ ~ ListCounts /\ ~ ListReadsEntries
      BY <2>1 DEF Rendered, ListCounts, ListReadsEntries, NoPage
    <3>2. ASSUME NEW q, ListAsks(q) PROVE FALSE
      <4>1. page'.stage = IF Eligible THEN "may" ELSE "refused"
        BY <3>2 DEF ListAsks
      <4>2. QED
        BY <2>1, <4>1
    <3>3. ReadStep
      BY <1>1, <2>1, <2>2 DEF Next, vars
    <3>4. QED
      BY <3>1, <3>2, <3>3 DEF ReadStep, DirectoryPage, DirectoryPrint
  <2>4. c \in page'.shown
    BY <2>1 DEF DirectoryRowFrom
  <2>5. c \in ContactsFor(page.q)
    BY <2>3, <2>4 DEF ListReadsContacts
  <2>6. PICK rows : c \in Shown(rows)
    BY <2>5 DEF ContactsFor, ListDirectoryContacts, ListDirectoryContactsByCallSign
  <2>7. QED
    BY <1>1, <2>6, WithheldIsNotShown DEF Shown
<1>2. QED
  BY <1>1, ChoicesInvHolds, PTL DEF Spec, NothingWithheldIsShown

-----------------------------------------------------------------------------
(* Pages.  A list cut at the multiples of the page size is the list.       *)

LEMMA Multiples ==
  ASSUME NEW L \in Nat \ {0}
  PROVE  /\ \A i \in Nat : i * L \in Nat /\ i <= i * L
         /\ \A i \in Nat \ {0} : i * L = (i - 1) * L + L
         /\ \A i, j \in Nat : i <= j => i * L <= j * L
<1>1. \A i \in Nat : i * L \in Nat
  OBVIOUS
<1>2. \A i \in Int, j \in Int : (j - i) * L = j * L - i * L
  OBVIOUS
<1>3. \A k \in Nat : k * L >= k
  OBVIOUS
<1>4. ASSUME NEW i \in Nat, NEW j \in Nat, i <= j
      PROVE  i * L <= j * L
  <2>1. (j - i) * L \in Nat
    BY <1>1, <1>4
  <2>2. i * L \in Nat /\ j * L \in Nat /\ (j - i) * L = j * L - i * L
    BY <1>1, <1>2
  <2>3. QED
    BY <2>1, <2>2
<1>5. ASSUME NEW i \in Nat \ {0}
      PROVE  i * L = (i - 1) * L + L
  OBVIOUS
<1>6. QED
  BY <1>1, <1>3, <1>4, <1>5

\* What FlattenSeq computes, told by the sequence of its stages.
LEMMA FlattenedByStages ==
  ASSUME NEW S, NEW n \in Nat \ {0}, NEW pages \in [1 .. n -> S],
         NEW stages, DOMAIN stages = 1 .. n,
         stages[1] = pages[1],
         \A i \in 2 .. n : stages[i] = stages[i - 1] \o pages[i]
  PROVE  FlattenSeq(pages) = stages[n]
<1> DEFINE Body(f) == [i \in 1 .. n |-> IF i = 1 THEN pages[i] ELSE f[i - 1] \o pages[i]]
           flatten == CHOOSE f : f = Body(f)
<1>1. Len(pages) = n
  OBVIOUS
<1>2. FlattenSeq(pages) = flatten[n]
  BY <1>1 DEF FlattenSeq
<1>3. \E f : f = Body(f)
  <2>1. PICK g : g = [i \in 1 .. n |-> stages[i]]
    OBVIOUS
  <2>2. ASSUME NEW i \in 1 .. n
        PROVE  g[i] = IF i = 1 THEN pages[i] ELSE g[i - 1] \o pages[i]
    <3>1. CASE i = 1
      BY <2>1, <3>1
    <3>2. CASE i # 1
      <4>1. i \in 2 .. n /\ i - 1 \in 1 .. n
        BY <3>2
      <4>2. g[i] = stages[i] /\ g[i - 1] = stages[i - 1]
        BY <2>1, <4>1
      <4>3. stages[i] = stages[i - 1] \o pages[i]
        BY <4>1
      <4>4. QED
        BY <3>2, <4>2, <4>3
    <3>3. QED
      BY <3>1, <3>2
  <2>3. g = Body(g)
    BY <2>1, <2>2
  <2>4. QED
    BY <2>3
<1>4. flatten = Body(flatten)
  BY <1>3
<1>5. PICK f : f = flatten
  OBVIOUS
<1>6. \A i \in 1 .. n : f[i] = IF i = 1 THEN pages[i] ELSE f[i - 1] \o pages[i]
  BY <1>4, <1>5
<1> HIDE DEF Body, flatten
<1> DEFINE Wrong == {i \in 1 .. n : f[i] # stages[i]}
<1>7. Wrong = {}
  <2>1. SUFFICES ASSUME Wrong # {} PROVE FALSE
    OBVIOUS
  <2>2. Wrong \in SUBSET Nat
    OBVIOUS
  <2>3. PICK i \in Wrong : \A j \in Wrong : i <= j
    BY <2>1, <2>2, LeastNumber
  <2>4. i # 1
    BY <1>6, <2>3
  <2>5. i - 1 \in 1 .. n /\ i - 1 \notin Wrong /\ i \in 2 .. n
    BY <2>3, <2>4
  <2>6. f[i] = stages[i]
    BY <1>6, <2>5
  <2>7. QED
    BY <2>3, <2>6
<1>8. QED
  BY <1>2, <1>5, <1>7

-----------------------------------------------------------------------------
(* The list and its pages.                                                 *)

MembershipsTyped == memberships \in Seq(Membership)

LEMMA MembershipsAreTyped == Spec => []MembershipsTyped
<1>1. Init => MembershipsTyped
  BY FirstRows DEF Init, MembershipsTyped
<1>2. MembershipsTyped /\ [Next]_vars => MembershipsTyped'
  <2>1. SUFFICES ASSUME MembershipsTyped, [Next]_vars PROVE MembershipsTyped'
    OBVIOUS
  <2>2. CASE UNCHANGED memberships
    BY <2>1, <2>2 DEF MembershipsTyped
  <2>3. ASSUME NEW p \in People, NEW type \in Types, ApproveMembership(p, type)
        PROVE  MembershipsTyped'
    <3>1. [person |-> p, type |-> type, current |-> TRUE] \in Membership
      BY DEF Membership
    <3>2. QED
      BY <2>1, <2>3, <3>1, AppendProperties DEF ApproveMembership, MembershipsTyped
  <2>4. ASSUME NEW m \in DOMAIN memberships, TransitionLifecycle(m)
        PROVE  MembershipsTyped'
    <3>1. memberships[m] \in Membership
      BY <2>1, <2>4 DEF MembershipsTyped
    <3>2. [memberships[m] EXCEPT !.current = FALSE] \in Membership
      BY <3>1 DEF Membership
    <3>3. QED
      BY <2>1, <2>4, <3>2, ExceptSeq DEF TransitionLifecycle, MembershipsTyped
  <2>5. CASE RecordStep
    BY <2>2, <2>3, <2>4, <2>5
       DEF RecordStep, DeactivatePerson, GrantMemberAccess, RevokeMemberAccess,
           ArchiveContactMethod
  <2>6. CASE ChoiceStep
    BY <2>2, <2>6
       DEF ChoiceStep, SetDirectoryVisibility, CreateVisibilityEvent, ClockMoves, records
  <2>7. CASE ReadStep
    BY <2>2, <2>7
       DEF ReadStep, DirectoryPage, DirectoryPrint, ListAsks, ListCounts,
           ListReadsEntries, ListReadsContacts, Rendered, records
  <2>8. QED
    BY <2>1, <2>2, <2>5, <2>6, <2>7 DEF Next, vars, records
<1>3. QED
  BY <1>1, <1>2, PTL DEF Spec

LEMMA PopulationIsFinite ==
  ASSUME MembershipsTyped, NEW filter
  PROVE  /\ Population(filter) \subseteq 1 .. Len(memberships)
         /\ Len(memberships) \in Nat
         /\ IsFiniteSet(Population(filter))
         /\ CountDirectoryEntries(filter) \in 0 .. Len(memberships)
<1>1. Len(memberships) \in Nat /\ DOMAIN memberships = 1 .. Len(memberships)
  BY LenProperties DEF MembershipsTyped
<1>2. Population(filter) \subseteq 1 .. Len(memberships)
  BY <1>1 DEF Population
<1>3. /\ IsFiniteSet(1 .. Len(memberships))
      /\ Cardinality(1 .. Len(memberships)) = Len(memberships)
  <2>1. \A n \in Nat : IsFiniteSet(1 .. n) /\ Cardinality(1 .. n) = n
    BY FS_Interval
  <2>2. QED
    BY <1>1, <2>1
<1>4. /\ IsFiniteSet(Population(filter))
      /\ Cardinality(Population(filter)) <= Len(memberships)
  BY <1>2, <1>3, FS_Subset
<1>5. Cardinality(Population(filter)) \in Nat
  BY <1>4, FS_CardinalityType
<1>6. QED
  BY <1>1, <1>2, <1>4, <1>5 DEF CountDirectoryEntries

\* Both orders put any two rows one after the other.
LEMMA OrdersOfTheList ==
  ASSUME MembershipsTyped, NEW sort, NEW filter
  PROVE  IsOrder(Order(sort, Population(filter)), Population(filter))
<1> DEFINE P == Population(filter)
<1>1. ASSUME NEW m \in P
      PROVE  /\ m \in Nat /\ memberships[m].person \in Nat
             /\ Sign[memberships[m].person] \in Nat
  <2>1. m \in 1 .. Len(memberships) /\ Len(memberships) \in Nat
    BY <1>1, PopulationIsFinite
  <2>2. memberships[m] \in Membership
    BY <2>1, ElementOfSeq DEF MembershipsTyped
  <2>3. memberships[m].person \in People
    BY <2>2 DEF Membership
  <2>4. QED
    BY <2>1, <2>3, PeopleAreNumbers, DirectoryRecords
<1>2. \A m, n \in P : <<m, n>> \in Order(sort, P) <=> Before(sort, m, n)
  BY DEF Order
<1> HIDE DEF P
<1>3. \A m \in P : ~ Before(sort, m, m)
  BY <1>1 DEF Before, ByName, ByCallSign
<1>4. \A m, n \in P : m = n \/ Before(sort, m, n) \/ Before(sort, n, m)
  BY <1>1 DEF Before, ByName, ByCallSign
<1>5. \A m, n, k \in P : Before(sort, m, n) /\ Before(sort, n, k) => Before(sort, m, k)
  BY <1>1 DEF Before, ByName, ByCallSign
<1>6. IsOrder(Order(sort, P), P)
  BY <1>2, <1>3, <1>4, <1>5 DEF IsOrder
<1>7. QED
  BY <1>6 DEF P

LEMMA ListIsWhole ==
  ASSUME MembershipsTyped, NEW sort, NEW filter
  PROVE  /\ Ordered(sort, filter) \in Seq(Population(filter))
         /\ Len(Ordered(sort, filter)) = CountDirectoryEntries(filter)
<1>1. IsFiniteSet(Population(filter))
  BY PopulationIsFinite
<1>2. IsOrder(Order(sort, Population(filter)), Population(filter))
  BY OrdersOfTheList
<1>3. QED
  BY <1>1, <1>2, RankedIsSorted DEF Ordered, CountDirectoryEntries

\* How many rows a page has, and the i-th page of a list, as a reader who
\* follows the links asks for it.
Served(limit) == Limited(limit, FALSE)

PageQuery(sort, filter, limit, i) ==
  DirectoryQueryFrom(sort, filter, limit, (i - 1) * Served(limit), FALSE)

LEMMA LimitsArePositive ==
  ASSUME NEW limit \in Limits
  PROVE  Served(limit) \in Nat \ {0}
BY PagesAreNumbers, DirectoryRecords DEF Served, Limited, Least

LEMMA PageIsCut ==
  ASSUME MembershipsTyped, NEW sort \in Sorts, NEW filter, NEW limit \in Limits,
         NEW i \in Nat \ {0}, NEW L, L = Served(limit),
         NEW N, N = CountDirectoryEntries(filter),
         NEW q, q = PageQuery(sort, filter, limit, i)
  PROVE  /\ Entries(q) = SubSeq(Ordered(sort, filter), (i - 1) * L + 1, Least(i * L, N))
         /\ HasNext(q) <=> i * L < N
         /\ ContactsFor(q) = Shown(Entries(q))
<1>1. L \in Nat \ {0} /\ N \in Nat
  BY LimitsArePositive, PopulationIsFinite
<1>2. q = [sort |-> sort, filter |-> filter, limit |-> L, offset |-> (i - 1) * L]
  BY DEF PageQuery, DirectoryQueryFrom, Served
<1>3. PICK a \in Nat : a = (i - 1) * L /\ i * L = a + L
  BY <1>1, Multiples
<1>4. /\ [q EXCEPT !.sort = sort] = q
      /\ sort = "name" => [q EXCEPT !.sort = "name"] = q
      /\ sort # "name" => [q EXCEPT !.sort = "call_sign"] = q
  BY <1>2 DEF Sorts
<1>5. Entries(q) = Bounds(q) /\ ContactsFor(q) = Shown(Bounds(q))
  BY <1>2, <1>4 DEF Entries, ContactsFor, ListDirectoryEntries, ListDirectoryContacts,
                    ListDirectoryEntriesByCallSign, ListDirectoryContactsByCallSign
<1>6. PICK s : s = Ordered(sort, filter)
  OBVIOUS
<1>7. Bounds(q) = SubSeq(s, a + 1, Least(a + L, N))
  <2>1. q.sort = sort /\ q.filter = filter /\ q.offset = a /\ q.limit = L
    BY <1>2, <1>3
  <2>2. QED
    BY <1>6, <2>1, Zenon DEF Bounds
<1>8. HasNext(q) <=> a + L < N
  <2>1. \A k \in 1 .. N : s[k] \in Population(filter)
    BY <1>6, ListIsWhole
  <2>2. PICK b \in Nat : b = Least(a + L, N)
    BY <1>1, <1>3 DEF Least
  <2>3. b <= N
    BY <1>1, <2>2 DEF Least
  <2>4. Len(SubSeq(s, a + 1, b)) = IF a + 1 <= b THEN b - a ELSE 0
    BY <2>1, <2>3, <1>1, SubSeqProperties
  <2>5. HasNext(q) <=> a + Len(SubSeq(s, a + 1, b)) < N
    BY <1>2, <1>3, <1>5, <1>7, <2>2 DEF HasNext
  <2>6. QED
    BY <1>1, <2>2, <2>4, <2>5 DEF Least
<1>9. QED
  BY <1>3, <1>5, <1>6, <1>7, <1>8

LEMMA LinksEnd ==
  ASSUME NEW M \in Nat, NEW N \in 0 .. M, NEW L \in Nat \ {0}
  PROVE  \E i \in 1 .. M + 1 : N <= i * L /\ \A j \in 1 .. i - 1 : j * L < N
<1> DEFINE T == {i \in Nat \ {0} : N <= i * L}
<1>1. N + 1 \in T
  BY Multiples
<1>2. T \in SUBSET Nat
  OBVIOUS
<1>3. PICK i \in T : \A j \in T : i <= j
  BY <1>1, <1>2, LeastNumber
<1>4. i \in 1 .. M + 1
  BY <1>1, <1>3
<1>5. ASSUME NEW j \in 1 .. i - 1 PROVE j * L < N
  <2>1. j \notin T /\ j \in Nat \ {0} /\ j * L \in Nat
    BY <1>3, <1>5, Multiples
  <2>2. QED
    BY <2>1
<1>6. QED
  BY <1>3, <1>4, <1>5

LEMMA PagesOfTheList ==
  ASSUME MembershipsTyped, NEW sort \in Sorts, NEW filter, NEW limit \in Limits,
         NEW last \in Nat \ {0}, NEW N, N = CountDirectoryEntries(filter),
         N <= last * Served(limit),
         \A j \in 1 .. last - 1 : j * Served(limit) < N
  PROVE  FlattenSeq([i \in 1 .. last |-> Entries(PageQuery(sort, filter, limit, i))])
           = Ordered(sort, filter)
<1>1. PICK L \in Nat \ {0} : L = Served(limit)
  BY LimitsArePositive
<1>2. N \in Nat
  BY PopulationIsFinite
<1>3. PICK P : P = Population(filter)
  OBVIOUS
<1>4. PICK s \in Seq(P) : s = Ordered(sort, filter) /\ Len(s) = N
  BY <1>3, ListIsWhole
<1>5. PICK pages : pages = [i \in 1 .. last |-> Entries(PageQuery(sort, filter, limit, i))]
  OBVIOUS
<1>6. PICK stages : stages = [i \in 1 .. last |-> SubSeq(s, 1, Least(i * L, N))]
  OBVIOUS
<1>7. ASSUME NEW i \in 1 .. last
      PROVE  pages[i] = SubSeq(s, (i - 1) * L + 1, Least(i * L, N))
  <2>1. i \in Nat \ {0} /\ pages[i] = Entries(PageQuery(sort, filter, limit, i))
    BY <1>5
  <2>2. PICK q : q = PageQuery(sort, filter, limit, i)
    OBVIOUS
  <2>3. Entries(q) = SubSeq(Ordered(sort, filter), (i - 1) * L + 1, Least(i * L, N))
    BY <1>1, <2>1, <2>2, PageIsCut
  <2>4. QED
    BY <1>4, <2>1, <2>2, <2>3
<1>8. \A i \in 1 .. last : stages[i] = SubSeq(s, 1, Least(i * L, N))
  BY <1>6
<1>9. stages[1] = pages[1]
  <2>1. (1 - 1) * L + 1 = 1 /\ 1 \in 1 .. last
    OBVIOUS
  <2>2. pages[1] = SubSeq(s, (1 - 1) * L + 1, Least(1 * L, N))
    BY <1>7, <2>1
  <2>3. stages[1] = SubSeq(s, 1, Least(1 * L, N))
    BY <1>8, <2>1
  <2>4. QED
    BY <2>1, <2>2, <2>3
<1>10. ASSUME NEW i \in 2 .. last
       PROVE  stages[i] = stages[i - 1] \o pages[i]
  <2>1. PICK a \in Nat : a = (i - 1) * L /\ i * L = a + L
    BY Multiples
  <2>2. i - 1 \in 1 .. last - 1 /\ i \in 1 .. last /\ i - 1 \in 1 .. last
    OBVIOUS
  <2>3. a < N
    BY <1>1, <2>1, <2>2
  <2>4. PICK b \in Nat : b = Least(i * L, N) /\ a <= b /\ b <= N
    BY <1>2, <2>1, <2>3 DEF Least
  <2>5. Least((i - 1) * L, N) = a
    BY <1>2, <2>1, <2>3 DEF Least
  <2>6. stages[i - 1] = SubSeq(s, 1, a) /\ stages[i] = SubSeq(s, 1, b)
    BY <1>8, <2>2, <2>4, <2>5
  <2>7. pages[i] = SubSeq(s, a + 1, b)
    BY <1>7, <2>1, <2>2, <2>4
  <2>8. 1 \in 1 .. Len(s) + 1 /\ a \in 1 - 1 .. Len(s) /\ b \in a .. Len(s)
    BY <1>4, <2>4
  <2>9. SubSeq(s, 1, a) \o SubSeq(s, a + 1, b) = SubSeq(s, 1, b)
    BY <1>4, <2>8, ConcatAdjacentSubSeq
  <2>10. QED
    BY <2>6, <2>7, <2>9
<1>11. FlattenSeq(pages) = stages[last]
  <2>1. DOMAIN stages = 1 .. last
    BY <1>6
  <2>2. PICK S : S = {pages[i] : i \in 1 .. last}
    OBVIOUS
  <2>3. pages \in [1 .. last -> S]
    BY <1>5, <2>2
  <2>4. QED
    BY <1>9, <1>10, <2>1, <2>3, FlattenedByStages
<1>12. stages[last] = s
  <2>1. last * L \in Nat /\ last \in 1 .. last
    BY Multiples
  <2>2. Least(last * L, N) = N
    BY <1>1, <1>2, <2>1 DEF Least
  <2>3. QED
    BY <1>4, <1>8, <2>1, <2>2, SubSeqFull
<1>13. QED
  BY <1>4, <1>5, <1>11, <1>12

\* A reader of the directory who follows the links (the page's "next" of
\* directoryPage) meets every row once, in the order asked for, for lists and
\* pages of any length; the contacts of a page are those of its rows.
THEOREM PagesAreTheList == Spec => []PagesAddUp
<1>1. ASSUME MembershipsTyped
      PROVE  PagesAddUp
  <2>1. SUFFICES ASSUME NEW sort \in Sorts, NEW filter \in Filters, NEW limit \in Limits
                 PROVE  LET q(i) == DirectoryQueryFrom(sort, filter, limit,
                                      (i - 1) * Limited(limit, FALSE), FALSE)
                            last == CHOOSE i \in 1 .. Len(memberships) + 1 :
                                      ~HasNext(q(i)) /\ \A j \in 1 .. i - 1 : HasNext(q(j))
                        IN /\ FlattenSeq([i \in 1 .. last |-> Entries(q(i))])
                                = Ordered(sort, filter)
                           /\ \A i \in 1 .. last : ContactsFor(q(i)) = Shown(Entries(q(i)))
    BY DEF PagesAddUp
  <2> DEFINE q(i) == PageQuery(sort, filter, limit, i)
             last == CHOOSE i \in 1 .. Len(memberships) + 1 :
                       ~HasNext(q(i)) /\ \A j \in 1 .. i - 1 : HasNext(q(j))
  <2>2. PICK L \in Nat \ {0} : L = Served(limit)
    BY LimitsArePositive
  <2>3. PICK M \in Nat : M = Len(memberships)
    BY <1>1, PopulationIsFinite
  <2>4. PICK N \in 0 .. M : N = CountDirectoryEntries(filter)
    BY <1>1, <2>3, PopulationIsFinite
  <2>5. \A i \in Nat \ {0} : HasNext(q(i)) <=> i * L < N
    BY <1>1, <2>2, <2>4, PageIsCut
  <2>6. \E i \in 1 .. M + 1 : ~HasNext(q(i)) /\ \A j \in 1 .. i - 1 : HasNext(q(j))
    <3>1. PICK i \in 1 .. M + 1 : N <= i * L /\ \A j \in 1 .. i - 1 : j * L < N
      BY LinksEnd
    <3>2. i * L \in Nat /\ i \in Nat \ {0} /\ \A j \in 1 .. i - 1 : j \in Nat \ {0}
      BY Multiples
    <3>3. ~ (i * L < N)
      BY <3>1, <3>2
    <3>4. ~ HasNext(q(i)) /\ \A j \in 1 .. i - 1 : HasNext(q(j))
      BY <2>5, <3>1, <3>2, <3>3
    <3>5. QED
      BY <3>4
  <2>7. /\ last \in 1 .. M + 1
        /\ ~HasNext(q(last)) /\ \A j \in 1 .. last - 1 : HasNext(q(j))
    BY <2>3, <2>6
  <2>8. PICK n \in Nat \ {0} : n = last
    BY <2>7
  <2>9. N <= n * L /\ \A j \in 1 .. n - 1 : j * L < N
    <3>1. n * L \in Nat /\ \A j \in 1 .. n - 1 : j \in Nat \ {0}
      BY Multiples
    <3>2. QED
      BY <2>5, <2>7, <2>8, <3>1
  <2>10. FlattenSeq([i \in 1 .. n |-> Entries(q(i))]) = Ordered(sort, filter)
    BY <1>1, <2>2, <2>4, <2>9, PagesOfTheList
  <2>11. \A i \in 1 .. n : ContactsFor(q(i)) = Shown(Entries(q(i)))
    <3>1. \A i \in 1 .. n : i \in Nat \ {0}
      OBVIOUS
    <3>2. QED
      BY <1>1, <2>2, <2>4, <3>1, PageIsCut
  <2>12. QED
    BY <2>8, <2>10, <2>11 DEF PageQuery, Served
<1>2. QED
  BY <1>1, MembershipsAreTyped, PTL

=============================================================================
