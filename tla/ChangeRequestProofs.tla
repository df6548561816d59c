------------------------- MODULE ChangeRequestProofs ------------------------
(***************************************************************************)
(* Theorems about the members' records, the review of requests to change   *)
(* them and the form members file them with, for every value of the        *)
(* constants: any number of officers, requests, items and records.         *)
(***************************************************************************)
EXTENDS Suggestions, RankingProofs, SequenceTheorems, FiniteSetTheorems, TLAPS

-----------------------------------------------------------------------------
(* What the writes store.                                                  *)

LEMMA ContactsAreNumbered ==
  ASSUME NEW rows \in Seq(Contact)
  PROVE  DOMAIN rows = 1 .. Len(rows) /\ Len(rows) \in Nat
OBVIOUS

LEMMA RewrittenIsTyped ==
  ASSUME NEW row \in Contact, NEW text \in Texts,
         NEW primary \in BOOLEAN, NEW archived \in BOOLEAN
  PROVE  Rewritten(row, text, primary, archived) \in Contact
BY DEF Rewritten, Contact

LEMMA NewContactIsTyped ==
  ASSUME NEW p \in People, NEW kind \in Kinds, NEW text \in Texts,
         NEW primary \in BOOLEAN
  PROVE  NewContact(p, kind, text, primary) \in Contact
BY DEF NewContact, Contact

LEMMA ClearPrimaryIsTyped ==
  ASSUME NEW rows \in Seq(Contact), NEW p
  PROVE  /\ ClearPrimary(rows, p) \in Seq(Contact)
         /\ DOMAIN ClearPrimary(rows, p) = DOMAIN rows
<1>1. ASSUME NEW c \in DOMAIN rows
      PROVE  ClearPrimary(rows, p)[c] \in Contact
  <2>1. rows[c] \in Contact
    OBVIOUS
  <2>2. rows[c].text \in Texts
    BY <2>1 DEF Contact
  <2>3. Rewritten(rows[c], rows[c].text, FALSE, FALSE) \in Contact
    BY <2>1, <2>2, RewrittenIsTyped
  <2>4. QED
    BY <2>1, <2>3 DEF ClearPrimary
<1>2. DOMAIN ClearPrimary(rows, p) = DOMAIN rows
  BY DEF ClearPrimary
<1>3. ClearPrimary(rows, p) \in [1 .. Len(rows) -> Contact]
  BY <1>1, <1>2, ContactsAreNumbered DEF ClearPrimary
<1>4. QED
  BY <1>2, <1>3, ContactsAreNumbered, SeqDef

LEMMA SetPrimaryIsTyped ==
  ASSUME NEW rows \in Seq(Contact), NEW c \in DOMAIN rows
  PROVE  /\ SetPrimary(rows, c) \in Seq(Contact)
         /\ DOMAIN SetPrimary(rows, c) = DOMAIN rows
<1>1. rows[c] \in Contact
  OBVIOUS
<1>2. rows[c].text \in Texts /\ rows[c].archived \in BOOLEAN
  BY <1>1 DEF Contact
<1>3. Rewritten(rows[c], rows[c].text, TRUE, rows[c].archived) \in Contact
  BY <1>1, <1>2, RewrittenIsTyped
<1>4. c \in 1 .. Len(rows)
  BY ContactsAreNumbered
<1>5. SetPrimary(rows, c) =
        [rows EXCEPT ![c] = Rewritten(rows[c], rows[c].text, TRUE, rows[c].archived)]
  BY DEF SetPrimary
<1>6. [rows EXCEPT ![c] = Rewritten(rows[c], rows[c].text, TRUE, rows[c].archived)]
        \in Seq(Contact)
  BY <1>3, <1>4, ExceptSeq
<1>7. QED
  BY <1>5, <1>6

LEMMA WritePersonIsTyped ==
  ASSUME RecordsTypeOK, NEW p \in People, NEW name \in Texts,
         NEW sign \in Maybe, NEW licence \in Maybe,
         WritePerson(p, name, sign, licence)
  PROVE  persons' \in [People -> Person]
<1>1. persons[p] \in Person
  BY DEF RecordsTypeOK
<1>2. [name |-> name, sign |-> sign, licence |-> licence,
       active |-> persons[p].active, version |-> persons[p].version + 1] \in Person
  BY <1>1 DEF Person
<1>3. QED
  BY <1>2 DEF WritePerson, RecordsTypeOK

LEMMA UpdateTextIsTyped ==
  ASSUME RecordsTypeOK, NEW c \in ContactIds, NEW text \in Texts, UpdateText(c, text)
  PROVE  contacts' \in Seq(Contact)
<1>1. contacts[c] \in Contact
  BY DEF RecordsTypeOK, ContactIds
<1>2. contacts[c].primary \in BOOLEAN /\ contacts[c].archived \in BOOLEAN
  BY <1>1 DEF Contact
<1>3. Rewritten(contacts[c], text, contacts[c].primary, contacts[c].archived) \in Contact
  BY <1>1, <1>2, RewrittenIsTyped
<1>4. contacts \in Seq(Contact) /\ c \in 1 .. Len(contacts)
  BY ContactsAreNumbered DEF RecordsTypeOK, ContactIds
<1>5. QED
  BY <1>3, <1>4, ExceptSeq DEF UpdateText

LEMMA ArchiveIsTyped ==
  ASSUME RecordsTypeOK, NEW c \in ContactIds, Archive(c)
  PROVE  contacts' \in Seq(Contact)
<1>1. contacts[c] \in Contact
  BY DEF RecordsTypeOK, ContactIds
<1>2. contacts[c].primary \in BOOLEAN /\ contacts[c].text \in Texts
  BY <1>1 DEF Contact
<1>3. Rewritten(contacts[c], contacts[c].text, contacts[c].primary, TRUE) \in Contact
  BY <1>1, <1>2, RewrittenIsTyped
<1>4. contacts \in Seq(Contact) /\ c \in 1 .. Len(contacts)
  BY ContactsAreNumbered DEF RecordsTypeOK, ContactIds
<1>5. QED
  BY <1>3, <1>4, ExceptSeq DEF Archive

LEMMA PreferenceIsTyped ==
  ASSUME RecordsTypeOK, NEW of \in Nat, NEW text \in Texts, NEW source \in Sources
  PROVE  /\ RecordVisibility(of, text, source) => visibility' \in Seq(Choice)
         /\ RecordSharing(of, text, source) => sharing' \in Seq(Choice)
<1>1. [of |-> of, text |-> text, source |-> source] \in Choice
  BY DEF Choice
<1>2. visibility \in Seq(Choice) /\ sharing \in Seq(Choice)
  BY DEF RecordsTypeOK
<1>3. /\ Append(visibility, [of |-> of, text |-> text, source |-> source]) \in Seq(Choice)
      /\ Append(sharing, [of |-> of, text |-> text, source |-> source]) \in Seq(Choice)
  BY <1>1, <1>2, AppendProperties
<1>4. QED
  BY <1>3 DEF RecordVisibility, RecordSharing

LEMMA PersonIsAnId ==
  \A p \in People : p \in Nat /\ p # 0
BY PeopleAreIds

LEMMA ContactIdIsAnId ==
  ASSUME RecordsTypeOK
  PROVE  \A c \in ContactIds : c \in Nat /\ c # 0
BY DEF RecordsTypeOK, ContactIds

-----------------------------------------------------------------------------
(* Type correctness.                                                       *)

LEMMA RecordsStepIsTyped ==
  ASSUME RecordsTypeOK, RecordsNext
  PROVE  RecordsTypeOK'
<1>1. ASSUME NEW p \in People, NEW name \in Texts, NEW sign \in Maybe,
             NEW licence \in Maybe, UpdatePerson(p, name, sign, licence)
      PROVE  RecordsTypeOK'
  <2>1. persons' \in [People -> Person]
    BY <1>1, WritePersonIsTyped DEF UpdatePerson
  <2>2. UNCHANGED <<contacts, visibility, sharing, pending>>
    BY <1>1 DEF UpdatePerson
  <2>3. QED
    BY <2>1, <2>2 DEF RecordsTypeOK
<1>2. ASSUME NEW p \in People, NEW active \in BOOLEAN, SetActive(p, active)
      PROVE  RecordsTypeOK'
  <2>1. persons[p] \in Person
    BY DEF RecordsTypeOK
  <2>2. [name |-> persons[p].name, sign |-> persons[p].sign,
         licence |-> persons[p].licence, active |-> active,
         version |-> persons[p].version + 1] \in Person
    BY <2>1 DEF Person
  <2>3. persons' \in [People -> Person]
    BY <1>2, <2>2 DEF SetActive, RecordsTypeOK
  <2>4. UNCHANGED <<contacts, visibility, sharing, pending>>
    BY <1>2 DEF SetActive
  <2>5. QED
    BY <2>3, <2>4 DEF RecordsTypeOK
<1>3. ASSUME NEW p \in People, NEW kind \in Kinds, NEW text \in Texts,
             CreateContactMethod(p, kind, text)
      PROVE  RecordsTypeOK'
  <2>1. NewContact(p, kind, text, FALSE) \in Contact
    BY NewContactIsTyped
  <2>2. contacts' \in Seq(Contact)
    BY <1>3, <2>1, AppendProperties DEF CreateContactMethod, RecordsTypeOK
  <2>3. UNCHANGED <<persons, visibility, sharing, pending>>
    BY <1>3 DEF CreateContactMethod
  <2>4. QED
    BY <2>2, <2>3 DEF RecordsTypeOK
<1>4. ASSUME NEW c \in ContactIds, ArchiveContactMethod(c)
      PROVE  RecordsTypeOK'
  <2>1. contacts' \in Seq(Contact)
    BY <1>4, ArchiveIsTyped DEF ArchiveContactMethod
  <2>2. UNCHANGED <<persons, visibility, sharing, pending>>
    BY <1>4 DEF ArchiveContactMethod
  <2>3. QED
    BY <2>1, <2>2 DEF RecordsTypeOK
<1>5. ASSUME NEW c \in ContactIds, NEW text \in Texts, SetDirectoryVisibility(c, text)
      PROVE  RecordsTypeOK'
  <2>1. visibility' \in Seq(Choice)
    BY <1>5, ContactIdIsAnId, PreferenceIsTyped DEF SetDirectoryVisibility, Sources
  <2>2. UNCHANGED <<persons, contacts, sharing, pending>>
    BY <1>5 DEF SetDirectoryVisibility
  <2>3. QED
    BY <2>1, <2>2 DEF RecordsTypeOK
<1>6. ASSUME NEW p \in People, NEW text \in Texts, SetAcsAresSharing(p, text)
      PROVE  RecordsTypeOK'
  <2>1. sharing' \in Seq(Choice)
    BY <1>6, PersonIsAnId, PreferenceIsTyped DEF SetAcsAresSharing, Sources
  <2>2. UNCHANGED <<persons, contacts, visibility, pending>>
    BY <1>6 DEF SetAcsAresSharing
  <2>3. QED
    BY <2>1, <2>2 DEF RecordsTypeOK
<1>7. ASSUME NEW call \in Calls, NEW p \in People, NEW kind \in Kinds,
             NEW text \in Texts, ClearForNew(call, p, kind, text)
      PROVE  RecordsTypeOK'
  <2>1. contacts' \in Seq(Contact)
    BY <1>7, ClearPrimaryIsTyped DEF ClearForNew, RecordsTypeOK
  <2>2. [call |-> call, contact |-> 0, owner |-> p, kind |-> kind, text |-> text]
          \in Statement
    BY DEF Statement, Maybe
  <2>3. pending' \subseteq Statement
    BY <1>7, <2>2 DEF ClearForNew, RecordsTypeOK
  <2>4. UNCHANGED <<persons, visibility, sharing>>
    BY <1>7 DEF ClearForNew
  <2>5. QED
    BY <2>1, <2>3, <2>4 DEF RecordsTypeOK
<1>8. ASSUME NEW call \in Calls, NEW c \in ContactIds, ClearForMark(call, c)
      PROVE  RecordsTypeOK'
  <2>1. contacts[c] \in Contact /\ c \in Nat /\ c # 0
    BY DEF RecordsTypeOK, ContactIds
  <2>2. contacts[c].owner \in People /\ contacts[c].kind \in Kinds
    BY <2>1 DEF Contact
  <2>3. [call |-> call, contact |-> c, owner |-> contacts[c].owner,
         kind |-> contacts[c].kind, text |-> NoText] \in Statement
    BY <2>1, <2>2 DEF Statement, Maybe
  <2>4. contacts' \in Seq(Contact)
    BY <1>8, ClearPrimaryIsTyped DEF ClearForMark, RecordsTypeOK
  <2>5. pending' \subseteq Statement
    BY <1>8, <2>3 DEF ClearForMark, RecordsTypeOK
  <2>6. UNCHANGED <<persons, visibility, sharing>>
    BY <1>8 DEF ClearForMark
  <2>7. QED
    BY <2>4, <2>5, <2>6 DEF RecordsTypeOK
<1>9. ASSUME NEW s \in pending, InsertPrimary(s)
      PROVE  RecordsTypeOK'
  <2>1. s \in Statement
    BY <1>9 DEF RecordsTypeOK
  <2>2. s.owner \in People /\ s.kind \in Kinds /\ s.text \in Texts
    BY <1>9, <2>1 DEF Statement, InsertPrimary
  <2>3. NewContact(s.owner, s.kind, s.text, TRUE) \in Contact
    BY <2>2, NewContactIsTyped
  <2>4. contacts' \in Seq(Contact)
    BY <1>9, <2>3, AppendProperties DEF InsertPrimary, RecordsTypeOK
  <2>5. pending' \subseteq Statement /\ UNCHANGED <<persons, visibility, sharing>>
    BY <1>9 DEF InsertPrimary, RecordsTypeOK
  <2>6. QED
    BY <2>4, <2>5 DEF RecordsTypeOK
<1>10. ASSUME NEW s \in pending, MarkPrimary(s)
      PROVE  RecordsTypeOK'
  <2>1. CASE s.contact \in DOMAIN contacts
    BY <1>10, <2>1, SetPrimaryIsTyped DEF MarkPrimary, RecordsTypeOK
  <2>2. CASE s.contact \notin DOMAIN contacts
    <3>1. contacts \in [DOMAIN contacts -> Contact]
      BY ContactsAreNumbered DEF RecordsTypeOK
    <3>2. SetPrimary(contacts, s.contact) = contacts
      BY <2>2, <3>1 DEF SetPrimary
    <3>3. QED
      BY <1>10, <3>2 DEF MarkPrimary, RecordsTypeOK
  <2>3. QED
    BY <2>1, <2>2
<1>11. ASSUME NEW s \in pending, LoseCall(s)
      PROVE  RecordsTypeOK'
  BY <1>11 DEF LoseCall, records, RecordsTypeOK
<1>12. QED
  BY <1>1, <1>2, <1>3, <1>4, <1>5, <1>6, <1>7, <1>8, <1>9, <1>10, <1>11
  DEF RecordsNext

\* Every row the records hold has its table's shape, whatever calls overlap.
THEOREM RecordsTypeCorrect == RecordsSpec => []RecordsTypeOK
<1>1. RecordsInit => RecordsTypeOK
  BY FirstRecords DEF RecordsInit, RecordsTypeOK
<1>2. RecordsTypeOK /\ [RecordsNext]_recordVars => RecordsTypeOK'
  <2>1. CASE RecordsNext
    BY <2>1, RecordsStepIsTyped
  <2>2. CASE UNCHANGED recordVars
    BY <2>2 DEF recordVars, RecordsTypeOK
  <2>3. QED
    BY <2>1, <2>2
<1>3. QED
  BY <1>1, <1>2, PTL DEF RecordsSpec

-----------------------------------------------------------------------------
(* Active primaries.                                                       *)

LEMMA PrimariesAreFinite ==
  ASSUME NEW rows \in Seq(Contact), NEW p
  PROVE  /\ IsFiniteSet(ActivePrimaries(rows, p))
         /\ Cardinality(ActivePrimaries(rows, p)) \in Nat
<1>1. IsFiniteSet(1 .. Len(rows))
  BY ContactsAreNumbered, FS_Interval
<1>2. ActivePrimaries(rows, p) \in SUBSET (1 .. Len(rows))
  BY ContactsAreNumbered DEF ActivePrimaries
<1>3. IsFiniteSet(ActivePrimaries(rows, p))
  BY <1>1, <1>2, FS_Subset
<1>4. QED
  BY <1>3, FS_CardinalityType

LEMMA ClearingLeavesNone ==
  ASSUME NEW rows \in Seq(Contact), NEW p
  PROVE  /\ ActivePrimaries(ClearPrimary(rows, p), p) = {}
         /\ \A q : q # p =>
              ActivePrimaries(ClearPrimary(rows, p), q) = ActivePrimaries(rows, q)
BY DEF ActivePrimaries, ClearPrimary, Rewritten

LEMMA MarkingAddsOne ==
  ASSUME NEW rows \in Seq(Contact), NEW c \in DOMAIN rows, NEW q
  PROVE  /\ ActivePrimaries(SetPrimary(rows, c), q) \subseteq
              ActivePrimaries(rows, q) \cup {c}
         /\ rows[c].owner # q =>
              ActivePrimaries(SetPrimary(rows, c), q) \subseteq
              ActivePrimaries(rows, q)
BY DEF ActivePrimaries, SetPrimary, Rewritten

LEMMA AddingAddsOne ==
  ASSUME NEW rows \in Seq(Contact), NEW p \in People, NEW kind \in Kinds,
         NEW text \in Texts, NEW primary \in BOOLEAN, NEW q
  PROVE  LET more == Append(rows, NewContact(p, kind, text, primary)) IN
         /\ ActivePrimaries(more, q) \subseteq
              ActivePrimaries(rows, q) \cup {Len(rows) + 1}
         /\ p # q \/ ~primary =>
              ActivePrimaries(more, q) \subseteq ActivePrimaries(rows, q)
         /\ \A c \in DOMAIN rows : c \in DOMAIN more /\ more[c] = rows[c]
<1> DEFINE row == NewContact(p, kind, text, primary)
           more == Append(rows, row)
<1>1. row.owner = p /\ row.primary = primary
  BY DEF NewContact
<1>2. /\ DOMAIN more = DOMAIN rows \cup {Len(rows) + 1}
      /\ more[Len(rows) + 1] = row
      /\ \A c \in DOMAIN rows : more[c] = rows[c]
  OBVIOUS
<1> HIDE DEF row, more
<1>3. /\ ActivePrimaries(more, q) \subseteq
           ActivePrimaries(rows, q) \cup {Len(rows) + 1}
      /\ p # q \/ ~primary =>
           ActivePrimaries(more, q) \subseteq ActivePrimaries(rows, q)
  BY <1>1, <1>2 DEF ActivePrimaries
<1>4. QED
  BY <1>2, <1>3 DEF more, row

\* One statement per call.
LEMMA MarkingIsBounded ==
  ASSUME NEW S \in SUBSET Statement, \A s, t \in S : s.call = t.call => s = t
  PROVE  IsFiniteSet(S) /\ Cardinality(S) <= Cardinality(Calls)
<1> DEFINE f == [s \in S |-> s.call]
<1>1. f \in [S -> Calls]
  BY DEF Statement
<1>2. \A s, t \in S : f[s] = f[t] => s = t
  OBVIOUS
<1>3. f \in Injection(S, Calls)
  BY <1>1, <1>2 DEF Injection, IsInjective
<1>4. QED
  BY <1>3, CallsAreFinite, FS_Injection

\* A step that adds no primary and no statement keeps the count.
LEMMA CountFalls ==
  ASSUME NEW A, NEW M, IsFiniteSet(A), IsFiniteSet(M),
         NEW B \in SUBSET A, NEW N \in SUBSET M, NEW k \in Nat,
         Cardinality(A) + Cardinality(M) <= k
  PROVE  Cardinality(B) + Cardinality(N) <= k
<1>1. Cardinality(A) \in Nat /\ Cardinality(M) \in Nat
  BY FS_CardinalityType
<1>2. IsFiniteSet(B) /\ Cardinality(B) <= Cardinality(A)
  BY FS_Subset
<1>3. IsFiniteSet(N) /\ Cardinality(N) <= Cardinality(M)
  BY FS_Subset
<1>4. Cardinality(B) \in Nat /\ Cardinality(N) \in Nat
  BY <1>2, <1>3, FS_CardinalityType
<1>5. QED
  BY <1>1, <1>2, <1>3, <1>4

\* A statement that ran became at most one primary.
LEMMA CountMoves ==
  ASSUME NEW A, NEW M, IsFiniteSet(A), IsFiniteSet(M), NEW x, NEW s \in M,
         NEW B \in SUBSET (A \cup {x}), NEW k \in Nat,
         Cardinality(A) + Cardinality(M) <= k
  PROVE  Cardinality(B) + Cardinality(M \ {s}) <= k
<1>1. Cardinality(A) \in Nat /\ Cardinality(M) \in Nat
  BY FS_CardinalityType
<1>2. IsFiniteSet(A \cup {x}) /\ Cardinality(A \cup {x}) <= Cardinality(A) + 1
  <2>1. /\ IsFiniteSet(A \cup {x})
        /\ Cardinality(A \cup {x}) =
             IF x \in A THEN Cardinality(A) ELSE Cardinality(A) + 1
    BY FS_AddElement
  <2>2. QED
    BY <1>1, <2>1
<1>3. IsFiniteSet(B) /\ Cardinality(B) <= Cardinality(A \cup {x})
  BY <1>2, FS_Subset
<1>4. Cardinality(A \cup {x}) \in Nat /\ Cardinality(B) \in Nat
  BY <1>2, <1>3, FS_CardinalityType
<1>5. Cardinality(M \ {s}) = Cardinality(M) - 1
  BY FS_RemoveElement
<1>6. QED
  BY <1>1, <1>2, <1>3, <1>4, <1>5

-----------------------------------------------------------------------------
(* One primary per call.                                                   *)

CallCount == Cardinality(Calls)

LEMMA CallCountIsNat == CallCount \in Nat
BY CallsAreFinite, FS_CardinalityType DEF CallCount

LEMMA StatementsAreFinite ==
  ASSUME RecordsTypeOK, PrimaryInv, NEW p
  PROVE  IsFiniteSet(Marking(p)) /\ Cardinality(Marking(p)) <= CallCount
<1>1. Marking(p) \in SUBSET Statement
  BY DEF Marking, RecordsTypeOK
<1>2. \A s, t \in Marking(p) : s.call = t.call => s = t
  BY DEF Marking, PrimaryInv
<1>3. QED
  BY <1>1, <1>2, MarkingIsBounded DEF CallCount

\* A step that takes primaries away, and statements, and moves no contact.
LEMMA TakingAwayKeepsTheCount ==
  ASSUME RecordsTypeOK, PrimaryInv, pending' \subseteq pending,
         \A c \in ContactIds :
           c \in ContactIds' /\ contacts'[c].owner = contacts[c].owner,
         \A p \in People :
           ActivePrimaries(contacts', p) \subseteq ActivePrimaries(contacts, p)
  PROVE  PrimaryInv'
<1>1. ASSUME NEW p \in People
      PROVE  Cardinality(ActivePrimaries(contacts', p)) + Cardinality(Marking(p)')
               <= Cardinality(Calls)
  <2>1. IsFiniteSet(ActivePrimaries(contacts, p))
    BY PrimariesAreFinite DEF RecordsTypeOK
  <2>2. Marking(p)' \subseteq Marking(p)
    BY DEF Marking
  <2>3. Cardinality(ActivePrimaries(contacts, p)) + Cardinality(Marking(p)) <= CallCount
    BY DEF PrimaryInv, CallCount
  <2>4. QED
    BY <2>1, <2>2, <2>3, StatementsAreFinite, CallCountIsNat, CountFalls DEF CallCount
<1>2. QED
  BY <1>1 DEF PrimaryInv

\* A step that runs statement s and may make x a primary of its person.
LEMMA WritingOneKeepsTheCount ==
  ASSUME RecordsTypeOK, PrimaryInv, NEW s \in pending, NEW x,
         pending' = pending \ {s},
         \A c \in ContactIds :
           c \in ContactIds' /\ contacts'[c].owner = contacts[c].owner,
         \A p \in People :
           /\ ActivePrimaries(contacts', p) \subseteq
                ActivePrimaries(contacts, p) \cup {x}
           /\ s.owner # p =>
                ActivePrimaries(contacts', p) \subseteq ActivePrimaries(contacts, p)
  PROVE  PrimaryInv'
<1>1. ASSUME NEW p \in People
      PROVE  Cardinality(ActivePrimaries(contacts', p)) + Cardinality(Marking(p)')
               <= Cardinality(Calls)
  <2>1. IsFiniteSet(ActivePrimaries(contacts, p))
    BY PrimariesAreFinite DEF RecordsTypeOK
  <2>2. Cardinality(ActivePrimaries(contacts, p)) + Cardinality(Marking(p)) <= CallCount
    BY DEF PrimaryInv, CallCount
  <2>3. CASE s.owner = p
    <3>1. s \in Marking(p) /\ Marking(p)' = Marking(p) \ {s}
      BY <2>3 DEF Marking
    <3>2. ActivePrimaries(contacts', p) \in SUBSET (ActivePrimaries(contacts, p) \cup {x})
      OBVIOUS
    <3>3. QED
      BY <2>1, <2>2, <3>1, <3>2, StatementsAreFinite, CallCountIsNat, CountMoves
      DEF CallCount
  <2>4. CASE s.owner # p
    <3>1. Marking(p)' \in SUBSET Marking(p)
      BY DEF Marking
    <3>2. ActivePrimaries(contacts', p) \in SUBSET ActivePrimaries(contacts, p)
      BY <2>4
    <3>3. QED
      BY <2>1, <2>2, <3>1, <3>2, StatementsAreFinite, CallCountIsNat, CountFalls
      DEF CallCount
  <2>5. QED
    BY <2>3, <2>4
<1>2. QED
  BY <1>1 DEF PrimaryInv

\* A step that clears the primaries of p and leaves a statement s to run.
LEMMA ClearingKeepsTheCount ==
  ASSUME RecordsTypeOK, RecordsTypeOK', PrimaryInv, NEW p \in People, NEW s,
         s.owner = p, \A t \in pending : t.call # s.call,
         s.contact # 0 => s.contact \in ContactIds /\ contacts[s.contact].owner = p,
         contacts' = ClearPrimary(contacts, p),
         pending' = pending \cup {s}
  PROVE  PrimaryInv'
<1>1. /\ ContactIds' = ContactIds
      /\ \A c \in ContactIds : contacts'[c].owner = contacts[c].owner
  BY DEF ContactIds, ClearPrimary, Rewritten
<1>2. \A t, u \in pending' : t.call = u.call => t = u
  BY DEF PrimaryInv
<1>3. \A t \in pending' : t.contact # 0 =>
        t.contact \in ContactIds' /\ contacts'[t.contact].owner = t.owner
  BY <1>1 DEF PrimaryInv
<1>4. ASSUME NEW q \in People
      PROVE  Cardinality(ActivePrimaries(contacts', q)) + Cardinality(Marking(q)')
               <= Cardinality(Calls)
  <2>1. CASE q = p
    <3>1. ActivePrimaries(contacts', q) = {}
      BY <2>1, ClearingLeavesNone DEF RecordsTypeOK
    <3>2. Marking(q)' \in SUBSET Statement
      BY DEF Marking, RecordsTypeOK
    <3>3. \A t, u \in Marking(q)' : t.call = u.call => t = u
      BY <1>2 DEF Marking
    <3>4. IsFiniteSet(Marking(q)') /\ Cardinality(Marking(q)') <= CallCount
      BY <3>2, <3>3, MarkingIsBounded DEF CallCount
    <3>5. Cardinality(Marking(q)') \in Nat
      BY <3>4, FS_CardinalityType
    <3>6. Cardinality(ActivePrimaries(contacts', q)) = 0
      BY <3>1, FS_EmptySet
    <3>7. QED
      BY <3>4, <3>5, <3>6, CallCountIsNat DEF CallCount
  <2>2. CASE q # p
    <3>1. ActivePrimaries(contacts', q) = ActivePrimaries(contacts, q)
      BY <2>2, ClearingLeavesNone DEF RecordsTypeOK
    <3>2. Marking(q)' = Marking(q)
      BY <2>2 DEF Marking
    <3>3. QED
      BY <3>1, <3>2 DEF PrimaryInv
  <2>3. QED
    BY <2>1, <2>2
<1>5. QED
  BY <1>2, <1>3, <1>4 DEF PrimaryInv

LEMMA RecordsStepKeepsTheCount ==
  ASSUME RecordsTypeOK, RecordsTypeOK', PrimaryInv, RecordsNext
  PROVE  PrimaryInv'
<1>1. ASSUME UNCHANGED <<contacts, pending>>
      PROVE  PrimaryInv'
  BY <1>1 DEF PrimaryInv, ContactIds, Marking
<1>2. ASSUME NEW p \in People, NEW name \in Texts, NEW sign \in Maybe,
             NEW licence \in Maybe, UpdatePerson(p, name, sign, licence)
      PROVE  PrimaryInv'
  BY <1>1, <1>2 DEF UpdatePerson
<1>3. ASSUME NEW p \in People, NEW active \in BOOLEAN, SetActive(p, active)
      PROVE  PrimaryInv'
  BY <1>1, <1>3 DEF SetActive
<1>4. ASSUME NEW p \in People, NEW kind \in Kinds, NEW text \in Texts,
             CreateContactMethod(p, kind, text)
      PROVE  PrimaryInv'
  <2>1. contacts' = Append(contacts, NewContact(p, kind, text, FALSE))
        /\ pending' = pending /\ contacts \in Seq(Contact)
    BY <1>4 DEF CreateContactMethod, RecordsTypeOK
  <2>2. \A q : ActivePrimaries(contacts', q) \subseteq ActivePrimaries(contacts, q)
    BY <2>1, AddingAddsOne
  <2>3. \A c \in ContactIds : c \in ContactIds' /\ contacts'[c] = contacts[c]
    BY <2>1, AddingAddsOne DEF ContactIds
  <2>4. QED
    BY <2>1, <2>2, <2>3, TakingAwayKeepsTheCount
<1>5. ASSUME NEW c \in ContactIds, ArchiveContactMethod(c)
      PROVE  PrimaryInv'
  <2>1. /\ contacts' = [contacts EXCEPT ![c] = Rewritten(contacts[c],
               contacts[c].text, contacts[c].primary, TRUE)]
        /\ pending' = pending
    BY <1>5 DEF ArchiveContactMethod, Archive
  <2>2. \A q : ActivePrimaries(contacts', q) \subseteq ActivePrimaries(contacts, q)
    BY <2>1 DEF ActivePrimaries, Rewritten
  <2>3. \A d \in ContactIds :
          d \in ContactIds' /\ contacts'[d].owner = contacts[d].owner
    BY <2>1 DEF ContactIds, Rewritten
  <2>4. QED
    BY <2>1, <2>2, <2>3, TakingAwayKeepsTheCount
<1>6. ASSUME NEW c \in ContactIds, NEW text \in Texts, SetDirectoryVisibility(c, text)
      PROVE  PrimaryInv'
  BY <1>1, <1>6 DEF SetDirectoryVisibility
<1>7. ASSUME NEW p \in People, NEW text \in Texts, SetAcsAresSharing(p, text)
      PROVE  PrimaryInv'
  BY <1>1, <1>7 DEF SetAcsAresSharing
<1>8. ASSUME NEW call \in Calls, NEW p \in People, NEW kind \in Kinds,
             NEW text \in Texts, ClearForNew(call, p, kind, text)
      PROVE  PrimaryInv'
  <2> DEFINE s == [call |-> call, contact |-> 0, owner |-> p, kind |-> kind,
                   text |-> text]
  <2>1. contacts' = ClearPrimary(contacts, p) /\ pending' = pending \cup {s}
    BY <1>8 DEF ClearForNew
  <2>2. \A t \in pending : t.call # s.call
    BY <1>8 DEF ClearForNew, Idle
  <2>3. s.owner = p /\ s.contact = 0
    OBVIOUS
  <2> HIDE DEF s
  <2>4. QED
    BY <2>1, <2>2, <2>3, ClearingKeepsTheCount
<1>9. ASSUME NEW call \in Calls, NEW c \in ContactIds, ClearForMark(call, c)
      PROVE  PrimaryInv'
  <2> DEFINE p == contacts[c].owner
             s == [call |-> call, contact |-> c, owner |-> p,
                   kind |-> contacts[c].kind, text |-> NoText]
  <2>1. contacts' = ClearPrimary(contacts, p) /\ pending' = pending \cup {s}
    BY <1>9 DEF ClearForMark
  <2>2. \A t \in pending : t.call # s.call
    BY <1>9 DEF ClearForMark, Idle
  <2>3. contacts[c] \in Contact
    BY DEF RecordsTypeOK, ContactIds
  <2>4. p \in People /\ s.owner = p /\ s.contact = c
    BY <2>3 DEF Contact
  <2> HIDE DEF s
  <2>5. s.contact # 0 => s.contact \in ContactIds /\ contacts[s.contact].owner = p
    BY <2>4
  <2> HIDE DEF p
  <2>6. QED
    BY <2>1, <2>2, <2>4, <2>5, ClearingKeepsTheCount
<1>10. ASSUME NEW s \in pending, InsertPrimary(s)
       PROVE  PrimaryInv'
  <2>1. s \in Statement /\ s.contact = 0 /\ contacts \in Seq(Contact)
    BY <1>10 DEF RecordsTypeOK, InsertPrimary
  <2>2. s.owner \in People /\ s.kind \in Kinds /\ s.text \in Texts
    BY <2>1 DEF Statement
  <2>3. /\ contacts' = Append(contacts, NewContact(s.owner, s.kind, s.text, TRUE))
        /\ pending' = pending \ {s}
    BY <1>10 DEF InsertPrimary
  <2>4. \A p \in People :
          /\ ActivePrimaries(contacts', p) \subseteq
               ActivePrimaries(contacts, p) \cup {Len(contacts) + 1}
          /\ s.owner # p =>
               ActivePrimaries(contacts', p) \subseteq ActivePrimaries(contacts, p)
    BY <2>1, <2>2, <2>3, AddingAddsOne
  <2>5. \A c \in ContactIds : c \in ContactIds' /\ contacts'[c] = contacts[c]
    BY <2>1, <2>2, <2>3, AddingAddsOne DEF ContactIds
  <2>6. QED
    BY <2>3, <2>4, <2>5, WritingOneKeepsTheCount
<1>11. ASSUME NEW s \in pending, MarkPrimary(s)
       PROVE  PrimaryInv'
  <2>1. /\ contacts \in Seq(Contact) /\ s.contact \in ContactIds
        /\ contacts[s.contact].owner = s.owner
    BY <1>11 DEF RecordsTypeOK, MarkPrimary, PrimaryInv
  <2>2. contacts' = SetPrimary(contacts, s.contact) /\ pending' = pending \ {s}
    BY <1>11 DEF MarkPrimary
  <2>3. \A p \in People :
          /\ ActivePrimaries(contacts', p) \subseteq
               ActivePrimaries(contacts, p) \cup {s.contact}
          /\ s.owner # p =>
               ActivePrimaries(contacts', p) \subseteq ActivePrimaries(contacts, p)
    BY <2>1, <2>2, MarkingAddsOne DEF ContactIds
  <2>4. \A c \in ContactIds :
          c \in ContactIds' /\ contacts'[c].owner = contacts[c].owner
    BY <2>2 DEF ContactIds, SetPrimary, Rewritten
  <2>5. QED
    BY <2>2, <2>3, <2>4, WritingOneKeepsTheCount
<1>12. ASSUME NEW s \in pending, LoseCall(s)
       PROVE  PrimaryInv'
  <2>1. contacts' = contacts /\ pending' \subseteq pending
    BY <1>12 DEF LoseCall, records
  <2>2. ContactIds' = ContactIds
    BY <2>1 DEF ContactIds
  <2>3. QED
    BY <2>1, <2>2, TakingAwayKeepsTheCount
<1>13. QED
  BY <1>2, <1>3, <1>4, <1>5, <1>6, <1>7, <1>8, <1>9, <1>10, <1>11, <1>12
  DEF RecordsNext

\* A member never has more active primary contacts than calls ran at once,
\* however many calls there are and wherever each of them stops; with a single
\* call at a time, never more than one.
THEOREM PrimariesBounded ==
  ASSUME Calls # {}
  PROVE  RecordsSpec => []OnePrimaryPerCall
<1>1. RecordsInit => PrimaryInv
  <2> SUFFICES ASSUME RecordsInit PROVE PrimaryInv
    OBVIOUS
  <2>1. pending = {} /\ contacts = FirstContacts
    BY DEF RecordsInit
  <2>2. CallCount # 0
    BY CallsAreFinite, FS_EmptySet DEF CallCount
  <2>3. ASSUME NEW p \in People
        PROVE  Cardinality(ActivePrimaries(contacts, p)) + Cardinality(Marking(p))
                 <= CallCount
    <3>1. Marking(p) = {}
      BY <2>1 DEF Marking
    <3>2. Cardinality(Marking(p)) = 0
      BY <3>1, FS_EmptySet
    <3>3. Cardinality(ActivePrimaries(contacts, p)) <= 1
      BY <2>1, OneFirstPrimary
    <3>4. Cardinality(ActivePrimaries(contacts, p)) \in Nat
      BY <2>1, FirstRecords, PrimariesAreFinite
    <3>5. QED
      BY <2>2, <3>2, <3>3, <3>4, CallCountIsNat
  <2>4. QED
    BY <2>1, <2>3 DEF PrimaryInv, CallCount
<1>2. RecordsTypeOK /\ RecordsTypeOK' /\ PrimaryInv /\ [RecordsNext]_recordVars
        => PrimaryInv'
  <2> SUFFICES ASSUME RecordsTypeOK, RecordsTypeOK', PrimaryInv, [RecordsNext]_recordVars
               PROVE  PrimaryInv'
    OBVIOUS
  <2>1. CASE RecordsNext
    BY <2>1, RecordsStepKeepsTheCount
  <2>2. CASE UNCHANGED recordVars
    BY <2>2 DEF recordVars, PrimaryInv, ContactIds, Marking
  <2>3. QED
    BY <2>1, <2>2
<1>3. RecordsTypeOK /\ PrimaryInv => OnePrimaryPerCall
  <2> SUFFICES ASSUME RecordsTypeOK, PrimaryInv, NEW p \in People
               PROVE  Cardinality(ActivePrimaries(contacts, p)) <= Cardinality(Calls)
    BY DEF OnePrimaryPerCall
  <2>1. Cardinality(ActivePrimaries(contacts, p)) \in Nat
    BY PrimariesAreFinite DEF RecordsTypeOK
  <2>2. Cardinality(Marking(p)) \in Nat
    BY StatementsAreFinite, FS_CardinalityType
  <2>3. Cardinality(ActivePrimaries(contacts, p)) + Cardinality(Marking(p)) <= CallCount
    BY DEF PrimaryInv, CallCount
  <2>4. QED
    BY <2>1, <2>2, <2>3, CallCountIsNat DEF CallCount
<1>4. QED
  BY <1>1, <1>2, <1>3, RecordsTypeCorrect, PTL DEF RecordsSpec

-----------------------------------------------------------------------------
(* What the operations store.                                              *)

LEMMA ItemsAreNumbered ==
  ASSUME TypeOK
  PROVE  /\ RequestIds = 1 .. Len(requests) /\ DOMAIN items = RequestIds
         /\ \A r \in RequestIds :
              /\ requests[r] \in Request
              /\ items[r] \in Seq(Item)
              /\ ItemIds(r) = 1 .. Len(items[r])
              /\ \A i \in ItemIds(r) : items[r][i] \in Item
BY DEF TypeOK, RequestIds, ItemIds

LEMMA RequestFields ==
  ASSUME NEW row \in Request
  PROVE  /\ row.requester \in Users \cup {NoUser}
         /\ row.person \in People \cup {0}
         /\ row.status \in {"submitted", "in_review", "resolved", "withdrawn"}
         /\ row.resolvedAt \in BOOLEAN /\ row.withdrawnAt \in BOOLEAN
         /\ row.version \in Nat
BY DEF Request

LEMMA ItemFields ==
  ASSUME NEW item \in Item
  PROVE  /\ item.proposal \in Proposal /\ item.seen \in Nat
         /\ item.status \in Verdicts \cup {"pending"}
         /\ item.version \in Nat /\ item.applied \in BOOLEAN
BY DEF Item

LEMMA ProposalFields ==
  ASSUME NEW proposal \in Proposal
  PROVE  /\ proposal.op \in Operations /\ proposal.target \in Nat
         /\ proposal.kind \in Kinds /\ proposal.text \in Texts
BY DEF Proposal

LEMMA WithStatusIsTyped ==
  ASSUME NEW row \in Request,
         NEW status \in {"submitted", "in_review", "resolved", "withdrawn"}
  PROVE  WithStatus(row, status) \in Request
BY RequestFields DEF WithStatus, Request

LEMMA FollowItemsIsTyped ==
  ASSUME NEW row \in Request, NEW its
  PROVE  FollowItems(row, its) \in Request
BY WithStatusIsTyped DEF FollowItems

LEMMA FiledIsTyped ==
  ASSUME NEW proposal \in Proposal, NEW seen \in Nat
  PROVE  Filed(proposal, seen) \in Item
BY DEF Filed, Item, Maybe

LEMMA DecidedIsTyped ==
  ASSUME NEW item \in Item, NEW verdict \in Verdicts, NEW u \in Users
  PROVE  Decided(item, verdict, u) \in Item
BY ItemFields DEF Decided, Item, Maybe

LEMMA StampedIsTyped ==
  ASSUME TypeOK, NEW item \in Item, NEW u \in Users, NEW text \in Texts
  PROVE  Stamped(item, u, text) \in Item
<1>1. item.proposal \in Proposal /\ item.seen \in Nat /\ item.version \in Nat
  BY ItemFields
<1>2. Made(item) \in Nat
  <2>1. item.proposal.target \in Nat
    BY <1>1, ProposalFields
  <2>2. Len(contacts) \in Nat /\ Len(visibility) \in Nat /\ Len(sharing) \in Nat
    BY DEF TypeOK, RecordsTypeOK
  <2>3. QED
    BY <2>1, <2>2 DEF Made
<1>3. Written(item, text) \in Maybe
  BY DEF Written, Maybe
<1>4. QED
  BY <1>1, <1>2, <1>3 DEF Stamped, Item, Verdicts

LEMMA SettleIsTyped ==
  ASSUME TypeOK, NEW r \in RequestIds, NEW i \in ItemIds(r), NEW item \in Item,
         Settle(r, i, item)
  PROVE  /\ requests' \in Seq(Request)
         /\ items' \in Seq(Seq(Item))
         /\ Len(items') = Len(requests')
         /\ items'[r] = [items[r] EXCEPT ![i] = item]
         /\ requests'[r] = FollowItems(requests[r], items'[r])
         /\ DOMAIN items' = DOMAIN items /\ DOMAIN requests' = DOMAIN requests
         /\ \A q \in RequestIds \ {r} :
              items'[q] = items[q] /\ requests'[q] = requests[q]
         /\ claims' = claims /\ pending' = pending
<1>1. /\ r \in 1 .. Len(requests) /\ r \in 1 .. Len(items)
      /\ requests[r] \in Request /\ items[r] \in Seq(Item)
      /\ i \in 1 .. Len(items[r])
      /\ requests \in Seq(Request) /\ items \in Seq(Seq(Item))
  BY ItemsAreNumbered DEF TypeOK
<1>2. [items[r] EXCEPT ![i] = item] \in Seq(Item)
  BY <1>1, ExceptSeq
<1>3. items' = [items EXCEPT ![r] = [items[r] EXCEPT ![i] = item]]
  BY DEF Settle
<1>4. items' \in Seq(Seq(Item)) /\ Len(items') = Len(items)
  BY <1>1, <1>2, <1>3, ExceptSeq
<1>5. FollowItems(requests[r], items'[r]) \in Request
  BY <1>1, FollowItemsIsTyped
<1>6. requests' = [requests EXCEPT ![r] = FollowItems(requests[r], items'[r])]
  BY DEF Settle
<1>7. requests' \in Seq(Request) /\ Len(requests') = Len(requests)
  BY <1>1, <1>5, <1>6, ExceptSeq
<1>8. /\ items'[r] = [items[r] EXCEPT ![i] = item]
      /\ \A q \in RequestIds \ {r} : items'[q] = items[q]
  BY <1>1, <1>3, ItemsAreNumbered
<1>9. /\ requests'[r] = FollowItems(requests[r], items'[r])
      /\ \A q \in RequestIds \ {r} : requests'[q] = requests[q]
  BY <1>1, <1>6, ItemsAreNumbered
<1>10. Len(items) = Len(requests)
  BY DEF TypeOK
<1>11. DOMAIN items' = DOMAIN items /\ DOMAIN requests' = DOMAIN requests
  BY <1>3, <1>6
<1>12. claims' = claims /\ pending' = pending
  BY DEF Settle
<1>13. QED
  BY <1>4, <1>7, <1>8, <1>9, <1>10, <1>11, <1>12

-----------------------------------------------------------------------------
(* Type correctness.                                                       *)

\* Every adapter stores records of the tables' shapes.
LEMMA ApplyIsTyped ==
  ASSUME TypeOK, NEW r \in RequestIds, NEW item \in Item, NEW text \in Texts,
         Apply(r, item, text), pending' = pending
  PROVE  RecordsTypeOK'
<1> DEFINE t == item.proposal.target
<1>0. RecordsTypeOK
  BY DEF TypeOK
<1>1. item.proposal \in Proposal /\ t \in Nat /\ item.proposal.kind \in Kinds
  BY ItemFields, ProposalFields
<1>2. CASE ApplyPersonUpdate(item, text)
  <2>1. t \in People /\ UNCHANGED <<contacts, visibility, sharing>>
    BY <1>2 DEF ApplyPersonUpdate
  <2>2. persons[t] \in Person
    BY <1>0, <2>1 DEF RecordsTypeOK
  <2>3. persons[t].name \in Texts /\ persons[t].sign \in Maybe
    BY <2>2 DEF Person
  <2>4. text \in Maybe /\ NoText \in Maybe
    BY DEF Maybe
  <2>5. \/ WritePerson(t, text, persons[t].sign, NoText)
        \/ WritePerson(t, persons[t].name, text, NoText)
    BY <1>2 DEF ApplyPersonUpdate
  <2>6. persons' \in [People -> Person]
    BY <1>0, <2>1, <2>3, <2>4, <2>5, WritePersonIsTyped
  <2>7. QED
    BY <1>0, <2>1, <2>6 DEF RecordsTypeOK
<1>3. CASE ApplyContactCreate(r, item, text)
  <2>1. /\ Beneficiary(r, item) \in People
        /\ contacts' = Append(contacts,
             NewContact(Beneficiary(r, item), item.proposal.kind, text, FALSE))
        /\ UNCHANGED <<persons, visibility, sharing>>
    BY <1>3 DEF ApplyContactCreate
  <2>2. NewContact(Beneficiary(r, item), item.proposal.kind, text, FALSE) \in Contact
    BY <1>1, <2>1, NewContactIsTyped
  <2>3. contacts' \in Seq(Contact)
    BY <1>0, <2>1, <2>2, AppendProperties DEF RecordsTypeOK
  <2>4. QED
    BY <1>0, <2>1, <2>3 DEF RecordsTypeOK
<1>4. CASE ApplyContactChange(item, text)
  <2>1. /\ t \in ContactIds
        /\ \/ UpdateText(t, text)
           \/ Archive(t)
           \/ contacts' = SetPrimary(ClearPrimary(contacts, contacts[t].owner), t)
        /\ UNCHANGED <<persons, visibility, sharing>>
    BY <1>4 DEF ApplyContactChange
  <2>2. ASSUME contacts' = SetPrimary(ClearPrimary(contacts, contacts[t].owner), t)
        PROVE  contacts' \in Seq(Contact)
    <3> DEFINE cleared == ClearPrimary(contacts, contacts[t].owner)
    <3>1. cleared \in Seq(Contact) /\ DOMAIN cleared = DOMAIN contacts
      BY <1>0, ClearPrimaryIsTyped DEF RecordsTypeOK
    <3>2. t \in DOMAIN cleared
      BY <2>1, <3>1 DEF ContactIds
    <3> HIDE DEF cleared
    <3>3. SetPrimary(cleared, t) \in Seq(Contact)
      BY <3>1, <3>2, SetPrimaryIsTyped
    <3>4. QED
      BY <2>2, <3>3 DEF cleared
  <2>3. contacts' \in Seq(Contact)
    BY <1>0, <2>1, <2>2, UpdateTextIsTyped, ArchiveIsTyped
  <2>4. QED
    BY <1>0, <2>1, <2>3 DEF RecordsTypeOK
<1>5. CASE ApplyPreference(item, text)
  <2>1. "member_request" \in Sources
    BY DEF Sources
  <2>2. CASE RecordVisibility(t, text, "member_request")
             /\ UNCHANGED <<persons, contacts, sharing>>
    BY <1>0, <1>1, <2>1, <2>2, PreferenceIsTyped DEF RecordsTypeOK
  <2>3. CASE RecordSharing(t, text, "member_request")
             /\ UNCHANGED <<persons, contacts, visibility>>
    BY <1>0, <1>1, <2>1, <2>3, PreferenceIsTyped DEF RecordsTypeOK
  <2>4. QED
    BY <1>5, <2>2, <2>3 DEF ApplyPreference
<1>6. QED
  BY <1>2, <1>3, <1>4, <1>5 DEF Apply

LEMMA CreateIsTyped ==
  ASSUME TypeOK, NEW u \in Users, NEW key \in Keys,
         NEW requester \in Users \cup {NoUser}, NEW person \in People \cup {0},
         NEW intake \in Seq(Proposal), NEW seen \in [DOMAIN intake -> Nat],
         Create(u, key, requester, person, intake, seen)
  PROVE  TypeOK'
<1> DEFINE row == [requester |-> requester, person |-> person,
                   status |-> "submitted", resolvedAt |-> FALSE,
                   withdrawnAt |-> FALSE, version |-> 1]
           filed == [i \in DOMAIN intake |-> Filed(intake[i], seen[i])]
<1>1. row \in Request
  BY DEF Request
<1>2. DOMAIN intake = 1 .. Len(intake) /\ Len(intake) \in Nat
  OBVIOUS
<1>3. \A i \in DOMAIN intake : Filed(intake[i], seen[i]) \in Item
  BY FiledIsTyped
<1>4. filed \in Seq(Item)
  BY <1>2, <1>3, SeqDef
<1>5. requests' = Append(requests, row) /\ items' = Append(items, filed)
  BY DEF Create
<1> HIDE DEF row, filed
<1>6. /\ requests' \in Seq(Request) /\ Len(requests') = Len(requests) + 1
      /\ items' \in Seq(Seq(Item)) /\ Len(items') = Len(items) + 1
  BY <1>1, <1>4, <1>5, AppendProperties DEF TypeOK
<1>7. Len(requests) + 1 \in Nat
  BY DEF TypeOK
<1>8. claims' \subseteq [actor : Users, key : Keys, request : Nat]
  BY <1>7 DEF Create, TypeOK
<1>9. RecordsTypeOK'
  BY DEF Create, recordVars, TypeOK, RecordsTypeOK
<1>10. QED
  BY <1>6, <1>8, <1>9 DEF TypeOK

\* A step that rewrites one request and leaves its items.
LEMMA RequestRewriteIsTyped ==
  ASSUME TypeOK, NEW r \in RequestIds, NEW row \in Request,
         requests' = [requests EXCEPT ![r] = row],
         UNCHANGED <<items, claims, recordVars>>
  PROVE  TypeOK'
<1>1. r \in 1 .. Len(requests) /\ requests \in Seq(Request)
  BY ItemsAreNumbered DEF TypeOK
<1>2. requests' \in Seq(Request) /\ Len(requests') = Len(requests)
  BY <1>1, ExceptSeq
<1>3. RecordsTypeOK'
  BY DEF recordVars, TypeOK, RecordsTypeOK
<1>4. QED
  BY <1>2, <1>3 DEF TypeOK

LEMMA TriageIsTyped ==
  ASSUME TypeOK, NEW r \in RequestIds, NEW person \in People \cup {0},
         Triage(r, person)
  PROVE  TypeOK'
<1> DEFINE row == [requester |-> requests[r].requester, person |-> person,
                   status |-> requests[r].status,
                   resolvedAt |-> requests[r].resolvedAt,
                   withdrawnAt |-> requests[r].withdrawnAt,
                   version |-> requests[r].version + 1]
<1>1. requests[r] \in Request
  BY ItemsAreNumbered
<1>2. row \in Request
  BY <1>1, RequestFields DEF Request
<1>3. requests' = [requests EXCEPT ![r] = row] /\ UNCHANGED <<items, claims, recordVars>>
  BY DEF Triage
<1> HIDE DEF row
<1>4. QED
  BY <1>2, <1>3, RequestRewriteIsTyped

LEMMA ClosingIsTyped ==
  ASSUME TypeOK, NEW r \in RequestIds, NEW status \in {"resolved", "withdrawn"},
         requests' = [requests EXCEPT ![r] = WithStatus(@, status)],
         UNCHANGED <<items, claims, recordVars>>
  PROVE  TypeOK'
<1>1. requests[r] \in Request
  BY ItemsAreNumbered
<1>2. WithStatus(requests[r], status) \in Request
  BY <1>1, WithStatusIsTyped
<1>3. requests' = [requests EXCEPT ![r] = WithStatus(requests[r], status)]
  OBVIOUS
<1>4. QED
  BY <1>2, <1>3, RequestRewriteIsTyped

LEMMA RefuseIsTyped ==
  ASSUME TypeOK, NEW u \in Users, NEW r \in RequestIds, NEW i \in ItemIds(r),
         NEW verdict \in Verdicts, Refuse(u, r, i, verdict)
  PROVE  TypeOK'
<1>1. items[r][i] \in Item
  BY ItemsAreNumbered
<1>2. Decided(items[r][i], verdict, u) \in Item
  BY <1>1, DecidedIsTyped
<1>3. Settle(r, i, Decided(items[r][i], verdict, u)) /\ UNCHANGED records
  BY DEF Refuse
<1>4. /\ requests' \in Seq(Request) /\ items' \in Seq(Seq(Item))
      /\ Len(items') = Len(requests') /\ claims' = claims /\ pending' = pending
  BY <1>2, <1>3, SettleIsTyped
<1>5. RecordsTypeOK'
  BY <1>3, <1>4 DEF records, TypeOK, RecordsTypeOK
<1>6. QED
  BY <1>4, <1>5 DEF TypeOK

LEMMA ApproveIsTyped ==
  ASSUME TypeOK, NEW u \in Users, NEW r \in RequestIds, NEW i \in ItemIds(r),
         NEW noted \in BOOLEAN, NEW text \in Texts, Approve(u, r, i, noted, text)
  PROVE  TypeOK'
<1> DEFINE item == items[r][i]
<1>1. item \in Item
  BY ItemsAreNumbered
<1>2. Apply(r, item, text) /\ Settle(r, i, Stamped(item, u, text))
  BY DEF Approve
<1>3. Stamped(item, u, text) \in Item
  BY <1>1, StampedIsTyped
<1>4. /\ requests' \in Seq(Request) /\ items' \in Seq(Seq(Item))
      /\ Len(items') = Len(requests') /\ claims' = claims /\ pending' = pending
  BY <1>2, <1>3, SettleIsTyped
<1>5. RecordsTypeOK'
  BY <1>1, <1>2, <1>4, ApplyIsTyped
<1>6. QED
  BY <1>4, <1>5 DEF TypeOK

LEMMA SeenIsTyped ==
  ASSUME NEW intake \in Seq(Proposal), NEW seen \in Seen(intake)
  PROVE  seen \in [DOMAIN intake -> Nat]
<1>1. ContactVersionLimit + PersonVersionLimit \in Nat
  BY RecordLimits
<1>2. QED
  BY <1>1 DEF Seen

LEMMA IntakeIsProposals ==
  ASSUME NEW intake \in Intakes
  PROVE  intake \in Seq(Proposal) /\ intake # <<>>
BY IntakesAreProposals

LEMMA StepIsTyped ==
  ASSUME TypeOK, Next
  PROVE  TypeOK'
<1>1. ASSUME NEW intake \in Intakes, NEW u \in Users, NEW key \in Keys,
             NEW person \in People \cup {0}, NEW requester \in {u, NoUser},
             NEW seen \in Seen(intake), Create(u, key, requester, person, intake, seen)
      PROVE  TypeOK'
  <2>1. intake \in Seq(Proposal) /\ requester \in Users \cup {NoUser}
    BY IntakeIsProposals
  <2>2. seen \in [DOMAIN intake -> Nat]
    BY <2>1, SeenIsTyped
  <2>3. QED
    BY <1>1, <2>1, <2>2, CreateIsTyped
<1>2. ASSUME NEW r \in RequestIds, NEW person \in People \cup {0}, Triage(r, person)
      PROVE  TypeOK'
  BY <1>2, TriageIsTyped
<1>3. ASSUME NEW r \in RequestIds, Resolve(r)
      PROVE  TypeOK'
  BY <1>3, ClosingIsTyped DEF Resolve
<1>4. ASSUME NEW u \in Users, NEW r \in RequestIds, Withdraw(u, r)
      PROVE  TypeOK'
  BY <1>4, ClosingIsTyped DEF Withdraw
<1>5. ASSUME NEW u \in Users, NEW r \in RequestIds, NEW i \in ItemIds(r),
             NEW verdict \in Verdicts, Refuse(u, r, i, verdict)
      PROVE  TypeOK'
  BY <1>5, RefuseIsTyped
<1>6. ASSUME NEW u \in Users, NEW r \in RequestIds, NEW i \in ItemIds(r),
             NEW noted \in BOOLEAN, NEW text \in Texts, Approve(u, r, i, noted, text)
      PROVE  TypeOK'
  BY <1>6, ApproveIsTyped
<1>7. ASSUME RecordsNext, UNCHANGED requestVars
      PROVE  TypeOK'
  BY <1>7, RecordsStepIsTyped DEF TypeOK, requestVars
<1>8. QED
  BY <1>1, <1>2, <1>3, <1>4, <1>5, <1>6, <1>7 DEF Next, RequestNext

\* Every row of requests, items, claims and records has its table's shape,
\* whatever officers and members do and in whatever order.
THEOREM TypeCorrect == Spec => []TypeOK
<1>1. Init => TypeOK
  BY FirstRecords DEF Init, RecordsInit, TypeOK, RecordsTypeOK
<1>2. TypeOK /\ [Next]_vars => TypeOK'
  <2>1. ASSUME TypeOK, Next PROVE TypeOK'
    BY <2>1, StepIsTyped
  <2>2. ASSUME TypeOK, UNCHANGED vars PROVE TypeOK'
    BY <2>2 DEF vars, TypeOK, RecordsTypeOK
  <2>3. QED
    BY <2>1, <2>2
<1>3. QED
  BY <1>1, <1>2, PTL DEF Spec

-----------------------------------------------------------------------------
(* What a step does to a request.                                          *)

\* The status that follows the items when item i of request r is decided.
LEMMA SettledFollows ==
  ASSUME TypeOK, NEW r \in RequestIds, NEW i \in ItemIds(r), NEW item \in Item,
         IsPending(r, i), item.status # "pending", Settle(r, i, item)
  PROVE  /\ Pending(items'[r]) = Pending(items[r]) \ {i}
         /\ DOMAIN items'[r] = ItemIds(r)
         /\ i \in Pending(items[r])
         /\ \A j \in ItemIds(r) \ {i} : items'[r][j] = items[r][j]
         /\ items'[r][i] = item
<1>1. items'[r] = [items[r] EXCEPT ![i] = item]
  BY SettleIsTyped
<1>2. i \in DOMAIN items[r] /\ items[r] \in Seq(Item)
  BY ItemsAreNumbered DEF ItemIds
<1>3. QED
  BY <1>1, <1>2 DEF Pending, ItemIds, IsPending

LEMMA RefuseSettles ==
  ASSUME TypeOK, NEW u \in Users, NEW r \in RequestIds, NEW i \in ItemIds(r),
         NEW verdict \in Verdicts, Refuse(u, r, i, verdict)
  PROVE  \E item \in Item :
           /\ item.status = verdict /\ ~item.applied
           /\ IsPending(r, i) /\ Settle(r, i, item)
<1>1. items[r][i] \in Item
  BY ItemsAreNumbered
<1>2. Decided(items[r][i], verdict, u) \in Item
  BY <1>1, DecidedIsTyped
<1>3. Decided(items[r][i], verdict, u).status = verdict
      /\ ~Decided(items[r][i], verdict, u).applied
  BY DEF Decided
<1>4. QED
  BY <1>2, <1>3 DEF Refuse

LEMMA ApproveSettles ==
  ASSUME TypeOK, NEW u \in Users, NEW r \in RequestIds, NEW i \in ItemIds(r),
         NEW noted \in BOOLEAN, NEW text \in Texts, Approve(u, r, i, noted, text)
  PROVE  \E item \in Item :
           /\ item.status = "approved"
           /\ IsPending(r, i) /\ Settle(r, i, item)
<1>1. items[r][i] \in Item
  BY ItemsAreNumbered
<1>2. Stamped(items[r][i], u, text) \in Item
  BY <1>1, StampedIsTyped
<1>3. Stamped(items[r][i], u, text).status = "approved"
  BY DEF Stamped
<1>4. QED
  BY <1>2, <1>3 DEF Approve

\* The four things a step can do to the requests and their items.
Filing ==
  \E row \in Request, its \in Seq(Item) :
    /\ row.status = "submitted"
    /\ its # <<>>
    /\ \A i \in DOMAIN its : its[i].status = "pending"
    /\ requests' = Append(requests, row)
    /\ items' = Append(items, its)

Rewriting ==
  \E r \in RequestIds, row \in Request :
    /\ ~Closed(r)
    /\ \/ row.status = requests[r].status
       \/ row.status = "resolved" /\ HoldsNothing(r)
       \/ row.status = "withdrawn" /\ Pending(items[r]) = ItemIds(r)
    /\ requests' = [requests EXCEPT ![r] = row]
    /\ items' = items

Deciding ==
  \E r \in RequestIds, item \in Item : \E i \in ItemIds(r) :
    /\ IsPending(r, i)
    /\ item.status # "pending"
    /\ Settle(r, i, item)

LEMMA CreateFiles ==
  ASSUME TypeOK, NEW intake \in Intakes, NEW u \in Users, NEW key \in Keys,
         NEW person \in People \cup {0}, NEW requester \in {u, NoUser},
         NEW seen \in Seen(intake), Create(u, key, requester, person, intake, seen)
  PROVE  Filing
<1> DEFINE row == [requester |-> requester, person |-> person,
                   status |-> "submitted", resolvedAt |-> FALSE,
                   withdrawnAt |-> FALSE, version |-> 1]
           filed == [i \in DOMAIN intake |-> Filed(intake[i], seen[i])]
<1>1. intake \in Seq(Proposal) /\ intake # <<>> /\ seen \in [DOMAIN intake -> Nat]
  BY IntakeIsProposals, SeenIsTyped
<1>2. row \in Request /\ row.status = "submitted"
  BY DEF Request
<1>3. DOMAIN intake = 1 .. Len(intake) /\ Len(intake) \in Nat /\ Len(intake) # 0
  BY <1>1
<1>4. \A i \in DOMAIN intake : Filed(intake[i], seen[i]) \in Item
  BY <1>1, FiledIsTyped
<1>5. filed \in Seq(Item)
  BY <1>3, <1>4, SeqDef
<1>6. \A i \in DOMAIN filed : filed[i].status = "pending"
  BY DEF Filed
<1>7. filed # <<>>
  BY <1>3
<1>8. requests' = Append(requests, row) /\ items' = Append(items, filed)
  BY DEF Create
<1> HIDE DEF row, filed
<1>9. QED
  BY <1>2, <1>5, <1>6, <1>7, <1>8 DEF Filing

LEMMA TriageRewrites ==
  ASSUME TypeOK, NEW r \in RequestIds, NEW person \in People \cup {0}, Triage(r, person)
  PROVE  Rewriting
<1> DEFINE row == [requester |-> requests[r].requester, person |-> person,
                   status |-> requests[r].status,
                   resolvedAt |-> requests[r].resolvedAt,
                   withdrawnAt |-> requests[r].withdrawnAt,
                   version |-> requests[r].version + 1]
<1>1. requests[r] \in Request
  BY ItemsAreNumbered
<1>2. row \in Request /\ row.status = requests[r].status
  BY <1>1, RequestFields DEF Request
<1>3. ~Closed(r) /\ requests' = [requests EXCEPT ![r] = row] /\ items' = items
  BY DEF Triage
<1> HIDE DEF row
<1>4. QED
  BY <1>2, <1>3 DEF Rewriting

LEMMA ResolveRewrites ==
  ASSUME TypeOK, NEW r \in RequestIds, Resolve(r)
  PROVE  Rewriting
<1>1. requests[r] \in Request
  BY ItemsAreNumbered
<1>2. WithStatus(requests[r], "resolved") \in Request
  BY <1>1, WithStatusIsTyped
<1>3. WithStatus(requests[r], "resolved").status = "resolved"
  BY DEF WithStatus
<1>4. QED
  BY <1>2, <1>3 DEF Resolve, Rewriting

LEMMA WithdrawRewrites ==
  ASSUME TypeOK, NEW u \in Users, NEW r \in RequestIds, Withdraw(u, r)
  PROVE  Rewriting
<1>1. requests[r] \in Request
  BY ItemsAreNumbered
<1>2. WithStatus(requests[r], "withdrawn") \in Request
  BY <1>1, WithStatusIsTyped
<1>3. WithStatus(requests[r], "withdrawn").status = "withdrawn"
  BY DEF WithStatus
<1>4. Pending(items[r]) = ItemIds(r)
  BY DEF Withdraw, Pending, ItemIds
<1>5. QED
  BY <1>2, <1>3, <1>4 DEF Withdraw, Rewriting

LEMMA StepOutcome ==
  ASSUME TypeOK, Next
  PROVE  Filing \/ Rewriting \/ Deciding \/ UNCHANGED <<requests, items>>
<1>1. ASSUME NEW u \in Users, NEW r \in RequestIds, NEW i \in ItemIds(r),
             NEW verdict \in Verdicts, Refuse(u, r, i, verdict)
      PROVE  Deciding
  <2>1. verdict # "pending"
    BY DEF Verdicts
  <2>2. QED
    BY <1>1, <2>1, RefuseSettles DEF Deciding
<1>2. ASSUME NEW u \in Users, NEW r \in RequestIds, NEW i \in ItemIds(r),
             NEW noted \in BOOLEAN, NEW text \in Texts, Approve(u, r, i, noted, text)
      PROVE  Deciding
  <2>1. PICK item \in Item : /\ item.status = "approved"
                             /\ IsPending(r, i) /\ Settle(r, i, item)
    BY <1>2, ApproveSettles
  <2>2. item.status # "pending"
    BY <2>1
  <2>3. QED
    BY <2>1, <2>2 DEF Deciding
<1>3. ASSUME UNCHANGED requestVars
      PROVE  UNCHANGED <<requests, items>>
  BY <1>3 DEF requestVars
<1>4. QED
  BY <1>1, <1>2, <1>3, CreateFiles, TriageRewrites, ResolveRewrites,
     WithdrawRewrites DEF Next, RequestNext

-----------------------------------------------------------------------------
(* Decisions and resolutions stand.                                        *)

\* Once an officer has decided an item, no step changes the decision, who made
\* it or what it records as written.
THEOREM DecisionsStand == Spec => DecisionsAreFinal
<1>1. ASSUME TypeOK, Next, NEW r \in RequestIds, NEW i \in ItemIds(r),
             items[r][i].status # "pending"
      PROVE  items'[r][i] = items[r][i]
  <2>1. CASE Filing
    BY <1>1, <2>1, ItemsAreNumbered DEF Filing, TypeOK
  <2>2. CASE Rewriting
    BY <2>2 DEF Rewriting
  <2>3. CASE Deciding
    <3>1. PICK q \in RequestIds, item \in Item : \E j \in ItemIds(q) :
            IsPending(q, j) /\ item.status # "pending" /\ Settle(q, j, item)
      BY <2>3 DEF Deciding
    <3>2. PICK j \in ItemIds(q) :
            IsPending(q, j) /\ item.status # "pending" /\ Settle(q, j, item)
      BY <3>1
    <3>3. CASE q # r
      BY <1>1, <3>2, <3>3, SettleIsTyped
    <3>4. CASE q = r
      <4>1. i # j
        BY <1>1, <3>2, <3>4 DEF IsPending
      <4>2. QED
        BY <1>1, <3>2, <3>4, <4>1, SettledFollows
    <3>5. QED
      BY <3>3, <3>4
  <2>4. CASE UNCHANGED <<requests, items>>
    BY <2>4
  <2>5. QED
    BY <1>1, <2>1, <2>2, <2>3, <2>4, StepOutcome
<1>2. TypeOK /\ [Next]_vars =>
        [\A r \in RequestIds : \A i \in ItemIds(r) :
           items[r][i].status # "pending" => items'[r][i] = items[r][i]]_vars
  BY <1>1
<1>3. QED
  BY <1>2, TypeCorrect, PTL DEF Spec, DecisionsAreFinal

\* Once a request is resolved nothing changes it, whatever is still decided on
\* its items: it keeps its status and its time of resolution.
THEOREM ResolutionStands == Spec => ResolvedIsFinal
<1>1. ASSUME TypeOK, Next, NEW r \in RequestIds, requests[r].status = "resolved"
      PROVE  requests'[r] = requests[r]
  <2>1. CASE Filing
    BY <1>1, <2>1, ItemsAreNumbered DEF Filing, TypeOK
  <2>2. CASE Rewriting
    <3>1. PICK q \in RequestIds, row \in Request :
            ~Closed(q) /\ requests' = [requests EXCEPT ![q] = row]
      BY <2>2 DEF Rewriting
    <3>2. q # r
      BY <1>1, <3>1 DEF Closed
    <3>3. QED
      BY <3>1, <3>2, <1>1, ItemsAreNumbered
  <2>3. CASE Deciding
    <3>1. PICK q \in RequestIds, item \in Item : \E j \in ItemIds(q) : Settle(q, j, item)
      BY <2>3 DEF Deciding
    <3>2. CASE q # r
      BY <1>1, <3>1, <3>2, SettleIsTyped
    <3>3. CASE q = r
      <4>1. requests'[r] = FollowItems(requests[r], items'[r])
        BY <1>1, <3>1, <3>3, SettleIsTyped
      <4>2. QED
        BY <1>1, <4>1 DEF FollowItems
    <3>4. QED
      BY <3>2, <3>3
  <2>4. CASE UNCHANGED <<requests, items>>
    BY <2>4
  <2>5. QED
    BY <1>1, <2>1, <2>2, <2>3, <2>4, StepOutcome
<1>2. TypeOK /\ [Next]_vars =>
        [\A r \in RequestIds : requests[r].status = "resolved" =>
           requests'[r] = requests[r]]_vars
  BY <1>1
<1>3. QED
  BY <1>2, TypeCorrect, PTL DEF Spec, ResolvedIsFinal

-----------------------------------------------------------------------------
(* The status of a request and the items it waits for.                     *)

\* One request's share of StatusTellsProgress and of NothingNamedIsLost.
Told(row, its) ==
  /\ row.status = "submitted" => Pending(its) = DOMAIN its
  /\ row.status = "in_review" => Pending(its) # {} /\ Pending(its) # DOMAIN its
  /\ Pending(its) = {} => row.status = "resolved"

Kept(row, its) ==
  row.status = "resolved" =>
    \A i \in Pending(its) :
      ~CanApply(its[i].proposal.op) \/ its[i].proposal.target = 0

LEMMA FiledIsTold ==
  ASSUME NEW row \in Request, NEW its \in Seq(Item), its # <<>>,
         row.status = "submitted", \A i \in DOMAIN its : its[i].status = "pending"
  PROVE  Told(row, its) /\ Kept(row, its)
<1>1. Pending(its) = DOMAIN its
  BY DEF Pending
<1>2. DOMAIN its # {}
  OBVIOUS
<1>3. QED
  BY <1>1, <1>2 DEF Told, Kept

LEMMA DecidedIsTold ==
  ASSUME TypeOK, NEW r \in RequestIds, NEW i \in ItemIds(r), NEW item \in Item,
         IsPending(r, i), item.status # "pending", Settle(r, i, item),
         Told(requests[r], items[r]), Kept(requests[r], items[r])
  PROVE  Told(requests'[r], items'[r]) /\ Kept(requests'[r], items'[r])
<1> DEFINE open == Pending(items'[r])
<1>1. requests'[r] = FollowItems(requests[r], items'[r])
  BY SettleIsTyped
<1>2. /\ open = Pending(items[r]) \ {i}
      /\ DOMAIN items'[r] = ItemIds(r)
      /\ \A j \in open : items'[r][j] = items[r][j]
  BY SettledFollows DEF Pending, ItemIds
<1>3. open # DOMAIN items'[r]
  BY <1>2
<1>4. CASE open = {} /\ requests[r].status # "resolved"
  <2>1. requests'[r].status = "resolved"
    BY <1>1, <1>4 DEF FollowItems, WithStatus
  <2>2. QED
    BY <1>4, <2>1 DEF Told, Kept
<1>5. CASE open # {} /\ requests[r].status = "submitted"
  <2>1. requests'[r].status = "in_review"
    BY <1>1, <1>5 DEF FollowItems, WithStatus
  <2>2. QED
    BY <1>3, <1>5, <2>1 DEF Told, Kept
<1>6. CASE open # {} /\ requests[r].status # "submitted"
  <2>1. requests'[r] = requests[r]
    BY <1>1, <1>6 DEF FollowItems
  <2>2. QED
    BY <1>2, <1>3, <1>6, <2>1 DEF Told, Kept
<1>7. CASE requests[r].status = "resolved"
  <2>1. requests'[r] = requests[r]
    BY <1>1, <1>7 DEF FollowItems
  <2>2. QED
    BY <1>2, <1>7, <2>1 DEF Told, Kept
<1>8. QED
  BY <1>4, <1>5, <1>6, <1>7

LEMMA RewrittenIsTold ==
  ASSUME NEW r \in RequestIds, NEW row \in Request, ~Closed(r),
         \/ row.status = requests[r].status
         \/ row.status = "resolved" /\ HoldsNothing(r)
         \/ row.status = "withdrawn" /\ Pending(items[r]) = ItemIds(r),
         Told(requests[r], items[r])
  PROVE  Told(row, items[r]) /\ Kept(row, items[r])
<1>1. CASE row.status = requests[r].status
  BY <1>1 DEF Told, Kept, Closed
<1>2. CASE row.status = "resolved" /\ HoldsNothing(r)
  BY <1>2 DEF Told, Kept, HoldsNothing
<1>3. CASE row.status = "withdrawn" /\ Pending(items[r]) = ItemIds(r)
  <2>1. Pending(items[r]) # {}
    BY DEF Told, Closed
  <2>2. QED
    BY <1>3, <2>1 DEF Told, Kept
<1>4. QED
  BY <1>1, <1>2, <1>3

AllTold ==
  \A r \in RequestIds : Told(requests[r], items[r]) /\ Kept(requests[r], items[r])

LEMMA StepIsTold ==
  ASSUME TypeOK, AllTold, Next
  PROVE  AllTold'
<1>1. CASE Filing
  <2>1. PICK row \in Request, its \in Seq(Item) :
          /\ row.status = "submitted"
          /\ its # <<>>
          /\ \A i \in DOMAIN its : its[i].status = "pending"
          /\ requests' = Append(requests, row)
          /\ items' = Append(items, its)
    BY <1>1 DEF Filing
  <2>2. Told(row, its) /\ Kept(row, its)
    BY <2>1, FiledIsTold
  <2>3. /\ DOMAIN requests' = RequestIds \cup {Len(requests) + 1}
        /\ \A r \in RequestIds : requests'[r] = requests[r] /\ items'[r] = items[r]
        /\ requests'[Len(requests) + 1] = row /\ items'[Len(requests) + 1] = its
    BY <2>1 DEF TypeOK, RequestIds
  <2>4. QED
    BY <2>2, <2>3 DEF AllTold, RequestIds
<1>2. CASE Rewriting
  <2>1. PICK r \in RequestIds, row \in Request :
          /\ ~Closed(r)
          /\ \/ row.status = requests[r].status
             \/ row.status = "resolved" /\ HoldsNothing(r)
             \/ row.status = "withdrawn" /\ Pending(items[r]) = ItemIds(r)
          /\ requests' = [requests EXCEPT ![r] = row]
          /\ items' = items
    BY <1>2 DEF Rewriting
  <2>2. Told(row, items[r]) /\ Kept(row, items[r])
    BY <2>1, RewrittenIsTold DEF AllTold
  <2>3. QED
    BY <2>1, <2>2 DEF AllTold, RequestIds
<1>3. CASE Deciding
  <2>1. PICK r \in RequestIds, item \in Item : \E i \in ItemIds(r) :
          IsPending(r, i) /\ item.status # "pending" /\ Settle(r, i, item)
    BY <1>3 DEF Deciding
  <2>2. PICK i \in ItemIds(r) :
          IsPending(r, i) /\ item.status # "pending" /\ Settle(r, i, item)
    BY <2>1
  <2>3. Told(requests'[r], items'[r]) /\ Kept(requests'[r], items'[r])
    BY <2>2, DecidedIsTold DEF AllTold
  <2>4. /\ RequestIds' = RequestIds
        /\ \A q \in RequestIds \ {r} :
             items'[q] = items[q] /\ requests'[q] = requests[q]
    BY <2>2, SettleIsTyped DEF RequestIds
  <2>5. QED
    BY <2>3, <2>4 DEF AllTold
<1>4. CASE UNCHANGED <<requests, items>>
  BY <1>4 DEF AllTold, RequestIds
<1>5. QED
  BY <1>1, <1>2, <1>3, <1>4, StepOutcome

LEMMA ToldThroughout == Spec => []AllTold
<1>1. Init => AllTold
  BY DEF Init, AllTold, RequestIds
<1>2. TypeOK /\ AllTold /\ [Next]_vars => AllTold'
  <2>1. ASSUME UNCHANGED vars, AllTold PROVE AllTold'
    BY <2>1 DEF vars, AllTold, RequestIds
  <2>2. QED
    BY <2>1, StepIsTold
<1>3. QED
  BY <1>1, <1>2, TypeCorrect, PTL DEF Spec

\* Whatever officers and the requester do, the status of every request tells
\* whether its review has begun and whether any of it remains.
THEOREM StatusFollowsItems == Spec => []StatusTellsProgress
<1>1. AllTold => StatusTellsProgress
  BY DEF AllTold, Told, StatusTellsProgress, ItemIds
<1>2. QED
  BY <1>1, ToldThroughout, PTL

\* A resolved request never holds an undecided item that names a record.
THEOREM ResolvingLosesNothing == Spec => []NothingNamedIsLost
<1>1. AllTold => NothingNamedIsLost
  BY DEF AllTold, Kept, NothingNamedIsLost
<1>2. QED
  BY <1>1, ToldThroughout, PTL

-----------------------------------------------------------------------------
(* No overwriting of a record that moved.                                  *)

LEMMA ApplyChecksVersion ==
  ASSUME TypeOK, NEW r \in RequestIds, NEW item \in Item, NEW text \in Texts,
         Apply(r, item, text), item.seen # 0, item.proposal.op \in RewritingOps
  PROVE  item.seen = TargetVersion(item.proposal)
<1> DEFINE t == item.proposal.target
<1>1. CASE ApplyPersonUpdate(item, text)
  <2>1. /\ t \in People /\ item.seen = persons[t].version
        /\ item.proposal.op \in PersonOps
    BY <1>1 DEF ApplyPersonUpdate, NotMoved, PersonOps
  <2>2. item.proposal.op \notin ContactOps
    BY <2>1 DEF PersonOps, ContactOps
  <2>3. QED
    BY <2>1, <2>2 DEF TargetVersion
<1>2. CASE ApplyContactChange(item, text)
  <2>1. /\ t \in ContactIds /\ item.seen = contacts[t].version
        /\ item.proposal.op \in ContactOps
    BY <1>2 DEF ApplyContactChange, NotMoved, ContactOps
  <2>2. QED
    BY <2>1 DEF TargetVersion
<1>3. ~ApplyContactCreate(r, item, text) /\ ~ApplyPreference(item, text)
  BY DEF ApplyContactCreate, ApplyPreference, RewritingOps, PersonOps, ContactOps
<1>4. QED
  BY <1>1, <1>2, <1>3 DEF Apply

\* An item becomes applied only by its own approval.
LEMMA ApprovalApplies ==
  ASSUME TypeOK, Next, NEW r \in RequestIds, NEW i \in ItemIds(r),
         ~items[r][i].applied, items'[r][i].applied
  PROVE  \E u \in Users, noted \in BOOLEAN, text \in Texts : Approve(u, r, i, noted, text)
<1>1. items'[r] # items[r]
  OBVIOUS
<1>2. ASSUME NEW intake \in Intakes, NEW u \in Users, NEW key \in Keys,
             NEW person \in People \cup {0}, NEW requester \in {u, NoUser},
             NEW seen \in Seen(intake), Create(u, key, requester, person, intake, seen)
      PROVE  FALSE
  <2>1. PICK filed : items' = Append(items, filed)
    BY <1>2 DEF Create
  <2>2. items'[r] = items[r]
    BY <2>1, ItemsAreNumbered DEF TypeOK
  <2>3. QED
    BY <1>1, <2>2
<1>3. ASSUME UNCHANGED items PROVE FALSE
  BY <1>1, <1>3
<1>4. ASSUME NEW u \in Users, NEW q \in RequestIds, NEW j \in ItemIds(q),
             NEW verdict \in Verdicts, Refuse(u, q, j, verdict)
      PROVE  FALSE
  <2>1. PICK item \in Item : ~item.applied /\ Settle(q, j, item)
    BY <1>4, RefuseSettles
  <2>2. q = r
    BY <1>1, <2>1, SettleIsTyped
  <2>3. items'[r] = [items[r] EXCEPT ![j] = item]
    BY <2>1, <2>2, SettleIsTyped
  <2>4. QED
    BY <2>1, <2>3
<1>5. ASSUME NEW u \in Users, NEW q \in RequestIds, NEW j \in ItemIds(q),
             NEW noted \in BOOLEAN, NEW text \in Texts, Approve(u, q, j, noted, text)
      PROVE  q = r /\ j = i
  <2>1. PICK item \in Item : Settle(q, j, item)
    BY <1>5, ApproveSettles
  <2>2. q = r
    BY <1>1, <2>1, SettleIsTyped
  <2>3. items'[r] = [items[r] EXCEPT ![j] = item]
    BY <2>1, <2>2, SettleIsTyped
  <2>4. QED
    BY <2>2, <2>3
<1>6. QED
  BY <1>2, <1>3, <1>4, <1>5 DEF Next, RequestNext, Triage, Resolve, Withdraw, requestVars

\* Whoever edited a person or a contact meanwhile, an item whose submitter saw
\* it at some version is applied to that version or not at all.
THEOREM NoStaleWrite == Spec => MovedTargetIsRefused
<1>1. ASSUME TypeOK, Next, NEW r \in RequestIds, NEW i \in ItemIds(r),
             ~items[r][i].applied, items'[r][i].applied,
             items[r][i].seen # 0, items[r][i].proposal.op \in RewritingOps
      PROVE  items[r][i].seen = TargetVersion(items[r][i].proposal)
  <2>1. PICK u \in Users, noted \in BOOLEAN, text \in Texts :
          Approve(u, r, i, noted, text)
    BY <1>1, ApprovalApplies
  <2>2. Apply(r, items[r][i], text)
    BY <2>1 DEF Approve
  <2>3. items[r][i] \in Item
    BY <1>1, ItemsAreNumbered
  <2>4. QED
    BY <1>1, <2>2, <2>3, ApplyChecksVersion
<1>2. TypeOK /\ [Next]_vars =>
        [\A r \in RequestIds : \A i \in ItemIds(r) :
           LET item == items[r][i] IN
           /\ ~item.applied
           /\ items'[r][i].applied
           /\ item.seen # 0
           /\ item.proposal.op \in RewritingOps
           => item.seen = TargetVersion(item.proposal)]_vars
  BY <1>1
<1>3. QED
  BY <1>2, TypeCorrect, PTL DEF Spec, MovedTargetIsRefused

-----------------------------------------------------------------------------
(* Preferences are recorded once.  Approved items and the events review    *)
(* wrote point at each other: an item names the event it made, no two      *)
(* items name the same one, and no event is without its item.              *)

PreferenceOps == {"contact_method.visibility.set", "sharing_pref.acs_ares.set"}

History(op) == IF op = "sharing_pref.acs_ares.set" THEN sharing ELSE visibility

IsApproved(op, r, i) ==
  /\ r \in RequestIds /\ i \in ItemIds(r)
  /\ items[r][i].status = "approved" /\ items[r][i].proposal.op = op

\* Event e is what item i of request r made.
Answers(op, r, i, e) ==
  /\ items[r][i].made = e /\ e \in EventsOf(History(op))
  /\ History(op)[e].text = items[r][i].written
  /\ History(op)[e].of = items[r][i].proposal.target

EachItemMadeAnEvent(op) ==
  \A r, i : IsApproved(op, r, i) => \E e : Answers(op, r, i, e)

EachEventHasItsItem(op) ==
  \A e \in EventsOf(History(op)) : \E r, i :
    IsApproved(op, r, i) /\ items[r][i].made = e

NoEventIsShared(op) ==
  \A r, i, s, j :
    IsApproved(op, r, i) /\ IsApproved(op, s, j) =>
      (items[r][i].made = items[s][j].made => r = s /\ i = j)

PreferenceInv(op) ==
  EachItemMadeAnEvent(op) /\ EachEventHasItsItem(op) /\ NoEventIsShared(op)

AppliedIsApproved ==
  \A r \in RequestIds : \A i \in ItemIds(r) :
    items[r][i].applied = (items[r][i].status = "approved")

\* What an approval writes to a history, and what it leaves alone.
LEMMA ApplyWritesHistory ==
  ASSUME NEW op \in PreferenceOps, NEW r, NEW item, NEW text, Apply(r, item, text)
  PROVE  History(op)' =
           IF item.proposal.op = op
           THEN Append(History(op), [of |-> item.proposal.target, text |-> text,
                                     source |-> "member_request"])
           ELSE History(op)
<1>1. CASE ApplyPersonUpdate(item, text)
  BY <1>1 DEF ApplyPersonUpdate, History, PreferenceOps
<1>2. CASE ApplyContactCreate(r, item, text)
  BY <1>2 DEF ApplyContactCreate, History, PreferenceOps
<1>3. CASE ApplyContactChange(item, text)
  BY <1>3 DEF ApplyContactChange, History, PreferenceOps
<1>4. CASE ApplyPreference(item, text)
  BY <1>4 DEF ApplyPreference, RecordVisibility, RecordSharing, History, PreferenceOps
<1>5. QED
  BY <1>1, <1>2, <1>3, <1>4 DEF Apply

\* Officers add events of their own to a history and touch none that is there.
LEMMA OfficersAddToHistory ==
  ASSUME NEW op \in PreferenceOps, RecordsNext
  PROVE  \/ History(op)' = History(op)
         \/ \E c, text : History(op)' =
              Append(History(op), [of |-> c, text |-> text, source |-> "officer"])
<1>1. \A c, text : SetDirectoryVisibility(c, text) =>
        /\ visibility' = Append(visibility, [of |-> c, text |-> text, source |-> "officer"])
        /\ sharing' = sharing
  BY DEF SetDirectoryVisibility, RecordVisibility
<1>2. \A p, text : SetAcsAresSharing(p, text) =>
        /\ sharing' = Append(sharing, [of |-> p, text |-> text, source |-> "officer"])
        /\ visibility' = visibility
  BY DEF SetAcsAresSharing, RecordSharing
<1>3. \/ UNCHANGED <<visibility, sharing>>
      \/ \E c, text : SetDirectoryVisibility(c, text) \/ SetAcsAresSharing(c, text)
  BY DEF RecordsNext, UpdatePerson, SetActive, CreateContactMethod, ArchiveContactMethod,
         ClearForNew, ClearForMark, InsertPrimary, MarkPrimary, LoseCall, records
<1>4. QED
  BY <1>1, <1>2, <1>3 DEF History

\* A step that approves nothing of the operation leaves its approved items as
\* they are and adds no event of review.
LeavesPreference(op) ==
  /\ \A r, i : IsApproved(op, r, i)' <=> IsApproved(op, r, i)
  /\ \A r, i : IsApproved(op, r, i) => items'[r][i] = items[r][i]
  /\ EventsOf(History(op))' = EventsOf(History(op))
  /\ \A e \in EventsOf(History(op)) : History(op)'[e] = History(op)[e]

AnswersPreference(op, r, i, e) ==
  /\ ~IsApproved(op, r, i)
  /\ \A s, j : IsApproved(op, s, j)' <=> IsApproved(op, s, j) \/ (s = r /\ j = i)
  /\ \A s, j : IsApproved(op, s, j) => items'[s][j] = items[s][j]
  /\ e \notin EventsOf(History(op))
  /\ EventsOf(History(op))' = EventsOf(History(op)) \cup {e}
  /\ \A f \in EventsOf(History(op)) : History(op)'[f] = History(op)[f]
  /\ Answers(op, r, i, e)'

LEMMA LeavingKeepsPreference ==
  ASSUME NEW op, PreferenceInv(op), LeavesPreference(op)
  PROVE  PreferenceInv(op)'
<1>1. EachItemMadeAnEvent(op)'
  BY DEF PreferenceInv, EachItemMadeAnEvent, LeavesPreference, Answers
<1>2. EachEventHasItsItem(op)'
  BY DEF PreferenceInv, EachEventHasItsItem, LeavesPreference
<1>3. NoEventIsShared(op)'
  <2>1. SUFFICES ASSUME NEW r, NEW i, NEW s, NEW j,
                        IsApproved(op, r, i)', IsApproved(op, s, j)',
                        items'[r][i].made = items'[s][j].made
                 PROVE  r = s /\ i = j
    BY DEF NoEventIsShared
  <2>2. /\ IsApproved(op, r, i) /\ items'[r][i] = items[r][i]
        /\ IsApproved(op, s, j) /\ items'[s][j] = items[s][j]
    BY <2>1 DEF LeavesPreference
  <2>3. QED
    BY <2>1, <2>2 DEF PreferenceInv, NoEventIsShared
<1>4. QED
  BY <1>1, <1>2, <1>3 DEF PreferenceInv

LEMMA AnsweringKeepsPreference ==
  ASSUME NEW op, PreferenceInv(op), NEW r, NEW i, NEW e, AnswersPreference(op, r, i, e)
  PROVE  PreferenceInv(op)'
<1>1. items'[r][i].made = e
  BY DEF AnswersPreference, Answers
<1>2. ASSUME NEW s, NEW j, IsApproved(op, s, j)
      PROVE  (\E f : Answers(op, s, j, f))' /\ items'[s][j].made # e
  <2>1. PICK f : Answers(op, s, j, f)
    BY <1>2 DEF PreferenceInv, EachItemMadeAnEvent
  <2>2. items'[s][j] = items[s][j]
    BY <1>2 DEF AnswersPreference
  <2>3. Answers(op, s, j, f)' /\ f # e /\ items[s][j].made = f
    BY <2>1, <2>2 DEF Answers, AnswersPreference
  <2>4. QED
    BY <2>2, <2>3
<1>3. EachItemMadeAnEvent(op)'
  BY <1>2 DEF EachItemMadeAnEvent, AnswersPreference
<1>4. ASSUME NEW f \in EventsOf(History(op))
      PROVE  \E s, j : IsApproved(op, s, j)' /\ items'[s][j].made = f
  <2>1. PICK s, j : IsApproved(op, s, j) /\ items[s][j].made = f
    BY DEF PreferenceInv, EachEventHasItsItem
  <2>2. IsApproved(op, s, j)' /\ items'[s][j].made = f
    BY <2>1 DEF AnswersPreference
  <2>3. QED
    BY <2>2
<1>5. EachEventHasItsItem(op)'
  <2>1. IsApproved(op, r, i)'
    BY DEF AnswersPreference
  <2>2. SUFFICES ASSUME NEW f \in EventsOf(History(op))'
                 PROVE  \E s, j : IsApproved(op, s, j)' /\ items'[s][j].made = f
    BY DEF EachEventHasItsItem
  <2>3. f = e \/ f \in EventsOf(History(op))
    BY DEF AnswersPreference
  <2>4. QED
    BY <1>1, <1>4, <2>1, <2>3
<1>6. NoEventIsShared(op)'
  BY <1>1, <1>2 DEF PreferenceInv, NoEventIsShared, AnswersPreference
<1>7. QED
  BY <1>3, <1>5, <1>6 DEF PreferenceInv

\* The histories as sequences: what a row more does to the events of review.
LEMMA HistoryIsTyped ==
  ASSUME TypeOK, NEW op
  PROVE  /\ History(op) \in Seq(Choice) /\ Len(History(op)) \in Nat
         /\ DOMAIN History(op) = 1 .. Len(History(op))
<1>1. visibility \in Seq(Choice) /\ sharing \in Seq(Choice)
  BY DEF TypeOK, RecordsTypeOK
<1>2. History(op) \in Seq(Choice)
  BY <1>1 DEF History
<1>3. QED
  BY <1>2, LenProperties

LEMMA OneRowMore ==
  ASSUME NEW history \in Seq(Choice), NEW row, NEW after, after = Append(history, row)
  PROVE  /\ \A e \in DOMAIN history : after[e] = history[e]
         /\ after[Len(history) + 1] = row /\ Len(history) + 1 \notin DOMAIN history
         /\ DOMAIN after = DOMAIN history \cup {Len(history) + 1}
<1>1. history \in Seq(Choice \cup {row}) /\ row \in Choice \cup {row}
  OBVIOUS
<1>2. /\ Len(history) \in Nat /\ DOMAIN history = 1 .. Len(history)
      /\ Len(after) = Len(history) + 1 /\ DOMAIN after = 1 .. Len(after)
      /\ \A e \in 1 .. Len(history) : after[e] = history[e]
      /\ after[Len(history) + 1] = row
  BY <1>1, AppendProperties, LenProperties
<1>3. QED
  BY <1>2

\* Which items are approved after a step that decides none, or one.
LEMMA ItemsStandUnlessDecided ==
  ASSUME TypeOK, Filing \/ Rewriting \/ UNCHANGED <<requests, items>>
  PROVE  /\ \A op, r, i : IsApproved(op, r, i)' <=> IsApproved(op, r, i)
         /\ \A op, r, i : IsApproved(op, r, i) => items'[r][i] = items[r][i]
<1>1. CASE Filing
  <2>1. PICK row \in Request, its \in Seq(Item) :
          /\ \A i \in DOMAIN its : its[i].status = "pending"
          /\ requests' = Append(requests, row) /\ items' = Append(items, its)
    BY <1>1 DEF Filing
  <2>2. /\ requests \in Seq(Request) /\ items \in Seq(Seq(Item))
        /\ Len(items) = Len(requests) /\ Len(requests) \in Nat
        /\ RequestIds = 1 .. Len(requests)
    BY ItemsAreNumbered DEF TypeOK
  <2>3. /\ RequestIds' = 1 .. Len(requests) + 1
        /\ \A r \in RequestIds : items'[r] = items[r]
        /\ items'[Len(requests) + 1] = its
    BY <2>1, <2>2, AppendProperties DEF RequestIds
  <2>4. QED
    BY <2>1, <2>2, <2>3 DEF IsApproved, ItemIds
<1>2. CASE Rewriting
  BY <1>2 DEF Rewriting, IsApproved, RequestIds, ItemIds
<1>3. CASE UNCHANGED <<requests, items>>
  BY <1>3 DEF IsApproved, RequestIds, ItemIds
<1>4. QED
  BY <1>1, <1>2, <1>3

LEMMA OneItemIsDecided ==
  ASSUME TypeOK, NEW q \in RequestIds, NEW k \in ItemIds(q), NEW item \in Item,
         IsPending(q, k), Settle(q, k, item), item.proposal = items[q][k].proposal
  PROVE  /\ \A op, r, i :
              IsApproved(op, r, i)' <=>
                \/ IsApproved(op, r, i)
                \/ /\ r = q /\ i = k
                   /\ item.status = "approved" /\ item.proposal.op = op
         /\ \A op, r, i : IsApproved(op, r, i) =>
              items'[r][i] = items[r][i] /\ ~ (r = q /\ i = k)
         /\ items'[q][k] = item
<1>1. /\ items'[q] = [items[q] EXCEPT ![k] = item]
      /\ DOMAIN items' = DOMAIN items /\ DOMAIN requests' = DOMAIN requests
      /\ \A r \in RequestIds \ {q} : items'[r] = items[r]
  BY SettleIsTyped
<1>2. /\ DOMAIN items'[q] = DOMAIN items[q] /\ items'[q][k] = item
      /\ \A i \in DOMAIN items[q] \ {k} : items'[q][i] = items[q][i]
  BY <1>1 DEF ItemIds
<1>3. items[q][k].status = "pending"
  BY DEF IsPending
<1>4. QED
  BY <1>1, <1>2, <1>3 DEF IsApproved, RequestIds, ItemIds

LEMMA ApprovalAnswers ==
  ASSUME TypeOK, NEW op \in PreferenceOps, NEW u \in Users, NEW r \in RequestIds,
         NEW i \in ItemIds(r), NEW noted \in BOOLEAN, NEW text \in Texts,
         Approve(u, r, i, noted, text)
  PROVE  LeavesPreference(op) \/ \E e : AnswersPreference(op, r, i, e)
<1>1. PICK old : old = items[r][i]
  OBVIOUS
<1>2. PICK item : item = Stamped(old, u, text)
  OBVIOUS
<1>3. PICK e : e = Len(History(op)) + 1
  OBVIOUS
<1>4. PICK row : row = [of |-> old.proposal.target, text |-> text,
                        source |-> "member_request"]
  OBVIOUS
<1>5. /\ item.proposal = old.proposal /\ item.status = "approved"
      /\ item.made = Made(old) /\ item.written = Written(old, text)
  BY <1>2 DEF Stamped
<1>6. /\ IsPending(r, i) /\ Settle(r, i, item) /\ Apply(r, old, text)
  BY <1>1, <1>2 DEF Approve
<1>7. old \in Item /\ item \in Item
  BY <1>1, <1>2, ItemsAreNumbered, StampedIsTyped
<1>8. /\ \A s, j : IsApproved(op, s, j)' <=>
                     \/ IsApproved(op, s, j)
                     \/ s = r /\ j = i /\ old.proposal.op = op
      /\ \A s, j : IsApproved(op, s, j) =>
           items'[s][j] = items[s][j] /\ ~ (s = r /\ j = i)
      /\ items'[r][i] = item
  BY <1>1, <1>5, <1>6, <1>7, OneItemIsDecided
<1>9. PICK history : history = History(op)
  OBVIOUS
<1>10. history \in Seq(Choice)
  BY <1>9, HistoryIsTyped
<1>11. CASE old.proposal.op # op
  <2>1. History(op)' = history
    BY <1>6, <1>9, <1>11, ApplyWritesHistory
  <2>2. QED
    BY <1>8, <1>9, <1>11, <2>1 DEF LeavesPreference, EventsOf
<1>12. CASE old.proposal.op = op
  <2>1. History(op)' = Append(history, row)
    BY <1>4, <1>6, <1>9, <1>12, ApplyWritesHistory
  <2>2. PICK after : after = History(op)'
    OBVIOUS
  <2>3. row.source = "member_request" /\ row.text = text /\ row.of = old.proposal.target
    BY <1>4
  <2>4. e = Len(history) + 1
    BY <1>3, <1>9
  <2>5. after = Append(history, row)
    BY <2>1, <2>2
  <2>6. /\ \A f \in DOMAIN history : after[f] = history[f]
        /\ after[e] = row /\ e \notin DOMAIN history
        /\ EventsOf(after) = EventsOf(history) \cup {e}
    <3>1. /\ \A f \in DOMAIN history : after[f] = history[f]
          /\ after[Len(history) + 1] = row /\ Len(history) + 1 \notin DOMAIN history
          /\ DOMAIN after = DOMAIN history \cup {Len(history) + 1}
      BY <1>10, <2>5, OneRowMore
    <3>2. EventsOf(after) = EventsOf(history) \cup {Len(history) + 1}
      BY <2>3, <3>1 DEF EventsOf
    <3>3. QED
      BY <2>4, <3>1, <3>2
  <2>7. item.made = e /\ item.written = text
    BY <1>3, <1>5, <1>12 DEF Made, Written, History, PreferenceOps
  <2>8. Answers(op, r, i, e)'
    BY <1>5, <1>8, <2>2, <2>3, <2>6, <2>7 DEF Answers
  <2>9. EventsOf(History(op))' = EventsOf(History(op)) \cup {e}
    BY <1>9, <2>2, <2>6 DEF EventsOf
  <2>10. \A f \in EventsOf(History(op)) : History(op)'[f] = History(op)[f]
    BY <1>9, <2>2, <2>6 DEF EventsOf
  <2>11. e \notin EventsOf(History(op)) /\ ~ IsApproved(op, r, i)
    BY <1>8, <1>9, <2>6 DEF EventsOf
  <2>12. AnswersPreference(op, r, i, e)
    BY <1>8, <1>12, <2>8, <2>9, <2>10, <2>11 DEF AnswersPreference
  <2>13. QED
    BY <2>12
<1>13. QED
  BY <1>11, <1>12

LEMMA PreferenceStepCases ==
  ASSUME TypeOK, NEW op \in PreferenceOps, [Next]_vars
  PROVE  LeavesPreference(op) \/ \E r, i, e : AnswersPreference(op, r, i, e)
<1>1. ASSUME Filing \/ Rewriting \/ UNCHANGED <<requests, items>>,
             UNCHANGED <<visibility, sharing>>
      PROVE  LeavesPreference(op)
  BY <1>1, ItemsStandUnlessDecided DEF LeavesPreference, History
<1>2. ASSUME NEW intake \in Intakes, NEW u \in Users, NEW key \in Keys,
             NEW person \in People \cup {0}, NEW requester \in {u, NoUser},
             NEW seen \in Seen(intake), Create(u, key, requester, person, intake, seen)
      PROVE  LeavesPreference(op)
  <2>1. Filing
    BY <1>2, CreateFiles
  <2>2. QED
    BY <1>1, <1>2, <2>1 DEF Create, recordVars
<1>3. ASSUME NEW u \in Users, NEW r \in RequestIds, NEW i \in ItemIds(r),
             NEW verdict \in Verdicts, Refuse(u, r, i, verdict)
      PROVE  LeavesPreference(op)
  <2>1. PICK item : item = Decided(items[r][i], verdict, u)
    OBVIOUS
  <2>2. items[r][i] \in Item
    BY ItemsAreNumbered
  <2>3. /\ item \in Item /\ item.proposal = items[r][i].proposal
        /\ item.status # "approved"
    BY <1>3, <2>1, <2>2, DecidedIsTyped DEF Decided, Refuse
  <2>4. /\ IsPending(r, i) /\ Settle(r, i, item) /\ UNCHANGED <<visibility, sharing>>
    BY <1>3, <2>1 DEF Refuse, records
  <2>5. /\ \A s, j : IsApproved(op, s, j)' <=> IsApproved(op, s, j)
        /\ \A s, j : IsApproved(op, s, j) => items'[s][j] = items[s][j]
    BY <2>3, <2>4, OneItemIsDecided
  <2>6. QED
    BY <2>4, <2>5 DEF LeavesPreference, History
<1>4. ASSUME RecordsNext, UNCHANGED requestVars
      PROVE  LeavesPreference(op)
  <2>1. PICK history, after : history = History(op) /\ after = History(op)'
    OBVIOUS
  <2>2. history \in Seq(Choice)
    BY <2>1, HistoryIsTyped
  <2>3. ASSUME NEW c, NEW text,
               after = Append(history, [of |-> c, text |-> text, source |-> "officer"])
        PROVE  /\ EventsOf(after) = EventsOf(history)
               /\ \A e \in DOMAIN history : after[e] = history[e]
    <3>1. PICK row : row = [of |-> c, text |-> text, source |-> "officer"]
      OBVIOUS
    <3>2. row.source # "member_request" /\ after = Append(history, row)
      BY <2>3, <3>1
    <3>3. /\ \A e \in DOMAIN history : after[e] = history[e]
          /\ after[Len(history) + 1] = row
          /\ DOMAIN after = DOMAIN history \cup {Len(history) + 1}
      BY <2>2, <3>2, OneRowMore
    <3>4. QED
      BY <3>2, <3>3 DEF EventsOf
  <2>4. /\ EventsOf(after) = EventsOf(history)
        /\ \A e \in EventsOf(history) : after[e] = history[e]
    BY <1>4, <2>1, <2>3, OfficersAddToHistory DEF EventsOf
  <2>5. /\ EventsOf(History(op))' = EventsOf(History(op))
        /\ \A e \in EventsOf(History(op)) : History(op)'[e] = History(op)[e]
    BY <2>1, <2>4 DEF EventsOf
  <2>6. UNCHANGED <<requests, items>>
    BY <1>4 DEF requestVars
  <2>7. QED
    BY <2>5, <2>6, ItemsStandUnlessDecided DEF LeavesPreference
<1>5. ASSUME NEW r \in RequestIds, NEW person \in People \cup {0}, Triage(r, person)
      PROVE  LeavesPreference(op)
  BY <1>1, <1>5, TriageRewrites DEF Triage, recordVars
<1>6. ASSUME NEW r \in RequestIds, Resolve(r)
      PROVE  LeavesPreference(op)
  BY <1>1, <1>6, ResolveRewrites DEF Resolve, recordVars
<1>7. ASSUME NEW u \in Users, NEW r \in RequestIds, Withdraw(u, r)
      PROVE  LeavesPreference(op)
  BY <1>1, <1>7, WithdrawRewrites DEF Withdraw, recordVars
<1>8. CASE UNCHANGED vars
  BY <1>1, <1>8 DEF vars
<1>9. QED
  BY <1>2, <1>3, <1>4, <1>5, <1>6, <1>7, <1>8, ApprovalAnswers DEF Next, RequestNext

\* An item is marked as applied by its approval and by nothing else.
LEMMA AppliedStaysApproved ==
  ASSUME TypeOK, AppliedIsApproved, [Next]_vars
  PROVE  AppliedIsApproved'
<1>1. ASSUME UNCHANGED <<requests, items>> PROVE AppliedIsApproved'
  BY <1>1 DEF AppliedIsApproved, RequestIds, ItemIds
<1>2. ASSUME NEW intake \in Intakes, NEW u \in Users, NEW key \in Keys,
             NEW person \in People \cup {0}, NEW requester \in {u, NoUser},
             NEW seen \in Seen(intake), Create(u, key, requester, person, intake, seen)
      PROVE  AppliedIsApproved'
  <2>1. PICK filed : filed = [i \in DOMAIN intake |-> Filed(intake[i], seen[i])]
    OBVIOUS
  <2>2. \A i \in DOMAIN filed : filed[i].applied = FALSE /\ filed[i].status = "pending"
    BY <2>1 DEF Filed
  <2>3. PICK row : requests' = Append(requests, row)
    BY <1>2 DEF Create
  <2>4. /\ Len(items) = Len(requests) /\ Len(requests) \in Nat
        /\ RequestIds = 1 .. Len(requests) /\ DOMAIN items = RequestIds
    BY ItemsAreNumbered DEF TypeOK
  <2>5. RequestIds' = 1 .. Len(requests) + 1
    <3>1. requests \in Seq(Request \cup {row}) /\ row \in Request \cup {row}
      BY DEF TypeOK
    <3>2. QED
      BY <2>3, <2>4, <3>1, AppendProperties, LenProperties DEF RequestIds
  <2>6. /\ \A r \in RequestIds : items'[r] = items[r]
        /\ items'[Len(requests) + 1] = filed
    <3>1. items' = Append(items, filed)
      BY <1>2, <2>1 DEF Create
    <3>2. /\ items \in Seq(Seq(Item) \cup {filed}) /\ filed \in Seq(Item) \cup {filed}
      BY DEF TypeOK
    <3>3. QED
      BY <2>4, <3>1, <3>2, AppendProperties
  <2>7. SUFFICES ASSUME NEW r \in RequestIds', NEW i \in DOMAIN items'[r]
                 PROVE  items'[r][i].applied = (items'[r][i].status = "approved")
    BY DEF AppliedIsApproved, ItemIds
  <2>8. CASE r \in RequestIds
    BY <2>6, <2>7, <2>8 DEF AppliedIsApproved, ItemIds
  <2>9. CASE r = Len(requests) + 1
    <3>1. i \in DOMAIN filed /\ items'[r][i] = filed[i]
      BY <2>6, <2>7, <2>9
    <3>2. items'[r][i].applied = FALSE /\ items'[r][i].status = "pending"
      BY <2>2, <3>1
    <3>3. QED
      BY <3>2
  <2>10. QED
    BY <2>4, <2>5, <2>7, <2>8, <2>9
<1>3. ASSUME NEW q \in RequestIds, NEW k \in ItemIds(q), NEW item \in Item,
             Settle(q, k, item), item.applied = (item.status = "approved")
      PROVE  AppliedIsApproved'
  <2>1. /\ items'[q] = [items[q] EXCEPT ![k] = item]
        /\ DOMAIN requests' = DOMAIN requests
        /\ \A r \in RequestIds \ {q} : items'[r] = items[r]
    BY <1>3, SettleIsTyped
  <2>2. /\ DOMAIN items'[q] = DOMAIN items[q] /\ items'[q][k] = item
        /\ \A i \in DOMAIN items[q] \ {k} : items'[q][i] = items[q][i]
    BY <2>1 DEF ItemIds
  <2>3. QED
    BY <1>3, <2>1, <2>2 DEF AppliedIsApproved, RequestIds, ItemIds
<1>4. ASSUME NEW u \in Users, NEW r \in RequestIds, NEW i \in ItemIds(r),
             NEW verdict \in Verdicts, Refuse(u, r, i, verdict)
      PROVE  AppliedIsApproved'
  <2>1. PICK item : item = Decided(items[r][i], verdict, u)
    OBVIOUS
  <2>2. /\ item \in Item /\ item.applied = FALSE /\ item.status # "approved"
    BY <1>4, <2>1, ItemsAreNumbered, DecidedIsTyped DEF Decided, Refuse
  <2>3. QED
    BY <1>3, <1>4, <2>1, <2>2 DEF Refuse
<1>5. ASSUME NEW u \in Users, NEW r \in RequestIds, NEW i \in ItemIds(r),
             NEW noted \in BOOLEAN, NEW text \in Texts, Approve(u, r, i, noted, text)
      PROVE  AppliedIsApproved'
  <2>1. PICK item : item = Stamped(items[r][i], u, text)
    OBVIOUS
  <2>2. /\ item \in Item /\ item.applied = TRUE /\ item.status = "approved"
    BY <2>1, ItemsAreNumbered, StampedIsTyped DEF Stamped
  <2>3. QED
    BY <1>3, <1>5, <2>1, <2>2 DEF Approve
<1>6. ASSUME NEW r \in RequestIds, Rewriting
      PROVE  AppliedIsApproved'
  <2>1. items' = items /\ DOMAIN requests' = DOMAIN requests
    BY <1>6 DEF Rewriting
  <2>2. QED
    BY <2>1 DEF AppliedIsApproved, RequestIds, ItemIds
<1>7. QED
  BY <1>1, <1>2, <1>4, <1>5, <1>6, TriageRewrites, ResolveRewrites, WithdrawRewrites
     DEF Next, RequestNext, vars, requestVars

\* Two sets whose members point at each other one to one are equally large.
LEMMA PreferencesAreCounted ==
  ASSUME TypeOK, NEW op \in PreferenceOps, PreferenceInv(op)
  PROVE  /\ {items[a[1]][a[2]].made : a \in Approvals(op)} = EventsOf(History(op))
         /\ Cardinality(Approvals(op)) = Cardinality(EventsOf(History(op)))
         /\ \A a \in Approvals(op) :
              /\ History(op)[items[a[1]][a[2]].made].text = items[a[1]][a[2]].written
              /\ History(op)[items[a[1]][a[2]].made].of = items[a[1]][a[2]].proposal.target
<1> DEFINE A == Approvals(op)
           E == EventsOf(History(op))
           made == [a \in A |-> items[a[1]][a[2]].made]
<1>1. \A r, i : <<r, i>> \in A <=> IsApproved(op, r, i)
  BY DEF Approvals, IsApproved
<1>2. \A a \in A : \E r, i : a = <<r, i>>
  BY DEF Approvals
<1>3. ASSUME NEW a \in A
      PROVE  /\ IsApproved(op, a[1], a[2]) /\ a = <<a[1], a[2]>>
             /\ Answers(op, a[1], a[2], made[a])
  <2>1. PICK r, i : a = <<r, i>>
    BY <1>2
  <2>2. a[1] = r /\ a[2] = i /\ IsApproved(op, r, i)
    BY <1>1, <2>1
  <2>3. PICK e : Answers(op, r, i, e)
    BY <2>2 DEF PreferenceInv, EachItemMadeAnEvent
  <2>4. e = made[a]
    BY <2>2, <2>3 DEF Answers
  <2>5. QED
    BY <2>1, <2>2, <2>3, <2>4
<1>4. \A a \in A : made[a] \in E
  BY <1>3 DEF Answers
<1>5. ASSUME NEW e \in E
      PROVE  \E a \in A : made[a] = e
  <2>1. PICK r, i : IsApproved(op, r, i) /\ items[r][i].made = e
    BY DEF PreferenceInv, EachEventHasItsItem
  <2>2. <<r, i>> \in A /\ made[<<r, i>>] = e
    BY <1>1, <2>1
  <2>3. QED
    BY <2>2
<1>6. \A a, b \in A : made[a] = made[b] => a = b
  BY <1>3 DEF PreferenceInv, NoEventIsShared
<1> DEFINE item == [e \in E |-> CHOOSE a \in A : made[a] = e]
<1>7. item \in Bijection(E, A)
  <2>1. \A e \in E : item[e] \in A /\ made[item[e]] = e
    BY <1>5
  <2>2. \A a \in A : item[made[a]] = a
    BY <1>4, <1>6, <2>1
  <2> HIDE DEF made
  <2>3. item \in [E -> A]
    BY <2>1
  <2>4. \A e, f \in E : item[e] = item[f] => e = f
    BY <2>1
  <2>5. \A a \in A : \E e \in E : item[e] = a
    BY <1>4, <2>2
  <2> HIDE DEF item, A, E
  <2>6. item \in Injection(E, A)
    BY <2>3, <2>4 DEF Injection, IsInjective
  <2>7. item \in Surjection(E, A)
    BY <2>3, <2>5 DEF Surjection
  <2>8. QED
    BY <2>6, <2>7 DEF Bijection
<1>8. IsFiniteSet(E)
  <2>1. E \subseteq DOMAIN History(op)
    BY DEF EventsOf
  <2>2. IsFiniteSet(1 .. Len(History(op))) /\ DOMAIN History(op) = 1 .. Len(History(op))
    BY HistoryIsTyped, FS_Interval
  <2>3. QED
    BY <2>1, <2>2, FS_Subset
<1>9. Cardinality(A) = Cardinality(E)
  <2>1. ExistsBijection(E, A)
    BY <1>7 DEF ExistsBijection
  <2>2. QED
    BY <1>8, <2>1, FS_Bijection
<1>10. {items[a[1]][a[2]].made : a \in A} = E
  BY <1>4, <1>5
<1>11. QED
  BY <1>3, <1>9, <1>10 DEF Answers

\* "An approval either applies completely or changes nothing": the preference
\* events a review wrote and the approved preference items are one to one, each
\* item naming the event it made, with the value it records as written.
THEOREM AppliedOnce == Spec => []AppliedExactlyOnce
<1> DEFINE Inv == /\ AppliedIsApproved
                  /\ PreferenceInv("contact_method.visibility.set")
                  /\ PreferenceInv("sharing_pref.acs_ares.set")
<1>1. Init => Inv
  <2>1. SUFFICES ASSUME Init PROVE Inv
    OBVIOUS
  <2>2. requests = <<>> /\ visibility = <<>> /\ sharing = <<>>
    BY <2>1 DEF Init, RecordsInit
  <2>3. RequestIds = {} /\ \A op : EventsOf(History(op)) = {}
    BY <2>2 DEF RequestIds, EventsOf, History
  <2>4. QED
    BY <2>3 DEF AppliedIsApproved, PreferenceInv, EachItemMadeAnEvent,
       EachEventHasItsItem, NoEventIsShared, IsApproved
<1>2. TypeOK /\ Inv /\ [Next]_vars => Inv'
  <2>1. SUFFICES ASSUME TypeOK, Inv, [Next]_vars PROVE Inv'
    OBVIOUS
  <2>2. ASSUME NEW op \in PreferenceOps, PreferenceInv(op)
        PROVE  PreferenceInv(op)'
    BY <2>1, <2>2, PreferenceStepCases, LeavingKeepsPreference, AnsweringKeepsPreference
  <2>3. QED
    BY <2>1, <2>2, AppliedStaysApproved DEF PreferenceOps
<1>3. TypeOK /\ Inv => AppliedExactlyOnce
  <2>1. SUFFICES ASSUME TypeOK, Inv PROVE AppliedExactlyOnce
    OBVIOUS
  <2>2. \A op \in PreferenceOps : PreferenceInv(op)
    BY <2>1 DEF PreferenceOps
  <2>3. ASSUME NEW op \in PreferenceOps
        PROVE  LET history == IF op = "sharing_pref.acs_ares.set"
                              THEN sharing ELSE visibility
                   made(a) == items[a[1]][a[2]].made IN
               /\ {made(a) : a \in Approvals(op)} = EventsOf(history)
               /\ Cardinality(Approvals(op)) = Cardinality(EventsOf(history))
               /\ \A a \in Approvals(op) :
                    LET item == items[a[1]][a[2]] IN
                    history[made(a)].text = item.written
                      /\ history[made(a)].of = item.proposal.target
    BY <2>1, <2>2, PreferencesAreCounted DEF History
  <2>4. QED
    BY <2>1, <2>3 DEF AppliedExactlyOnce, AppliedIsApproved, PreferenceOps
<1> HIDE DEF Inv
<1>4. QED
  BY <1>1, <1>2, <1>3, TypeCorrect, PTL DEF Spec

-----------------------------------------------------------------------------
(* What a member is told was sent is their own.  A request keeps its       *)
(* requester and what its items propose, and a contact its owner, whatever *)
(* is decided or edited; so it is enough that the form reads nothing but   *)
(* the member's record.                                                    *)

\* No contact changes hands or goes away, and one may be added.
ContactsStay ==
  /\ \A c \in ContactIds : c \in ContactIds' /\ contacts'[c].owner = contacts[c].owner
  /\ \/ ContactIds' = ContactIds
     \/ RoomForContact /\ ContactIds' = ContactIds \cup {Len(contacts) + 1}

\* No request changes hands, and no item proposes something else.
RequestsStay ==
  \A r \in RequestIds :
    /\ r \in RequestIds' /\ requests'[r].requester = requests[r].requester
    /\ ItemIds(r)' = ItemIds(r)
    /\ \A i \in ItemIds(r) : items'[r][i].proposal = items[r][i].proposal

LEMMA RewritesKeepOwners ==
  ASSUME NEW rows \in Seq(Contact), NEW p, NEW c
  PROVE  /\ DOMAIN ClearPrimary(rows, p) = DOMAIN rows
         /\ DOMAIN SetPrimary(rows, c) = DOMAIN rows
         /\ \A d \in DOMAIN rows :
              /\ ClearPrimary(rows, p)[d].owner = rows[d].owner
              /\ SetPrimary(rows, c)[d].owner = rows[d].owner
BY DEF ClearPrimary, SetPrimary, Rewritten

LEMMA ContactWritesStay ==
  ASSUME RecordsTypeOK
  PROVE  /\ contacts' = contacts => ContactsStay
         /\ \A row \in Contact :
              RoomForContact /\ contacts' = Append(contacts, row) => ContactsStay
         /\ \A c, text : UpdateText(c, text) \/ Archive(c) => ContactsStay
         /\ \A p : contacts' = ClearPrimary(contacts, p) => ContactsStay
         /\ \A c : contacts' = SetPrimary(contacts, c) => ContactsStay
         /\ \A p, c : contacts' = SetPrimary(ClearPrimary(contacts, p), c) => ContactsStay
<1>1. /\ contacts \in Seq(Contact) /\ Len(contacts) \in Nat
      /\ ContactIds = 1 .. Len(contacts)
  BY DEF RecordsTypeOK, ContactIds
<1>2. contacts' = contacts => ContactsStay
  BY DEF ContactsStay, ContactIds
<1>3. ASSUME NEW row \in Contact, RoomForContact, contacts' = Append(contacts, row)
      PROVE  ContactsStay
  <2>1. /\ ContactIds' = 1 .. Len(contacts) + 1
        /\ \A c \in ContactIds : contacts'[c] = contacts[c]
    BY <1>1, <1>3, AppendProperties DEF ContactIds
  <2>2. QED
    BY <1>1, <1>3, <2>1 DEF ContactsStay
<1>4. ASSUME NEW c, NEW text, UpdateText(c, text) \/ Archive(c)
      PROVE  ContactsStay
  BY <1>1, <1>4 DEF UpdateText, Archive, Rewritten, ContactsStay, ContactIds
<1>5. ASSUME NEW p, contacts' = ClearPrimary(contacts, p)
      PROVE  ContactsStay
  BY <1>1, <1>5, RewritesKeepOwners DEF ContactsStay, ContactIds
<1>6. ASSUME NEW c, contacts' = SetPrimary(contacts, c)
      PROVE  ContactsStay
  BY <1>1, <1>6, RewritesKeepOwners DEF ContactsStay, ContactIds
<1>7. ASSUME NEW p, NEW c, contacts' = SetPrimary(ClearPrimary(contacts, p), c)
      PROVE  ContactsStay
  <2>1. PICK cleared \in Seq(Contact) : cleared = ClearPrimary(contacts, p)
    BY <1>1, ClearPrimaryIsTyped
  <2>2. /\ DOMAIN cleared = DOMAIN contacts
        /\ \A d \in DOMAIN contacts : cleared[d].owner = contacts[d].owner
    BY <1>1, <2>1, RewritesKeepOwners
  <2>3. /\ DOMAIN contacts' = DOMAIN cleared
        /\ \A d \in DOMAIN cleared : contacts'[d].owner = cleared[d].owner
    BY <1>7, <2>1, RewritesKeepOwners
  <2>4. QED
    BY <2>2, <2>3 DEF ContactsStay, ContactIds
<1>8. QED
  BY <1>2, <1>3, <1>4, <1>5, <1>6, <1>7

LEMMA RecordsKeepContacts ==
  ASSUME RecordsTypeOK, RecordsNext
  PROVE  ContactsStay
<1>1. ASSUME contacts' = contacts PROVE ContactsStay
  BY <1>1, ContactWritesStay
<1>2. ASSUME NEW p \in People, NEW kind \in Kinds, NEW text \in Texts,
             CreateContactMethod(p, kind, text)
      PROVE  ContactsStay
  BY <1>2, NewContactIsTyped, ContactWritesStay DEF CreateContactMethod
<1>3. ASSUME NEW c \in ContactIds, ArchiveContactMethod(c) PROVE ContactsStay
  BY <1>3, ContactWritesStay DEF ArchiveContactMethod
<1>4. ASSUME NEW call, NEW p, NEW kind, NEW text, ClearForNew(call, p, kind, text)
      PROVE  ContactsStay
  BY <1>4, ContactWritesStay DEF ClearForNew
<1>5. ASSUME NEW call, NEW c, ClearForMark(call, c) PROVE ContactsStay
  BY <1>5, ContactWritesStay DEF ClearForMark
<1>6. ASSUME NEW s \in pending, InsertPrimary(s) PROVE ContactsStay
  <2>1. s.owner \in People /\ s.kind \in Kinds /\ s.text \in Texts
    BY <1>6 DEF RecordsTypeOK, Statement, InsertPrimary
  <2>2. NewContact(s.owner, s.kind, s.text, TRUE) \in Contact
    BY <2>1, NewContactIsTyped
  <2>3. QED
    BY <1>6, <2>2, ContactWritesStay DEF InsertPrimary
<1>7. ASSUME NEW s \in pending, MarkPrimary(s) PROVE ContactsStay
  BY <1>7, ContactWritesStay DEF MarkPrimary
<1>8. QED
  BY <1>1, <1>2, <1>3, <1>4, <1>5, <1>6, <1>7 DEF RecordsNext, UpdatePerson, SetActive,
     SetDirectoryVisibility, SetAcsAresSharing, LoseCall, records

LEMMA ReviewKeepsContacts ==
  ASSUME TypeOK, NEW r, NEW item \in Item, NEW text \in Texts, Apply(r, item, text)
  PROVE  ContactsStay
<1>1. RecordsTypeOK
  BY DEF TypeOK
<1>2. CASE ApplyPersonUpdate(item, text) \/ ApplyPreference(item, text)
  BY <1>1, <1>2, ContactWritesStay DEF ApplyPersonUpdate, ApplyPreference
<1>3. CASE ApplyContactCreate(r, item, text)
  <2>1. item.proposal.kind \in Kinds /\ Beneficiary(r, item) \in People
    BY <1>3, ItemFields, ProposalFields DEF ApplyContactCreate
  <2>2. NewContact(Beneficiary(r, item), item.proposal.kind, text, FALSE) \in Contact
    BY <2>1, NewContactIsTyped
  <2>3. QED
    BY <1>1, <1>3, <2>2, ContactWritesStay DEF ApplyContactCreate
<1>4. CASE ApplyContactChange(item, text)
  <2>1. PICK c : c = item.proposal.target
    OBVIOUS
  <2>2. \/ UpdateText(c, text)
        \/ Archive(c)
        \/ contacts' = SetPrimary(ClearPrimary(contacts, contacts[c].owner), c)
    BY <1>4, <2>1 DEF ApplyContactChange
  <2>3. QED
    BY <1>1, <2>2, ContactWritesStay
<1>5. QED
  BY <1>2, <1>3, <1>4 DEF Apply

LEMMA SettlingStays ==
  ASSUME TypeOK, NEW r \in RequestIds, NEW i \in ItemIds(r), NEW item \in Item,
         Settle(r, i, item), item.proposal = items[r][i].proposal
  PROVE  RequestsStay /\ RequestIds' = RequestIds
<1>1. /\ items'[r] = [items[r] EXCEPT ![i] = item]
      /\ requests'[r] = FollowItems(requests[r], items'[r])
      /\ DOMAIN requests' = DOMAIN requests
      /\ \A q \in RequestIds \ {r} : items'[q] = items[q] /\ requests'[q] = requests[q]
  BY SettleIsTyped
<1>2. requests'[r].requester = requests[r].requester
  BY <1>1 DEF FollowItems, WithStatus
<1>3. /\ DOMAIN items'[r] = DOMAIN items[r]
      /\ \A j \in DOMAIN items[r] : items'[r][j].proposal = items[r][j].proposal
  BY <1>1
<1>4. QED
  BY <1>1, <1>2, <1>3 DEF RequestsStay, RequestIds, ItemIds

\* One request more, of this requester and with these proposals.
AddsOne(requester, intake) ==
  /\ RequestsStay
  /\ RequestIds' = RequestIds \cup {Len(requests) + 1}
  /\ requests'[Len(requests) + 1].requester = requester
  /\ DOMAIN items'[Len(requests) + 1] = DOMAIN intake
  /\ \A i \in DOMAIN intake : items'[Len(requests) + 1][i].proposal = intake[i]

\* What a request's intake stores is what it proposes.
LEMMA CreateAddsOne ==
  ASSUME TypeOK, NEW u, NEW key, NEW requester \in Users \cup {NoUser},
         NEW person \in People \cup {0}, NEW intake \in Seq(Proposal),
         NEW seen \in [DOMAIN intake -> Nat],
         Create(u, key, requester, person, intake, seen)
  PROVE  AddsOne(requester, intake)
<1>1. PICK row : row = [requester |-> requester, person |-> person,
                        status |-> "submitted", resolvedAt |-> FALSE,
                        withdrawnAt |-> FALSE, version |-> 1]
  OBVIOUS
<1>2. PICK filed : filed = [i \in DOMAIN intake |-> Filed(intake[i], seen[i])]
  OBVIOUS
<1>3. row \in Request /\ row.requester = requester
  BY <1>1 DEF Request
<1>4. /\ DOMAIN filed = DOMAIN intake
      /\ \A i \in DOMAIN intake : filed[i] \in Item /\ filed[i].proposal = intake[i]
  BY <1>2, FiledIsTyped DEF Filed
<1>5. filed \in Seq(Item)
  BY <1>2, <1>4, SeqDef
<1>6. requests' = Append(requests, row) /\ items' = Append(items, filed)
  BY <1>1, <1>2 DEF Create
<1>7. /\ requests \in Seq(Request) /\ items \in Seq(Seq(Item))
      /\ Len(items) = Len(requests) /\ Len(requests) \in Nat
      /\ RequestIds = 1 .. Len(requests)
  BY ItemsAreNumbered DEF TypeOK
<1>8. /\ RequestIds' = 1 .. Len(requests) + 1
      /\ \A r \in RequestIds : requests'[r] = requests[r]
      /\ requests'[Len(requests) + 1] = row
  BY <1>3, <1>6, <1>7, AppendProperties DEF RequestIds
<1>9. /\ \A r \in RequestIds : items'[r] = items[r]
      /\ items'[Len(requests) + 1] = filed
  BY <1>5, <1>6, <1>7, AppendProperties
<1>10. RequestsStay
  BY <1>7, <1>8, <1>9 DEF RequestsStay, ItemIds
<1>11. RequestIds' = RequestIds \cup {Len(requests) + 1}
  BY <1>7, <1>8
<1>12. requests'[Len(requests) + 1].requester = requester
  BY <1>3, <1>8
<1>13. PICK n, its : n = Len(requests) + 1 /\ its = items'
  OBVIOUS
<1>14. its[n] = filed
  BY <1>9, <1>13
<1>15. DOMAIN its[n] = DOMAIN intake
  BY <1>4, <1>14
<1>16. \A i \in DOMAIN intake : its[n][i].proposal = intake[i]
  BY <1>4, <1>14
<1>17. QED
  BY <1>10, <1>11, <1>12, <1>13, <1>15, <1>16 DEF AddsOne

\* Every claim names a request on file.
ClaimsAreFiled == \A c \in claims : c.request \in RequestIds

LEMMA StepStays ==
  ASSUME TypeOK, ClaimsAreFiled, Next
  PROVE  RequestsStay /\ ContactsStay /\ ClaimsAreFiled'
<1>1. RecordsTypeOK
  BY DEF TypeOK
<1>2. ASSUME UNCHANGED <<requests, items>>
      PROVE  RequestsStay /\ RequestIds' = RequestIds
  BY <1>2 DEF RequestsStay, RequestIds, ItemIds
<1>3. ASSUME UNCHANGED contacts PROVE ContactsStay
  BY <1>1, <1>3, ContactWritesStay
<1>4. ASSUME RequestsStay, UNCHANGED claims PROVE ClaimsAreFiled'
  BY <1>4 DEF RequestsStay, ClaimsAreFiled
<1>5. ASSUME NEW intake \in Intakes, NEW u \in Users, NEW key \in Keys,
             NEW person \in People \cup {0}, NEW requester \in {u, NoUser},
             NEW seen \in Seen(intake), Create(u, key, requester, person, intake, seen)
      PROVE  RequestsStay /\ ContactsStay /\ ClaimsAreFiled'
  <2>1. /\ intake \in Seq(Proposal) /\ requester \in Users \cup {NoUser}
        /\ seen \in [DOMAIN intake -> Nat]
    BY IntakeIsProposals, SeenIsTyped
  <2>2. RequestsStay /\ RequestIds' = RequestIds \cup {Len(requests) + 1}
    BY <1>5, <2>1, CreateAddsOne DEF AddsOne
  <2>3. ContactsStay
    BY <1>3, <1>5 DEF Create, recordVars
  <2>4. \A c \in claims' : c \in claims \/ c.request = Len(requests) + 1
    BY <1>5 DEF Create
  <2>5. QED
    BY <2>2, <2>3, <2>4 DEF ClaimsAreFiled
<1>6. ASSUME NEW r \in RequestIds, NEW row, row.requester = requests[r].requester,
             requests' = [requests EXCEPT ![r] = row],
             UNCHANGED <<items, claims, recordVars>>
      PROVE  RequestsStay /\ ContactsStay /\ ClaimsAreFiled'
  <2>1. RequestsStay
    BY <1>6 DEF RequestsStay, RequestIds, ItemIds
  <2>2. QED
    BY <1>3, <1>4, <1>6, <2>1 DEF recordVars
<1>7. ASSUME NEW r \in RequestIds, NEW person, Triage(r, person)
      PROVE  RequestsStay /\ ContactsStay /\ ClaimsAreFiled'
  <2>1. PICK row : /\ row.requester = requests[r].requester
                   /\ requests' = [requests EXCEPT ![r] = row]
    BY <1>7 DEF Triage
  <2>2. QED
    BY <1>6, <1>7, <2>1 DEF Triage
<1>8. ASSUME NEW r \in RequestIds, NEW status,
             requests' = [requests EXCEPT ![r] = WithStatus(@, status)],
             UNCHANGED <<items, claims, recordVars>>
      PROVE  RequestsStay /\ ContactsStay /\ ClaimsAreFiled'
  <2>1. PICK row : row = WithStatus(requests[r], status)
    OBVIOUS
  <2>2. row.requester = requests[r].requester
    BY <2>1 DEF WithStatus
  <2>3. requests' = [requests EXCEPT ![r] = row]
    BY <1>8, <2>1
  <2>4. QED
    BY <1>6, <1>8, <2>2, <2>3
<1>9. ASSUME NEW u \in Users, NEW r \in RequestIds, NEW i \in ItemIds(r),
             NEW verdict \in Verdicts, Refuse(u, r, i, verdict)
      PROVE  RequestsStay /\ ContactsStay /\ ClaimsAreFiled'
  <2>1. PICK item : item = Decided(items[r][i], verdict, u)
    OBVIOUS
  <2>2. item \in Item /\ item.proposal = items[r][i].proposal
    BY <2>1, ItemsAreNumbered, DecidedIsTyped DEF Decided
  <2>3. Settle(r, i, item) /\ UNCHANGED contacts
    BY <1>9, <2>1 DEF Refuse, records
  <2>4. RequestsStay /\ claims' = claims
    BY <2>2, <2>3, SettlingStays DEF Settle
  <2>5. QED
    BY <1>3, <1>4, <2>3, <2>4
<1>10. ASSUME NEW u \in Users, NEW r \in RequestIds, NEW i \in ItemIds(r),
              NEW noted \in BOOLEAN, NEW text \in Texts, Approve(u, r, i, noted, text)
       PROVE  RequestsStay /\ ContactsStay /\ ClaimsAreFiled'
  <2>1. PICK item : item = Stamped(items[r][i], u, text)
    OBVIOUS
  <2>2. item \in Item /\ item.proposal = items[r][i].proposal /\ items[r][i] \in Item
    BY <2>1, ItemsAreNumbered, StampedIsTyped DEF Stamped
  <2>3. Settle(r, i, item) /\ Apply(r, items[r][i], text)
    BY <1>10, <2>1 DEF Approve
  <2>4. RequestsStay /\ claims' = claims
    BY <2>2, <2>3, SettlingStays DEF Settle
  <2>5. ContactsStay
    BY <2>2, <2>3, ReviewKeepsContacts
  <2>6. QED
    BY <1>4, <2>4, <2>5
<1>11. ASSUME RecordsNext, UNCHANGED requestVars
       PROVE  RequestsStay /\ ContactsStay /\ ClaimsAreFiled'
  BY <1>1, <1>2, <1>4, <1>11, RecordsKeepContacts DEF requestVars
<1>12. QED
  BY <1>5, <1>7, <1>8, <1>9, <1>10, <1>11 DEF Next, RequestNext, Resolve, Withdraw

-----------------------------------------------------------------------------
(* What the form proposes.                                                 *)

\* Proposals about a person's own record and contacts.
Home(person) ==
  {q \in Proposal :
     \/ /\ q.op \in ContactOps
        /\ q.target \in ContactIds /\ contacts[q.target].owner = person
     \/ q.op \in PersonOps /\ q.target = person
     \/ q.op \notin ContactOps \cup PersonOps /\ q.target = 0}

\* The form shows and edits contacts in the bounds of the model.
FormsAreTyped == forms \in [Users -> Form \cup {NoForm}]

LEMMA EditsAreForms ==
  ASSUME NEW shown \in Form, NEW form \in Edits(shown)
  PROVE  form \in Form
<1>1. /\ form.name \in Texts /\ form.sign \in Maybe /\ form.note \in BOOLEAN
      /\ form.values \in Values(DOMAIN shown.values)
      /\ form.shares \in [DOMAIN shown.shares -> {Listed, Hidden}]
  BY DEF Edits
<1>2. PICK ids \in SUBSET (1 .. ContactLimit) : shown.values \in Values(ids)
  BY DEF Form
<1>3. PICK listed \in SUBSET (1 .. ContactLimit) : shown.shares \in Values(listed)
  BY DEF Form
<1>4. form.values \in Values(ids) /\ form.shares \in Values(listed)
  BY <1>1, <1>2, <1>3, ListingChoices DEF Values
<1>5. form = [name |-> form.name, sign |-> form.sign, values |-> form.values,
              shares |-> form.shares, note |-> form.note]
  BY DEF Edits
<1>6. QED
  BY <1>1, <1>4, <1>5 DEF Form

LEMMA ProfileIsAForm ==
  ASSUME TypeOK, Len(contacts) <= ContactLimit, NEW p \in People
  PROVE  /\ Profile(p) \in Form
         /\ DOMAIN Profile(p).values = ActiveContacts(p)
         /\ DOMAIN Profile(p).shares \subseteq ActiveContacts(p)
         /\ Profile(p).name \in Texts /\ Profile(p).sign \in Maybe
<1>1. /\ contacts \in Seq(Contact) /\ persons[p] \in Person
      /\ ContactIds = 1 .. Len(contacts) /\ Len(contacts) \in Nat
  BY DEF TypeOK, RecordsTypeOK, ContactIds
<1>2. persons[p].name \in Texts /\ persons[p].sign \in Maybe
  BY <1>1 DEF Person
<1>3. PICK ids : ids = ActiveContacts(p)
  OBVIOUS
<1>4. PICK listed : listed = {d \in ids : contacts[d].kind \in Listable}
  OBVIOUS
<1>5. ids \subseteq ContactIds /\ listed \subseteq ids
  BY <1>3, <1>4 DEF ActiveContacts
<1>6. ContactIds \subseteq 1 .. ContactLimit
  BY <1>1, RecordLimits
<1>7. [c \in ids |-> contacts[c].text] \in Values(ids)
  <2>1. \A c \in ids : contacts[c] \in Contact
    BY <1>1, <1>5 DEF ContactIds
  <2>2. \A c \in ids : contacts[c].text \in Texts
    BY <2>1 DEF Contact
  <2>3. QED
    BY <2>2 DEF Values
<1>8. [c \in listed |-> CurrentShare(c)] \in Values(listed)
  <2>1. \A c : CurrentShare(c) \in Texts
    BY ListingChoices DEF CurrentShare
  <2>2. QED
    BY <2>1 DEF Values
<1>9. PICK values, shares : /\ values = [c \in ids |-> contacts[c].text]
                            /\ shares = [c \in listed |-> CurrentShare(c)]
  OBVIOUS
<1>10. Profile(p) = [name |-> persons[p].name, sign |-> persons[p].sign,
                     values |-> values, shares |-> shares, note |-> FALSE]
  BY <1>3, <1>4, <1>9 DEF Profile
<1>11. /\ values \in UNION {Values(some) : some \in SUBSET (1 .. ContactLimit)}
       /\ shares \in UNION {Values(some) : some \in SUBSET (1 .. ContactLimit)}
  BY <1>5, <1>6, <1>7, <1>8, <1>9
<1>12. DOMAIN values = ids /\ DOMAIN shares = listed
  BY <1>9
<1>13. QED
  BY <1>2, <1>3, <1>5, <1>10, <1>11, <1>12 DEF Form

LEMMA SuggestIsHome ==
  ASSUME TypeOK, NEW p \in People, NEW kind \in Kinds, NEW text \in Texts
  PROVE  /\ \A op \in PersonOps : Suggest(op, p, kind, text) \in Home(p)
         /\ \A c \in ActiveContacts(p), op \in ContactOps :
              Suggest(op, c, kind, text) \in Home(p)
         /\ Suggest("other", 0, kind, text) \in Home(p)
<1>1. /\ PersonOps \subseteq Operations /\ ContactOps \subseteq Operations
      /\ "other" \in Operations \ (ContactOps \cup PersonOps)
  BY DEF Operations, UnappliedOps, ContactOps, PersonOps
<1>2. p \in Nat
  BY PersonIsAnId
<1>3. \A c \in ActiveContacts(p) :
        c \in ContactIds /\ contacts[c].owner = p /\ c \in Nat
  BY ContactIdIsAnId DEF ActiveContacts, TypeOK
<1>4. \A op \in Operations, target \in Nat :
        /\ Suggest(op, target, kind, text) \in Proposal
        /\ Suggest(op, target, kind, text).op = op
        /\ Suggest(op, target, kind, text).target = target
  BY DEF Suggest, Proposal
<1>5. ASSUME NEW op \in PersonOps PROVE Suggest(op, p, kind, text) \in Home(p)
  BY <1>1, <1>2, <1>4 DEF Home
<1>6. ASSUME NEW c \in ActiveContacts(p), NEW op \in ContactOps
      PROVE  Suggest(op, c, kind, text) \in Home(p)
  BY <1>1, <1>3, <1>4 DEF Home
<1>7. Suggest("other", 0, kind, text) \in Home(p)
  BY <1>1, <1>4 DEF Home
<1>8. QED
  BY <1>5, <1>6, <1>7

\* One suggestion for each of some contacts of the person.
LEMMA SuggestionsAreHome ==
  ASSUME TypeOK, NEW p \in People, NEW ids \in SUBSET ActiveContacts(p),
         NEW op \in ContactOps, NEW texts, \A c \in ids : texts[c] \in Texts
  PROVE  [i \in DOMAIN Ascending(ids) |->
            LET c == Ascending(ids)[i] IN
            Suggest(op, c, contacts[c].kind, texts[c])] \in Seq(Home(p))
<1>1. contacts \in Seq(Contact) /\ ContactIds = 1 .. Len(contacts) /\ Len(contacts) \in Nat
  BY DEF TypeOK, RecordsTypeOK, ContactIds
<1>2. ids \subseteq ContactIds
  BY DEF ActiveContacts
<1>3. ids \in SUBSET Nat /\ IsFiniteSet(ids)
  <2>1. ids \subseteq 1 .. Len(contacts)
    BY <1>1, <1>2
  <2>2. \A n \in Nat : IsFiniteSet(1 .. n)
    BY FS_Interval
  <2>3. IsFiniteSet(1 .. Len(contacts))
    BY <1>1, <2>2
  <2>4. IsFiniteSet(ids)
    BY <2>1, <2>3, FS_Subset
  <2>5. QED
    BY <1>1, <2>1, <2>4
<1>4. PICK s \in Seq(ids) : s = Ascending(ids)
  BY <1>3, AscendingIsSorted
<1>5. PICK g : g = [i \in DOMAIN s |-> Suggest(op, s[i], contacts[s[i]].kind, texts[s[i]])]
  OBVIOUS
<1>6. DOMAIN g = 1 .. Len(s) /\ Len(s) \in Nat
  BY <1>5
<1>7. ASSUME NEW i \in 1 .. Len(s) PROVE g[i] \in Home(p)
  <2>1. PICK c \in ids : c = s[i]
    OBVIOUS
  <2>2. contacts[c] \in Contact
    BY <1>1, <1>2, <2>1
  <2>3. contacts[c].kind \in Kinds /\ texts[c] \in Texts
    BY <2>1, <2>2 DEF Contact
  <2>4. Suggest(op, c, contacts[c].kind, texts[c]) \in Home(p)
    BY <2>1, <2>3, SuggestIsHome
  <2>5. QED
    BY <1>5, <1>6, <2>1, <2>4
<1>8. g \in Seq(Home(p))
  BY <1>5, <1>6, <1>7, SeqDef
<1>9. QED
  BY <1>4, <1>5, <1>8

\* Whatever the posted form says, its items name the record it was posted for.
LEMMA EditsAreHome ==
  ASSUME TypeOK, Len(contacts) <= ContactLimit, NEW p \in People, NEW form \in Form,
         NEW now, now = Profile(p), Readable(form, now)
  PROVE  Intake(p, form, now) \in Seq(Home(p))
<1>1. /\ DOMAIN now.values = ActiveContacts(p)
      /\ DOMAIN now.shares \subseteq ActiveContacts(p)
      /\ now.name \in Texts /\ now.sign \in Maybe
  BY ProfileIsAForm
<1>2. AnyKind \in Kinds
  BY SomeKind DEF AnyKind
<1>3. /\ form.name \in Texts /\ form.sign \in Maybe
      /\ \A c \in DOMAIN form.values : form.values[c] \in Texts
      /\ \A c \in DOMAIN form.shares : form.shares[c] \in Texts
  <2>1. /\ \E ids \in SUBSET (1 .. ContactLimit) : form.values \in Values(ids)
        /\ \E ids \in SUBSET (1 .. ContactLimit) : form.shares \in Values(ids)
    BY DEF Form
  <2>2. form.name \in Texts /\ form.sign \in Maybe
    BY DEF Form
  <2>3. QED
    BY <2>1, <2>2 DEF Values
<1>4. PICK differ : differ = {c \in DOMAIN now.values : form.values[c] # now.values[c]}
  OBVIOUS
<1>5. PICK chosen :
        chosen = {c \in DOMAIN now.shares : Share(form, now, c) # now.shares[c]}
  OBVIOUS
<1>6. PICK names : names = IF form.name = now.name THEN <<>>
                           ELSE <<Suggest("person.display_name.set", p, AnyKind, form.name)>>
  OBVIOUS
<1>7. PICK signs : signs = IF form.sign = now.sign THEN <<>>
                           ELSE <<Suggest("person.call_sign.set", p, AnyKind, form.sign)>>
  OBVIOUS
<1>8. PICK updates :
        updates = [i \in DOMAIN Ascending(differ) |->
                     LET c == Ascending(differ)[i] IN
                     Suggest("contact_method.update", c, contacts[c].kind, form.values[c])]
  OBVIOUS
<1>9. PICK choices :
        choices = [i \in DOMAIN Ascending(chosen) |->
                     LET c == Ascending(chosen)[i] IN
                     Suggest("contact_method.visibility.set", c, contacts[c].kind,
                             form.shares[c])]
  OBVIOUS
<1>10. EditItems(p, form, now) = names \o signs \o updates \o choices
  BY <1>4, <1>5, <1>6, <1>7, <1>8, <1>9 DEF EditItems
<1>11. PersonOps \subseteq Operations /\ "person.display_name.set" \in PersonOps
       /\ "person.call_sign.set" \in PersonOps /\ "contact_method.update" \in ContactOps
       /\ "contact_method.visibility.set" \in ContactOps
  BY DEF PersonOps, ContactOps, Operations
<1>12. names \in Seq(Home(p))
  <2>1. Suggest("person.display_name.set", p, AnyKind, form.name) \in Home(p)
    BY <1>2, <1>3, <1>11, SuggestIsHome
  <2>2. QED
    BY <1>6, <2>1
<1>13. signs \in Seq(Home(p))
  <2>1. CASE form.sign = now.sign
    BY <1>7, <2>1
  <2>2. CASE form.sign # now.sign
    <3>1. form.sign \in Texts
      BY <1>3, <2>2 DEF Readable, Maybe
    <3>2. Suggest("person.call_sign.set", p, AnyKind, form.sign) \in Home(p)
      BY <1>2, <1>11, <3>1, SuggestIsHome
    <3>3. QED
      BY <1>7, <2>2, <3>2
  <2>3. QED
    BY <2>1, <2>2
<1>14. updates \in Seq(Home(p))
  <2>1. differ \in SUBSET ActiveContacts(p) /\ \A c \in differ : form.values[c] \in Texts
    BY <1>1, <1>3, <1>4 DEF Readable
  <2>2. QED
    BY <1>8, <1>11, <2>1, SuggestionsAreHome
<1>15. choices \in Seq(Home(p))
  <2>1. chosen \in SUBSET ActiveContacts(p) /\ \A c \in chosen : form.shares[c] \in Texts
    BY <1>1, <1>3, <1>5 DEF Share
  <2>2. QED
    BY <1>9, <1>11, <2>1, SuggestionsAreHome
<1>16. EditItems(p, form, now) \in Seq(Home(p))
  BY <1>10, <1>12, <1>13, <1>14, <1>15
<1>17. <<Suggest("other", 0, AnyKind, now.name)>> \in Seq(Home(p))
  <2>1. Suggest("other", 0, AnyKind, now.name) \in Home(p)
    BY <1>1, <1>2, SuggestIsHome
  <2>2. QED
    BY <2>1
<1>18. QED
  BY <1>16, <1>17 DEF Intake

\* Request r is the member's own and proposes nothing about others.
Sent(u, r) ==
  /\ r \in RequestIds
  /\ requests[r].requester = u
  /\ \A i \in ItemIds(r) : items[r][i].proposal \in Home(Own[u])

\* What a submission is about to file names the member's record.
SendingHome ==
  \A call \in sending :
    /\ call.by \in Users /\ call.form \in Form
    /\ call.intake \in Seq(Home(Own[call.by]))
    /\ call.seen \in [DOMAIN call.intake -> Nat]

\* The inductive invariant.
SentInv ==
  /\ TypeOK
  /\ Len(contacts) <= ContactLimit
  /\ FormsAreTyped
  /\ ClaimsAreFiled
  /\ SendingHome
  /\ told \in [Users -> Nat]
  /\ \A u \in Users : told[u] # 0 => Sent(u, told[u])

LEMMA SentStaysSent ==
  ASSUME ContactsStay, RequestsStay, NEW u, NEW r, Sent(u, r)
  PROVE  Sent(u, r)'
<1>1. r \in RequestIds' /\ requests'[r].requester = u /\ ItemIds(r)' = ItemIds(r)
  BY DEF RequestsStay, Sent
<1>2. ASSUME NEW i \in ItemIds(r)'
      PROVE  items'[r][i].proposal \in Home(Own[u])'
  <2>1. PICK q : q = items[r][i].proposal
    OBVIOUS
  <2>2. q \in Home(Own[u]) /\ items'[r][i].proposal = q
    BY <1>1, <2>1 DEF RequestsStay, Sent
  <2>3. q \in Home(Own[u])'
    BY <2>2 DEF Home, ContactsStay
  <2>4. QED
    BY <2>2, <2>3
<1>3. QED
  BY <1>1, <1>2 DEF Sent

LEMMA HomeStaysHome ==
  ASSUME ContactsStay, NEW p
  PROVE  Home(p) \subseteq Home(p)'
BY DEF Home, ContactsStay

LEMMA SendingStaysHome ==
  ASSUME SendingHome, ContactsStay, sending' \subseteq sending
  PROVE  SendingHome'
<1>1. SUFFICES ASSUME NEW call \in sending
               PROVE  call.intake \in Seq(Home(Own[call.by])')
  BY DEF SendingHome
<1>2. call.intake \in Seq(Home(Own[call.by]))
  BY DEF SendingHome
<1>3. \A S, T : S \subseteq T => Seq(S) \subseteq Seq(T)
  OBVIOUS
<1>4. QED
  BY <1>2, <1>3, HomeStaysHome

LEMMA ContactsStayFew ==
  ASSUME TypeOK, TypeOK', ContactsStay, Len(contacts) <= ContactLimit
  PROVE  Len(contacts') <= ContactLimit
<1>1. /\ ContactIds = 1 .. Len(contacts) /\ Len(contacts) \in Nat
      /\ ContactIds' = 1 .. Len(contacts') /\ Len(contacts') \in Nat
  BY DEF TypeOK, RecordsTypeOK, ContactIds
<1>2. ContactLimit \in Nat
  BY RecordLimits
<1>3. SUFFICES ASSUME Len(contacts') > ContactLimit PROVE FALSE
  BY <1>1, <1>2
<1>4. Len(contacts') \in ContactIds' /\ Len(contacts') \notin ContactIds
  BY <1>1, <1>2, <1>3
<1>5. RoomForContact /\ Len(contacts') = Len(contacts) + 1
  BY <1>4 DEF ContactsStay
<1>6. QED
  BY <1>1, <1>2, <1>3, <1>5 DEF RoomForContact

\* A form that is posted becomes items about the member's own record.
LEMMA SubmitReadsHome ==
  ASSUME SentInv, NEW u \in Users, NEW form \in Form, SubmitReads(u, form)
  PROVE  SentInv'
<1>1. /\ TypeOK /\ Len(contacts) <= ContactLimit /\ FormsAreTyped /\ ClaimsAreFiled
      /\ SendingHome /\ told \in [Users -> Nat]
      /\ \A v \in Users : told[v] # 0 => Sent(v, told[v])
  BY DEF SentInv
<1>2. Own[u] \in People
  BY OwnRecords
<1>3. PICK now : now = Profile(Own[u])
  OBVIOUS
<1>4. PICK intake : intake = Intake(Own[u], form, now)
  OBVIOUS
<1>5. PICK seen : seen = Versions(intake)
  OBVIOUS
<1>6. PICK call : call = [by |-> u, form |-> form, intake |-> intake, seen |-> seen]
  OBVIOUS
<1>7. /\ Readable(form, now) /\ sending' = sending \cup {call}
      /\ UNCHANGED <<vars, forms, told>>
  BY <1>3, <1>4, <1>5, <1>6 DEF SubmitReads
<1>8. intake \in Seq(Home(Own[u]))
  BY <1>1, <1>2, <1>3, <1>4, <1>7, EditsAreHome
<1>9. intake \in Seq(Proposal) /\ DOMAIN intake = 1 .. Len(intake)
  BY <1>8 DEF Home
<1>10. seen \in [DOMAIN intake -> Nat]
  <2>1. ASSUME NEW q \in Proposal PROVE TargetVersion(q) \in Nat
    <3>1. \A c \in ContactIds : contacts[c] \in Contact
      BY <1>1 DEF TypeOK, RecordsTypeOK, ContactIds
    <3>2. \A p \in People : persons[p] \in Person
      BY <1>1 DEF TypeOK, RecordsTypeOK
    <3>3. /\ \A c \in ContactIds : contacts[c].version \in Nat
          /\ \A p \in People : persons[p].version \in Nat
      BY <3>1, <3>2 DEF Contact, Person
    <3>4. QED
      BY <3>3 DEF TargetVersion
  <2>2. QED
    BY <1>5, <1>9, <2>1 DEF Versions
<1>11. \A p : Home(p)' = Home(p)
  BY <1>7 DEF Home, ContactIds, vars
<1>12. /\ call.by = u /\ call.form = form /\ call.intake = intake /\ call.seen = seen
  BY <1>6
<1>13. SendingHome'
  BY <1>1, <1>7, <1>8, <1>10, <1>11, <1>12 DEF SendingHome
<1>14. \A v, t : Sent(v, t)' <=> Sent(v, t)
  BY <1>7, <1>11 DEF Sent, RequestIds, ItemIds, vars
<1>15. ASSUME NEW v \in Users, told'[v] # 0 PROVE Sent(v, told[v])'
  <2>1. PICK t : t = told[v]
    OBVIOUS
  <2>2. told'[v] = t /\ t # 0
    BY <1>7, <1>15, <2>1
  <2>3. Sent(v, t)'
    BY <1>1, <1>14, <2>1, <2>2
  <2>4. QED
    BY <2>2, <2>3 DEF Sent
<1>16. /\ TypeOK' /\ Len(contacts') <= ContactLimit /\ ClaimsAreFiled'
       /\ FormsAreTyped' /\ told' \in [Users -> Nat]
  BY <1>1, <1>7 DEF vars, TypeOK, RecordsTypeOK, ClaimsAreFiled, RequestIds, FormsAreTyped
<1>17. QED
  BY <1>13, <1>15, <1>16 DEF SentInv

\* Filing tells the member of a request that is new, or of one that proposes
\* the same in the member's own name.
LEMMA SubmitSends ==
  ASSUME SentInv, NEW call \in sending, Submit(call)
  PROVE  SentInv'
<1>1. /\ TypeOK /\ Len(contacts) <= ContactLimit /\ FormsAreTyped /\ ClaimsAreFiled
      /\ SendingHome /\ told \in [Users -> Nat]
      /\ \A v \in Users : told[v] # 0 => Sent(v, told[v])
  BY DEF SentInv
<1>2. PICK u \in Users, form \in Form, intake \in Seq(Proposal) :
        /\ u = call.by /\ form = call.form /\ intake = call.intake
        /\ intake \in Seq(Home(Own[u]))
  <2>1. call.by \in Users /\ call.form \in Form /\ call.intake \in Seq(Home(Own[call.by]))
    BY <1>1 DEF SendingHome
  <2>2. Home(Own[call.by]) \subseteq Proposal
    BY DEF Home
  <2>3. call.intake \in Seq(Proposal)
    BY <2>1, <2>2
  <2>4. QED
    BY <2>1, <2>3
<1>3. PICK seen \in [DOMAIN intake -> Nat] : seen = call.seen
  BY <1>1, <1>2 DEF SendingHome
<1>4. Own[u] \in People
  BY OwnRecords
<1>5. sending' \subseteq sending
  BY DEF Submit
<1>6. FormsAreTyped'
  BY <1>1 DEF Submit, FormsAreTyped
<1>7. CASE /\ Create(u, form, u, Own[u], intake, seen)
           /\ told' = [told EXCEPT ![u] = Len(requests) + 1]
  <2>1. intake \in Seq(Proposal) /\ DOMAIN intake = 1 .. Len(intake)
    BY <1>2 DEF Home
  <2>2. u \in Users \cup {NoUser} /\ form \in Keys /\ Own[u] \in People \cup {0}
    BY <1>4, FormsAreKeys
  <2>3. Create(u, form, u, Own[u], intake, seen)
    BY <1>7
  <2>4. TypeOK'
    BY <1>1, <1>3, <2>1, <2>2, <2>3, CreateIsTyped
  <2>5. /\ RequestsStay
        /\ RequestIds' = RequestIds \cup {Len(requests) + 1}
        /\ requests'[Len(requests) + 1].requester = u
        /\ DOMAIN items'[Len(requests) + 1] = DOMAIN intake
        /\ \A i \in DOMAIN intake : items'[Len(requests) + 1][i].proposal = intake[i]
    <3>1. AddsOne(u, intake)
      BY <1>1, <1>3, <2>1, <2>2, <2>3, CreateAddsOne
    <3>2. QED
      BY <3>1 DEF AddsOne
  <2>6. contacts' = contacts
    BY <1>7 DEF Create, recordVars
  <2>7. ContactsStay
    BY <1>1, <2>6, ContactWritesStay DEF TypeOK
  <2>8. PICK n \in Nat : n = Len(requests) + 1 /\ n # 0
    BY <1>1 DEF TypeOK
  <2>9. Sent(u, n)'
    <3>1. \A i \in DOMAIN intake : intake[i] \in Home(Own[u])
      BY <1>2
    <3>2. Home(Own[u])' = Home(Own[u])
      BY <2>6 DEF Home, ContactIds
    <3>3. QED
      BY <2>5, <2>8, <3>1, <3>2 DEF Sent, ItemIds
  <2>10. told' = [told EXCEPT ![u] = n] /\ told' \in [Users -> Nat]
    BY <1>1, <1>7, <2>8
  <2>11. ASSUME NEW v \in Users, told'[v] # 0 PROVE Sent(v, told[v])'
    <3>1. CASE v = u
      <4>1. PICK t : t = told'[v]
        OBVIOUS
      <4>2. t = n
        BY <1>1, <2>10, <3>1, <4>1
      <4>3. QED
        BY <2>9, <3>1, <4>1, <4>2 DEF Sent
    <3>2. CASE v # u
      <4>1. PICK t : t = told[v]
        OBVIOUS
      <4>2. told'[v] = t /\ t # 0
        BY <1>1, <2>10, <2>11, <3>2, <4>1
      <4>3. Sent(v, t)'
        BY <1>1, <2>5, <2>7, <4>1, <4>2, SentStaysSent
      <4>4. QED
        BY <4>2, <4>3 DEF Sent
    <3>3. QED
      BY <3>1, <3>2
  <2>12. ClaimsAreFiled'
    BY <1>1, <1>7, <2>5 DEF Create, ClaimsAreFiled
  <2>13. Len(contacts') <= ContactLimit
    BY <1>1, <2>6
  <2>14. SendingHome'
    BY <1>1, <1>5, <2>7, SendingStaysHome
  <2>15. QED
    BY <1>6, <2>4, <2>10, <2>11, <2>12, <2>13, <2>14 DEF SentInv
<1>8. CASE \E c \in claims :
             /\ c.actor = u /\ c.key = form
             /\ SameRequest(call, c.request)
             /\ told' = [told EXCEPT ![u] = c.request]
             /\ UNCHANGED vars
  <2>1. PICK r \in RequestIds : /\ SameRequest(call, r)
                                /\ told' = [told EXCEPT ![u] = r]
                                /\ UNCHANGED vars
    BY <1>1, <1>8 DEF ClaimsAreFiled
  <2>2. ItemIds(r) = 1 .. Len(items[r]) /\ r \in Nat
    BY <1>1, <2>1, ItemsAreNumbered DEF TypeOK
  <2>3. Sent(u, r)
    BY <1>2, <2>1, <2>2 DEF SameRequest, Sent
  <2>4. told' \in [Users -> Nat] /\ \A v \in Users : told'[v] # 0 => Sent(v, told'[v])
    BY <1>1, <2>1, <2>2, <2>3
  <2>5. \A v, t : Sent(v, t)' <=> Sent(v, t)
    BY <2>1 DEF Sent, Home, ContactIds, RequestIds, ItemIds, vars
  <2>6. TypeOK' /\ Len(contacts') <= ContactLimit /\ ClaimsAreFiled'
    BY <1>1, <2>1 DEF vars, TypeOK, RecordsTypeOK, ClaimsAreFiled, RequestIds
  <2>7. ASSUME NEW v \in Users, told'[v] # 0 PROVE Sent(v, told[v])'
    <3>1. PICK t : t = told'[v]
      OBVIOUS
    <3>2. Sent(v, t)'
      BY <2>4, <2>5, <2>7, <3>1
    <3>3. QED
      BY <3>1, <3>2 DEF Sent
  <2>8. ContactsStay
    BY <1>1, <2>1, ContactWritesStay DEF TypeOK, vars
  <2>9. SendingHome'
    BY <1>1, <1>5, <2>8, SendingStaysHome
  <2>10. QED
    BY <1>6, <2>4, <2>6, <2>7, <2>9 DEF SentInv
<1>9. QED
  BY <1>2, <1>3, <1>7, <1>8 DEF Submit

\* "A contact input is read by looking up each contact the record holds": what a
\* member is told was sent is their own request, and each of its items names
\* their record or a contact of it, whatever the form posted and whoever filed
\* under the same key.
THEOREM SuggestionsAreOwn == SuggestionSpec => []SuggestionsStayAtHome
<1>1. SuggestionInit => SentInv
  <2>1. SUFFICES ASSUME SuggestionInit PROVE SentInv
    OBVIOUS
  <2>2. TypeOK /\ ClaimsAreFiled
    BY <2>1, FirstRecords DEF SuggestionInit, Init, RecordsInit, TypeOK, RecordsTypeOK,
       ClaimsAreFiled
  <2>3. Len(contacts) <= ContactLimit
    BY <2>1, RoomAtFirst DEF SuggestionInit, Init, RecordsInit
  <2>4. QED
    BY <2>1, <2>2, <2>3 DEF SuggestionInit, SentInv, FormsAreTyped, SendingHome
<1>2. SentInv /\ [SuggestionNext]_suggestionVars => SentInv'
  <2>1. SUFFICES ASSUME SentInv, [SuggestionNext]_suggestionVars PROVE SentInv'
    OBVIOUS
  <2>2. /\ TypeOK /\ Len(contacts) <= ContactLimit /\ FormsAreTyped /\ ClaimsAreFiled
        /\ SendingHome /\ told \in [Users -> Nat]
        /\ \A v \in Users : told[v] # 0 => Sent(v, told[v])
    BY <2>1 DEF SentInv
  <2>3. ASSUME UNCHANGED vars
        PROVE  /\ TypeOK' /\ Len(contacts') <= ContactLimit /\ ClaimsAreFiled'
               /\ ContactsStay /\ \A v, t : Sent(v, t)' <=> Sent(v, t)
    <3>1. ContactsStay
      BY <2>2, <2>3, ContactWritesStay DEF TypeOK, vars
    <3>2. QED
      BY <2>2, <2>3, <3>1 DEF vars, TypeOK, RecordsTypeOK, ClaimsAreFiled, RequestIds, Sent,
         Home, ContactIds, ItemIds
  <2>4. ASSUME NEW u \in Users, OpenForm(u) PROVE SentInv'
    <3>1. UNCHANGED vars /\ told' = [told EXCEPT ![u] = 0]
      BY <2>4 DEF OpenForm
    <3>2. FormsAreTyped'
      <4>1. Profile(Own[u]) \in Form
        BY <2>2, OwnRecords, ProfileIsAForm
      <4>2. QED
        BY <2>2, <2>4, <4>1 DEF OpenForm, FormsAreTyped
    <3>3. told' \in [Users -> Nat]
      BY <2>2, <3>1
    <3>4. ASSUME NEW v \in Users, told'[v] # 0 PROVE Sent(v, told[v])'
      <4>1. PICK t : t = told[v]
        OBVIOUS
      <4>2. told'[v] = t /\ t # 0
        BY <2>2, <3>1, <3>4, <4>1
      <4>3. Sent(v, t)'
        BY <2>2, <2>3, <3>1, <4>1, <4>2
      <4>4. QED
        BY <4>2, <4>3 DEF Sent
    <3>5. SendingHome'
      BY <2>2, <2>3, <2>4, <3>1, SendingStaysHome DEF OpenForm
    <3>6. QED
      BY <2>3, <3>1, <3>2, <3>3, <3>4, <3>5 DEF SentInv
  <2>5. ASSUME NEW u \in Users, forms[u] # NoForm,
               NEW form \in Edits(forms[u]), SubmitReads(u, form)
        PROVE  SentInv'
    <3>1. forms[u] \in Form
      BY <2>2, <2>5 DEF FormsAreTyped
    <3>2. form \in Form
      BY <2>5, <3>1, EditsAreForms
    <3>3. QED
      BY <2>1, <2>5, <3>2, SubmitReadsHome
  <2>6. ASSUME Next, UNCHANGED <<forms, sending, told>> PROVE SentInv'
    <3>1. TypeOK' /\ RequestsStay /\ ContactsStay /\ ClaimsAreFiled'
      BY <2>2, <2>6, StepIsTyped, StepStays
    <3>2. Len(contacts') <= ContactLimit
      BY <2>2, <3>1, ContactsStayFew
    <3>3. ASSUME NEW v \in Users, told'[v] # 0 PROVE Sent(v, told[v])'
      <4>1. PICK t : t = told[v]
        OBVIOUS
      <4>2. told'[v] = t /\ t # 0
        BY <2>6, <3>3, <4>1
      <4>3. Sent(v, t)'
        BY <2>2, <3>1, <4>1, <4>2, SentStaysSent
      <4>4. QED
        BY <4>2, <4>3 DEF Sent
    <3>4. FormsAreTyped' /\ told' \in [Users -> Nat]
      BY <2>2, <2>6 DEF FormsAreTyped
    <3>5. SendingHome'
      BY <2>2, <2>6, <3>1, SendingStaysHome
    <3>6. QED
      BY <3>1, <3>2, <3>3, <3>4, <3>5 DEF SentInv
  <2>7. ASSUME UNCHANGED suggestionVars PROVE SentInv'
    <3>1. UNCHANGED vars /\ forms' = forms /\ sending' = sending /\ told' = told
      BY <2>7 DEF suggestionVars
    <3>2. ASSUME NEW v \in Users, told'[v] # 0 PROVE Sent(v, told[v])'
      <4>1. PICK t : t = told[v]
        OBVIOUS
      <4>2. told'[v] = t /\ Sent(v, t)'
        BY <2>2, <2>3, <3>1, <3>2, <4>1
      <4>3. QED
        BY <4>2 DEF Sent
    <3>3. SendingHome'
      BY <2>2, <2>3, <3>1, SendingStaysHome
    <3>4. QED
      BY <2>2, <2>3, <3>1, <3>2, <3>3 DEF SentInv, FormsAreTyped
  <2>8. ASSUME NEW call \in sending, Submit(call) PROVE SentInv'
    BY <2>1, <2>8, SubmitSends
  <2>9. ASSUME NEW call \in sending, SubmitStops(call) PROVE SentInv'
    <3>1. /\ UNCHANGED vars /\ forms' = forms /\ told' = told
          /\ sending' \subseteq sending
      BY <2>9 DEF SubmitStops
    <3>2. ASSUME NEW v \in Users, told'[v] # 0 PROVE Sent(v, told[v])'
      <4>1. PICK t : t = told[v]
        OBVIOUS
      <4>2. told'[v] = t /\ Sent(v, t)'
        BY <2>2, <2>3, <3>1, <3>2, <4>1
      <4>3. QED
        BY <4>2 DEF Sent
    <3>3. SendingHome'
      BY <2>2, <2>3, <3>1, SendingStaysHome
    <3>4. QED
      BY <2>2, <2>3, <3>1, <3>2, <3>3 DEF SentInv, FormsAreTyped
  <2>10. QED
    BY <2>1, <2>4, <2>5, <2>6, <2>7, <2>8, <2>9 DEF SuggestionNext
<1>3. SentInv => SuggestionsStayAtHome
  <2>1. SUFFICES ASSUME SentInv, NEW u \in Users, told[u] # 0
                 PROVE  /\ requests[told[u]].requester = u
                        /\ \A i \in ItemIds(told[u]) :
                             LET proposal == items[told[u]][i].proposal IN
                             CASE proposal.op \in ContactOps ->
                                    contacts[proposal.target].owner = Own[u]
                               [] proposal.op \in PersonOps -> proposal.target = Own[u]
                               [] OTHER -> proposal.target = 0
    BY DEF SuggestionsStayAtHome
  <2>2. Sent(u, told[u])
    BY <2>1 DEF SentInv
  <2>3. ASSUME NEW q \in Home(Own[u])
        PROVE  CASE q.op \in ContactOps -> contacts[q.target].owner = Own[u]
                 [] q.op \in PersonOps -> q.target = Own[u]
                 [] OTHER -> q.target = 0
    BY DEF Home, ContactOps, PersonOps
  <2>4. QED
    BY <2>2, <2>3 DEF Sent
<1>4. QED
  BY <1>1, <1>2, <1>3, PTL DEF SuggestionSpec

=============================================================================
