---------------------------- MODULE LedgerProofs ----------------------------
(***************************************************************************)
(* Theorems about the ledger, for every value of its constants: its types, *)
(* the coverage history, what a finished batch keeps, what a correction    *)
(* links, which receipt numbers exist, what a posting leaves behind and    *)
(* which key did the work.                                                 *)
(***************************************************************************)
EXTENDS Ledger, RankingProofs, SequenceTheorems, FiniteSetTheorems, WellFoundedInduction, TLAPS

-----------------------------------------------------------------------------
(* Facts about sequences and sets of numbers.                              *)

\* A bounded set of positions has a greatest one.  The library only offers
\* least elements, so reflect the set.
LEMMA GreatestPosition ==
  ASSUME NEW n \in Nat, NEW S \in SUBSET (1 .. n), S # {}
  PROVE  Max(S) \in S /\ \A x \in S : x <= Max(S)
<1> DEFINE T == {n - x : x \in S}
<1>1. T \subseteq Nat /\ T # {}
  <2>1. \A x \in S : x \in Int /\ x <= n
    OBVIOUS
  <2>2. \A x \in S : n - x \in Nat
    BY <2>1
  <2>3. T # {}
    OBVIOUS
  <2>4. QED
    BY <2>2, <2>3
<1>2. PICK t \in T : \A u \in T : ~ (<<u, t>> \in OpToRel(<, Nat))
  BY <1>1, WFMin, NatLessThanWellFounded
<1>3. \A u \in T : ~ (u < t)
  BY <1>1, <1>2 DEF OpToRel
<1>4. PICK x \in S : t = n - x
  OBVIOUS
<1>5. \A y \in S : x >= y
  <2>1. SUFFICES ASSUME NEW y \in S PROVE x >= y
    OBVIOUS
  <2>2. n - y \in T
    OBVIOUS
  <2>3. QED
    BY <1>3, <1>4, <2>2
<1>6. QED
  BY <1>5 DEF Max

\* Deleting a row leaves a sequence of rows.
LEMMA RemoveAtIsASeq ==
  ASSUME NEW S, NEW s \in Seq(S), NEW i \in 1 .. Len(s)
  PROVE  RemoveAt(s, i) \in Seq(S)
<1>1. SubSeq(s, 1, i - 1) \in Seq(S)
  BY SubSeqProperties, ElementOfSeq
<1>2. SubSeq(s, i + 1, Len(s)) \in Seq(S)
  BY SubSeqProperties, ElementOfSeq
<1>3. QED
  BY <1>1, <1>2, ConcatProperties DEF RemoveAt

LEMMA LastIsAnElement ==
  ASSUME NEW S, NEW s \in Seq(S), s # <<>>
  PROVE  Last(s) \in S
BY DEF Last

-----------------------------------------------------------------------------
(* Type correctness.                                                       *)

LEMMA EffectiveCoverageIsAnId ==
  ASSUME NEW m, coverage \in Seq(Decision)
  PROVE  /\ EffectiveCoverage(m) \in 0 .. Len(coverage)
         /\ EffectiveCoverage(m) = 0 <=> Heads(m) = {}
         /\ Heads(m) # {} => EffectiveCoverage(m) \in Heads(m)
<1>1. Heads(m) \subseteq 1 .. Len(coverage)
  BY DEF Heads
<1>2. Len(coverage) \in Nat
  OBVIOUS
<1>3. QED
  BY <1>1, <1>2 DEF EffectiveCoverage

LEMMA DecideIsTyped ==
  ASSUME coverage \in Seq(Decision), NEW m \in Members, NEW paid \in Dates,
         NEW reason \in Reasons, NEW payment \in Nat,
         (reason \in {"payment", "correction"}) = (payment # 0)
  PROVE  Decide(m, paid, reason, payment) \in Seq(Decision)
<1>1. EffectiveCoverage(m) \in Nat
  BY EffectiveCoverageIsAnId
<1>2. [member |-> m, paid |-> paid, reason |-> reason, payment |-> payment,
       supersedes |-> EffectiveCoverage(m)] \in Decision
  BY <1>1 DEF Decision
<1>3. QED
  BY <1>2, AppendProperties DEF Decide

\* Row i supersedes an earlier row of the batch, or what was in force.
LEMMA PredecessorIsAnId ==
  ASSUME coverage \in Seq(Decision), NEW rows \in Seq(Entry),
         NEW i \in 1 .. Len(rows)
  PROVE  /\ Predecessor(rows, i) \in Nat
         /\ EarlierRows(rows, i) = {} =>
              Predecessor(rows, i) = EffectiveCoverage(rows[i].member)
         /\ EarlierRows(rows, i) # {} =>
              \E j \in EarlierRows(rows, i) :
                /\ Predecessor(rows, i) = Len(coverage) + j
                /\ \A x \in EarlierRows(rows, i) : x <= j
<1>1. CASE EarlierRows(rows, i) = {}
  BY <1>1, EffectiveCoverageIsAnId DEF Predecessor
<1>2. CASE EarlierRows(rows, i) # {}
  <2> DEFINE last == Max(EarlierRows(rows, i))
  <2>1. i - 1 \in Nat /\ Len(coverage) \in Nat
    OBVIOUS
  <2>2. EarlierRows(rows, i) \in SUBSET (1 .. i - 1)
    BY DEF EarlierRows
  <2>3. last \in EarlierRows(rows, i) /\ \A x \in EarlierRows(rows, i) : x <= last
    BY <1>2, <2>1, <2>2, GreatestPosition
  <2>4. Predecessor(rows, i) = Len(coverage) + last
    BY <1>2 DEF Predecessor
  <2>5. last \in Nat
    BY <2>2, <2>3
  <2>6. QED
    BY <1>2, <2>1, <2>3, <2>4, <2>5
<1>3. QED
  BY <1>1, <1>2

LEMMA AmountIsPositive ==
  \A amount \in Amounts : amount \in Int /\ amount > 0
<1>1. \A x \in Nat \ {0} : x \in Int /\ x > 0
  OBVIOUS
<1>2. QED
  BY <1>1, AmountsArePositive

LEMMA PostRowsIsTyped ==
  ASSUME payments \in Seq(Payment), coverage \in Seq(Decision),
         NEW b \in Nat, NEW rows \in Seq(Entry), PostRows(b, rows)
  PROVE  payments' \in Seq(Payment) /\ coverage' \in Seq(Decision)
<1> DEFINE ps == [i \in DOMAIN rows |-> Original(b, rows[i])]
           gs == [i \in DOMAIN rows |-> Grant(rows, i)]
<1>1. ASSUME NEW i \in 1 .. Len(rows)
      PROVE  /\ Original(b, rows[i]) \in Payment
             /\ Grant(rows, i) \in Decision
  <2>1. rows[i] \in Entry
    OBVIOUS
  <2>2. rows[i].amount \in Int /\ rows[i].amount > 0
    BY <2>1, AmountIsPositive DEF Entry
  <2>3. rows[i].member \in Members /\ rows[i].paid \in Dates /\ rows[i].seq \in Nat
    BY <2>1 DEF Entry
  <2>4. <<>> \in Seq({"R", "C"} \X Nat)
    OBVIOUS
  <2>5. [batch |-> b, seq |-> rows[i].seq, trail |-> <<>>] \in Receipt
    BY <2>3, <2>4 DEF Receipt
  <2>6. Original(b, rows[i]) \in Payment
    BY <2>2, <2>3, <2>5 DEF Original, Payment, Kinds
  <2>7. Predecessor(rows, i) \in Nat
    BY PredecessorIsAnId
  <2>8. Len(payments) + i \in Nat \ {0}
    OBVIOUS
  <2>9. Grant(rows, i) \in Decision
    BY <2>3, <2>7, <2>8 DEF Grant, Decision, Reasons
  <2>10. QED
    BY <2>6, <2>9
<1>2. DOMAIN rows = 1 .. Len(rows) /\ Len(rows) \in Nat
  OBVIOUS
<1>3. ps \in Seq(Payment)
  BY <1>1, <1>2, SeqDef
<1>4. gs \in Seq(Decision)
  BY <1>1, <1>2, SeqDef
<1>5. QED
  BY <1>3, <1>4, ConcatProperties DEF PostRows

LEMMA CompleteIsTyped ==
  ASSUME claims \subseteq Claim, NEW a \in Actors, NEW k \in Keys \cup {NoKey},
         NEW op \in Operations, NEW id \in Nat, Complete(a, op, k, id)
  PROVE  (claims \subseteq Claim)'
BY DEF Complete, Claim

LEMMA TouchIsTyped ==
  ASSUME batches \in Seq(Batch), NEW b \in DOMAIN batches, Touch(b)
  PROVE  batches' \in Seq(Batch) /\ Len(batches') = Len(batches)
<1>1. batches[b] \in Batch
  OBVIOUS
<1>2. [batches[b] EXCEPT !.version = @ + 1] \in Batch
  BY <1>1 DEF Batch
<1>3. batches' = [batches EXCEPT ![b] = [batches[b] EXCEPT !.version = @ + 1]]
  BY DEF Touch
<1>4. QED
  BY <1>2, <1>3, ExceptSeq

LEMMA EditedIsTyped ==
  ASSUME NEW row \in Entry, NEW m \in Members, NEW amount \in Amounts,
         NEW paid \in Dates
  PROVE  Edited(row, m, amount, paid) \in Entry
BY DEF Edited, Entry

LEMMA DraftStepIsTyped ==
  ASSUME TypeOK, DraftStep
  PROVE  TypeOK'
<1> USE DEF TypeOK
<1>1. ASSUME NEW a \in Actors, NEW k \in Keys \cup {NoKey}, OpenBatch(a, k)
      PROVE  TypeOK'
  <2>1. NewBatch \in Batch /\ <<>> \in Seq(Entry) /\ Len(batches) + 1 \in Nat
    BY DEF NewBatch, Batch, States
  <2>2. batches' \in Seq(Batch) /\ Len(batches') = Len(batches) + 1
    BY <1>1, <2>1, AppendProperties DEF OpenBatch
  <2>3. entries' \in Seq(Seq(Entry)) /\ Len(entries') = Len(entries) + 1
    BY <1>1, <2>1, AppendProperties DEF OpenBatch
  <2>4. claims' \subseteq Claim
    BY <1>1, <2>1, CompleteIsTyped DEF OpenBatch, Operations
  <2>5. QED
    BY <1>1, <2>2, <2>3, <2>4 DEF OpenBatch
<1>2. ASSUME NEW b \in DOMAIN batches, NEW expected \in 1 .. VersionLimit,
             UpdateBatch(b, expected) \/ AbandonBatch(b, expected)
      PROVE  TypeOK'
  <2>1. CASE UpdateBatch(b, expected)
    BY <2>1, TouchIsTyped DEF UpdateBatch
  <2>2. CASE AbandonBatch(b, expected)
    <3>1. [state |-> "abandoned", version |-> expected + 1] \in Batch
      BY DEF Batch, States
    <3>2. batches' \in Seq(Batch) /\ Len(batches') = Len(batches)
      BY <2>2, <3>1, ExceptSeq DEF AbandonBatch
    <3>3. QED
      BY <2>2, <3>2 DEF AbandonBatch
  <2>3. QED
    BY <1>2, <2>1, <2>2
<1>3. ASSUME NEW b \in DOMAIN batches, NEW m \in Members, NEW amount \in Amounts,
             NEW paid \in Dates, NEW a \in Actors, NEW k \in Keys \cup {NoKey},
             NEW id \in 1 .. EntryIdLimit, AddEntry(a, k, b, id, m, amount, paid)
      PROVE  TypeOK'
  <2> DEFINE row == [id |-> id, seq |-> NextSequence(b), member |-> m,
                     amount |-> amount, paid |-> paid, version |-> 1]
  <2>1. b \in 1 .. Len(entries) /\ entries[b] \in Seq(Entry)
    OBVIOUS
  <2>2. NextSequence(b) \in Nat
    <3>1. CASE entries[b] = <<>>
      BY <3>1 DEF NextSequence
    <3>2. CASE entries[b] # <<>>
      <4>1. Last(entries[b]) \in Entry
        BY <2>1, <3>2, LastIsAnElement
      <4>2. QED
        BY <3>2, <4>1 DEF NextSequence, Entry
    <3>3. QED
      BY <3>1, <3>2
  <2>3. row \in Entry
    BY <2>2 DEF Entry
  <2>4. Append(entries[b], row) \in Seq(Entry)
    BY <2>1, <2>3, AppendProperties
  <2>5. entries' \in Seq(Seq(Entry)) /\ Len(entries') = Len(entries)
    BY <1>3, <2>1, <2>4, ExceptSeq DEF AddEntry
  <2>6. batches' \in Seq(Batch) /\ Len(batches') = Len(batches)
    BY <1>3, TouchIsTyped DEF AddEntry
  <2>7. claims' \subseteq Claim
    <3>1. id \in Nat /\ "entry-create" \in Operations
      BY LimitsAreNumbers DEF Operations
    <3>2. QED
      BY <1>3, <3>1, CompleteIsTyped DEF AddEntry
  <2>8. QED
    BY <1>3, <2>5, <2>6, <2>7 DEF AddEntry
<1>4. ASSUME NEW b \in DOMAIN batches, NEW m \in Members, NEW amount \in Amounts,
             NEW paid \in Dates, NEW i \in DOMAIN entries[b],
             NEW expected \in 1 .. VersionLimit,
             UpdateEntry(b, i, expected, m, amount, paid)
      PROVE  TypeOK'
  <2> DEFINE row == Edited(entries[b][i], m, amount, paid)
  <2>1. /\ b \in 1 .. Len(entries) /\ entries[b] \in Seq(Entry)
        /\ i \in 1 .. Len(entries[b]) /\ entries[b][i] \in Entry
    OBVIOUS
  <2>2. row \in Entry
    BY <2>1, EditedIsTyped
  <2>3. [entries[b] EXCEPT ![i] = row] \in Seq(Entry)
    BY <2>1, <2>2, ExceptSeq
  <2>4. entries' = [entries EXCEPT ![b] = [entries[b] EXCEPT ![i] = row]]
    BY <1>4 DEF UpdateEntry
  <2>5. entries' \in Seq(Seq(Entry)) /\ Len(entries') = Len(entries)
    BY <2>1, <2>3, <2>4, ExceptSeq
  <2>6. batches' \in Seq(Batch) /\ Len(batches') = Len(batches)
    BY <1>4, TouchIsTyped DEF UpdateEntry
  <2>7. QED
    BY <1>4, <2>5, <2>6 DEF UpdateEntry
<1>5. ASSUME NEW b \in DOMAIN batches, NEW expected \in 1 .. VersionLimit,
             NEW i \in DOMAIN entries[b], DeleteEntry(b, i, expected)
      PROVE  TypeOK'
  <2>1. /\ b \in 1 .. Len(entries) /\ entries[b] \in Seq(Entry)
        /\ i \in 1 .. Len(entries[b])
    OBVIOUS
  <2>2. RemoveAt(entries[b], i) \in Seq(Entry)
    BY <2>1, RemoveAtIsASeq
  <2>3. entries' \in Seq(Seq(Entry)) /\ Len(entries') = Len(entries)
    BY <1>5, <2>1, <2>2, ExceptSeq DEF DeleteEntry
  <2>4. batches' \in Seq(Batch) /\ Len(batches') = Len(batches)
    BY <1>5, TouchIsTyped DEF DeleteEntry
  <2>5. QED
    BY <1>5, <2>3, <2>4 DEF DeleteEntry
<1>6. QED
  BY <1>1, <1>2, <1>3, <1>4, <1>5 DEF DraftStep

LEMMA RevisionIsTyped ==
  ASSUME NEW p, NEW n \in Nat, NEW mark \in {"R", "C"},
         payments[p].receipt \in Receipt
  PROVE  Marked(payments[p].receipt, mark, n) \in Receipt
<1> DEFINE r == payments[p].receipt
<1>1. r.trail \in Seq({"R", "C"} \X Nat) /\ <<mark, n>> \in {"R", "C"} \X Nat
  BY DEF Receipt
<1>2. Append(r.trail, <<mark, n>>) \in Seq({"R", "C"} \X Nat)
  BY <1>1, AppendProperties
<1>3. QED
  BY <1>2 DEF Marked, Receipt

LEMMA ReversalIsTyped ==
  ASSUME NEW p, NEW n \in Nat, payments[p] \in Payment,
         payments[p].kind # "reversal", p \in Nat \ {0}
  PROVE  Reversal(p, n) \in Payment
<1>1. /\ payments[p].member \in Members /\ payments[p].batch \in Nat
      /\ payments[p].amount \in Int /\ payments[p].amount # 0
      /\ ~ (payments[p].amount < 0)
  BY DEF Payment
<1>2. Marked(payments[p].receipt, "R", n) \in Receipt
  BY RevisionIsTyped DEF Payment
<1>3. Reversal(p, n) =
        [member |-> payments[p].member, batch |-> payments[p].batch,
         amount |-> -payments[p].amount, kind |-> "reversal", corrects |-> p,
         receipt |-> Marked(payments[p].receipt, "R", n)]
  BY DEF Reversal, Correcting
<1>4. -payments[p].amount \in Int /\ -payments[p].amount < 0
  BY <1>1
<1>5. QED
  BY <1>1, <1>2, <1>3, <1>4 DEF Payment, Kinds

LEMMA ReplacementIsTyped ==
  ASSUME NEW p, NEW n \in Nat, NEW amount \in Amounts, payments[p] \in Payment,
         p \in Nat \ {0}
  PROVE  Replacement(p, n, amount) \in Payment
<1>1. /\ payments[p].member \in Members /\ payments[p].batch \in Nat
      /\ amount \in Int /\ amount > 0
  BY AmountIsPositive DEF Payment
<1>2. Marked(payments[p].receipt, "C", n) \in Receipt
  BY RevisionIsTyped DEF Payment
<1>3. Replacement(p, n, amount) =
        [member |-> payments[p].member, batch |-> payments[p].batch,
         amount |-> amount, kind |-> "replacement", corrects |-> p,
         receipt |-> Marked(payments[p].receipt, "C", n)]
  BY DEF Replacement, Correcting
<1>4. QED
  BY <1>1, <1>2, <1>3 DEF Payment, Kinds

LEMMA PostingStepIsTyped ==
  ASSUME TypeOK, PostingStep
  PROVE  TypeOK'
<1> USE DEF TypeOK
<1>1. ASSUME NEW a \in Actors, NEW k \in Keys, NEW b \in DOMAIN batches,
             NEW expected \in 1 .. VersionLimit, Post(a, k, b, expected)
      PROVE  TypeOK'
  <2>1. b \in 1 .. Len(entries) /\ entries[b] \in Seq(Entry) /\ b \in Nat
    OBVIOUS
  <2>2. payments' \in Seq(Payment) /\ coverage' \in Seq(Decision)
    BY <1>1, <2>1, PostRowsIsTyped DEF Post
  <2>3. [state |-> "posted", version |-> expected + 1] \in Batch
    BY DEF Batch, States
  <2>4. batches' \in Seq(Batch) /\ Len(batches') = Len(batches)
    BY <1>1, <2>3, ExceptSeq DEF Post
  <2>5. claims' \subseteq Claim
    BY <1>1, <2>1, CompleteIsTyped DEF Post, Operations
  <2>6. QED
    BY <1>1, <2>2, <2>4, <2>5 DEF Post
<1>2. ASSUME NEW a \in Actors, NEW k \in Keys, NEW id \in 1 .. EntryIdLimit,
             NEW m \in Members, NEW amount \in Amounts, NEW paid \in Dates,
             PostSingle(a, k, id, m, amount, paid)
      PROVE  TypeOK'
  <2> DEFINE b == Len(batches) + 1
             row == [id |-> id, seq |-> 1, member |-> m, amount |-> amount,
                     paid |-> paid, version |-> 1]
  <2>1. id \in Nat /\ b \in Nat /\ "single-payment" \in Operations
    BY LimitsAreNumbers DEF Operations
  <2>2. row \in Entry
    BY <2>1 DEF Entry
  <2>3. <<row>> \in Seq(Entry)
    BY <2>2
  <2>4. payments' \in Seq(Payment) /\ coverage' \in Seq(Decision)
    BY <1>2, <2>1, <2>3, PostRowsIsTyped DEF PostSingle
  <2>5. [state |-> "posted", version |-> 2] \in Batch
    BY DEF Batch, States
  <2>6. batches' \in Seq(Batch) /\ Len(batches') = Len(batches) + 1
    BY <1>2, <2>5, AppendProperties DEF PostSingle
  <2>7. entries' \in Seq(Seq(Entry)) /\ Len(entries') = Len(entries) + 1
    BY <1>2, <2>3, AppendProperties DEF PostSingle
  <2>8. claims' \subseteq Claim
    BY <1>2, <2>1, CompleteIsTyped DEF PostSingle
  <2>9. QED
    BY <1>2, <2>4, <2>6, <2>7, <2>8 DEF PostSingle
<1>3. ASSUME NEW a \in Actors, NEW k \in Keys, NEW p \in DOMAIN payments,
             NEW expected \in 0 .. CorrectionLimit, NEW amount \in Amounts,
             NEW paid \in Dates, Correct(a, k, p, expected, amount, paid)
      PROVE  TypeOK'
  <2>1. /\ p \in 1 .. Len(payments) /\ payments[p] \in Payment
        /\ expected + 1 \in Nat /\ Len(payments) \in Nat
    BY LimitsAreNumbers
  <2>2. Reversal(p, expected + 1) \in Payment
    BY <1>3, <2>1, ReversalIsTyped DEF Correct
  <2>3. Replacement(p, expected + 1, amount) \in Payment
    BY <2>1, ReplacementIsTyped
  <2>4. <<Reversal(p, expected + 1), Replacement(p, expected + 1, amount)>>
          \in Seq(Payment)
    BY <2>2, <2>3
  <2>5. payments' \in Seq(Payment)
    BY <1>3, <2>4, ConcatProperties DEF Correct
  <2>6. [original |-> p, reversal |-> Len(payments) + 1,
         replacement |-> Len(payments) + 2] \in Correction
    BY <2>1 DEF Correction
  <2>7. corrections' \in Seq(Correction)
    BY <1>3, <2>6, AppendProperties DEF Correct
  <2>8. coverage' \in Seq(Decision)
    <3>1. Len(payments) + 2 \in Nat /\ Len(payments) + 2 # 0
      BY <2>1
    <3>2. payments[p].member \in Members
      BY <2>1 DEF Payment
    <3>3. Decide(payments[p].member, paid, "correction", Len(payments) + 2)
            \in Seq(Decision)
      BY <3>1, <3>2, DecideIsTyped DEF Reasons
    <3>4. QED
      BY <1>3, <3>3 DEF Correct, RestateCoverage
  <2>9. claims' \subseteq Claim
    <3>1. Len(payments) + 2 \in Nat /\ "payment-correct" \in Operations
      BY <2>1 DEF Operations
    <3>2. QED
      BY <1>3, <3>1, CompleteIsTyped DEF Correct
  <2>10. QED
    BY <1>3, <2>5, <2>7, <2>8, <2>9 DEF Correct
<1>4. QED
  BY <1>1, <1>2, <1>3 DEF PostingStep

LEMMA DecisionStepIsTyped ==
  ASSUME TypeOK, DecisionStep
  PROVE  TypeOK'
<1>1. PICK m \in Members, paid \in Dates :
        AdjustCoverage(m, paid) \/ ImportCoverage(m, paid)
  BY DEF DecisionStep
<1>2. /\ Decide(m, paid, "adjustment", 0) \in Seq(Decision)
      /\ Decide(m, paid, "import", 0) \in Seq(Decision)
  BY DecideIsTyped DEF TypeOK, Reasons
<1>3. QED
  BY <1>1, <1>2 DEF TypeOK, AdjustCoverage, ImportCoverage

\* Every row keeps the shape and the CHECK constraints of its table: the
\* services never hand SQLite a row that it would refuse.
THEOREM TypeCorrect == Spec => []TypeOK
<1>1. Init => TypeOK
  BY DEF Init, TypeOK
<1>2. TypeOK /\ [Next]_vars => TypeOK'
  <2>1. TypeOK /\ Next => TypeOK'
    BY DraftStepIsTyped, PostingStepIsTyped, DecisionStepIsTyped DEF Next
  <2>2. TypeOK /\ UNCHANGED vars => TypeOK'
    BY DEF TypeOK, vars
  <2>3. QED
    BY <2>1, <2>2
<1>3. QED
  BY <1>1, <1>2, PTL DEF Spec

-----------------------------------------------------------------------------
(* Coverage.  The inductive invariant is SupersedesLatest: that a history   *)
(* is one chain follows from it, while CoverageIsOneChain alone does not    *)
(* say that the head a writer looks up is the row written last.             *)

\* The one head of a member is its latest decision.
LEMMA HeadIsLatest ==
  ASSUME coverage \in Seq(Decision), SupersedesLatest, NEW m,
         NEW e \in Heads(m), NEW f \in DOMAIN coverage, coverage[f].member = m
  PROVE  f <= e
<1> DEFINE later == {g \in 1 .. Len(coverage) : g > e /\ coverage[g].member = m}
<1>1. /\ e \in 1 .. Len(coverage) /\ coverage[e].member = m
      /\ f \in 1 .. Len(coverage) /\ Len(coverage) \in Nat
  BY DEF Heads
<1>2. SUFFICES ASSUME f > e PROVE FALSE
  BY <1>1
<1>3. f \in later /\ later \in SUBSET Nat
  BY <1>1, <1>2
<1>4. PICK g \in later : \A y \in later : g <= y
  BY <1>3, LeastNumber
<1>5. g \in 1 .. Len(coverage) /\ g > e /\ coverage[g].member = m
  OBVIOUS
<1>6. e \in EarlierDecisions(g)
  BY <1>1, <1>5 DEF EarlierDecisions
<1>7. /\ coverage[g].supersedes \in EarlierDecisions(g)
      /\ e <= coverage[g].supersedes
  BY <1>1, <1>5, <1>6 DEF SupersedesLatest
<1>8. coverage[g].supersedes = e
  BY <1>1, <1>4, <1>5, <1>7 DEF EarlierDecisions
<1>9. QED
  BY <1>1, <1>5, <1>8 DEF Heads

\* A member with decisions has a head: its latest decision.
LEMMA LatestIsAHead ==
  ASSUME coverage \in Seq(Decision), SupersedesLatest, NEW m,
         NEW e \in DOMAIN coverage, coverage[e].member = m
  PROVE  Heads(m) # {}
<1> DEFINE S == {f \in 1 .. Len(coverage) : coverage[f].member = m}
<1>1. Len(coverage) \in Nat /\ S \in SUBSET (1 .. Len(coverage)) /\ S # {}
  OBVIOUS
<1>2. PICK h \in S : \A f \in S : f <= h
  BY <1>1, GreatestPosition
<1>3. ASSUME NEW f \in DOMAIN coverage, coverage[f].supersedes = h
      PROVE  FALSE
  <2>1. /\ f \in 1 .. Len(coverage) /\ h \in 1 .. Len(coverage)
        /\ coverage[h].member = m
    BY <1>2
  <2>2. h \in EarlierDecisions(f)
    BY <1>3, <2>1 DEF SupersedesLatest
  <2>3. f \in S /\ h < f
    BY <2>1, <2>2 DEF EarlierDecisions
  <2>4. QED
    BY <1>2, <2>1, <2>3
<1>4. h \in Heads(m)
  BY <1>2, <1>3 DEF Heads
<1>5. QED
  BY <1>4

LEMMA LatestImpliesChain ==
  ASSUME coverage \in Seq(Decision), SupersedesLatest
  PROVE  CoverageIsOneChain
<1>1. Len(coverage) \in Nat /\ DOMAIN coverage = 1 .. Len(coverage)
  OBVIOUS
<1>2. \A e \in DOMAIN coverage :
        coverage[e].supersedes # 0 =>
          /\ coverage[e].supersedes \in EarlierDecisions(e)
          /\ \A f \in EarlierDecisions(e) : f <= coverage[e].supersedes
  BY DEF SupersedesLatest
<1>3. PointsBack
  BY <1>1, <1>2 DEF PointsBack, EarlierDecisions
<1>4. NeverForks
  <2>1. SUFFICES ASSUME NEW e \in DOMAIN coverage, NEW f \in DOMAIN coverage,
                        coverage[e].supersedes = coverage[f].supersedes,
                        coverage[e].supersedes # 0, e < f
                 PROVE  FALSE
    BY <1>1 DEF NeverForks
  <2>2. e \in EarlierDecisions(f)
    BY <1>1, <1>2, <2>1 DEF EarlierDecisions
  <2>3. e <= coverage[e].supersedes /\ coverage[e].supersedes < e
    BY <1>1, <1>2, <2>1, <2>2 DEF EarlierDecisions
  <2>4. QED
    BY <1>1, <1>2, <2>1, <2>3 DEF EarlierDecisions
<1>5. OneRoot
  <2>1. SUFFICES ASSUME NEW e \in DOMAIN coverage, NEW f \in DOMAIN coverage,
                        coverage[e].member = coverage[f].member,
                        coverage[f].supersedes = 0, e < f
                 PROVE  FALSE
    BY <1>1 DEF OneRoot
  <2>2. e \in EarlierDecisions(f)
    BY <1>1, <2>1 DEF EarlierDecisions
  <2>3. 0 \in EarlierDecisions(f)
    BY <2>1, <2>2 DEF SupersedesLatest
  <2>4. QED
    BY <1>1, <2>3 DEF EarlierDecisions
<1>6. OneHead
  <2>1. SUFFICES ASSUME NEW m \in Members, NEW e \in Heads(m), NEW f \in Heads(m)
                 PROVE  e = f
    BY DEF OneHead
  <2>2. e <= f /\ f <= e
    BY HeadIsLatest DEF Heads
  <2>3. QED
    BY <1>1, <2>2 DEF Heads
<1>7. SomeHead
  BY LatestIsAHead DEF SomeHead
<1>8. QED
  BY <1>3, <1>4, <1>5, <1>6, <1>7 DEF CoverageIsOneChain

\* What every writer does: it leaves the history as it is, and each new row
\* supersedes the last new row about its member or, failing one, the head.
NewRows(e) ==
  {f \in Len(coverage) + 1 .. e - 1 : coverage'[f].member = coverage'[e].member}

ExtendsHistory ==
  /\ Len(coverage') >= Len(coverage)
  /\ \A e \in 1 .. Len(coverage) : coverage'[e] = coverage[e]
  /\ \A e \in Len(coverage) + 1 .. Len(coverage') :
       IF NewRows(e) = {}
       THEN coverage'[e].supersedes = EffectiveCoverage(coverage'[e].member)
       ELSE /\ coverage'[e].supersedes \in NewRows(e)
            /\ \A f \in NewRows(e) : f <= coverage'[e].supersedes

LEMMA ExtensionSupersedesLatest ==
  ASSUME coverage \in Seq(Decision), coverage' \in Seq(Decision),
         SupersedesLatest, ExtendsHistory
  PROVE  SupersedesLatest'
<1> DEFINE n == Len(coverage)
           prior(e) == {f \in 1 .. e - 1 : coverage'[f].member = coverage'[e].member}
<1>1. /\ n \in Nat /\ Len(coverage') \in Nat /\ n <= Len(coverage')
      /\ DOMAIN coverage = 1 .. n /\ DOMAIN coverage' = 1 .. Len(coverage')
  BY DEF ExtendsHistory
<1>2. \A e \in 1 .. n : coverage'[e] = coverage[e]
  BY DEF ExtendsHistory
<1>3. SUFFICES ASSUME NEW e \in 1 .. Len(coverage')
               PROVE  IF prior(e) = {} THEN coverage'[e].supersedes = 0
                      ELSE /\ coverage'[e].supersedes \in prior(e)
                           /\ \A f \in prior(e) : f <= coverage'[e].supersedes
  BY <1>1 DEF SupersedesLatest, EarlierDecisions
<1>4. CASE e <= n
  <2>1. prior(e) = EarlierDecisions(e)
    BY <1>1, <1>2, <1>4 DEF EarlierDecisions
  <2>2. QED
    BY <1>1, <1>2, <1>4, <2>1 DEF SupersedesLatest
<1>5. CASE e > n /\ NewRows(e) # {}
  <2>1. /\ coverage'[e].supersedes \in NewRows(e)
        /\ \A f \in NewRows(e) : f <= coverage'[e].supersedes
    BY <1>1, <1>5 DEF ExtendsHistory
  <2>2. \A f \in prior(e) : f \in NewRows(e) \/ f <= n
    BY <1>1, <1>5 DEF NewRows
  <2>3. NewRows(e) \subseteq prior(e) /\ \A f \in NewRows(e) : f > n
    BY <1>1, <1>5 DEF NewRows
  <2>4. \A f \in prior(e) : f <= coverage'[e].supersedes
    BY <1>1, <2>1, <2>2, <2>3
  <2>5. QED
    BY <2>1, <2>3, <2>4
<1>6. CASE e > n /\ NewRows(e) = {}
  <2> DEFINE m == coverage'[e].member
  <2>1. coverage'[e].supersedes = EffectiveCoverage(m)
    BY <1>1, <1>6 DEF ExtendsHistory
  <2>2. prior(e) = {f \in 1 .. n : coverage[f].member = m}
    <3>1. prior(e) \subseteq 1 .. n
      BY <1>1, <1>6 DEF NewRows
    <3>2. QED
      BY <1>1, <1>2, <1>6, <3>1
  <2>3. CASE Heads(m) = {}
    <3>1. EffectiveCoverage(m) = 0
      BY <2>3, EffectiveCoverageIsAnId
    <3>2. prior(e) = {}
      BY <1>1, <2>2, <2>3, LatestIsAHead
    <3>3. QED
      BY <2>1, <3>1, <3>2
  <2>4. CASE Heads(m) # {}
    <3>1. EffectiveCoverage(m) \in Heads(m)
      BY <2>4, EffectiveCoverageIsAnId
    <3>2. EffectiveCoverage(m) \in prior(e)
      BY <1>1, <2>2, <3>1 DEF Heads
    <3>3. \A f \in prior(e) : f <= EffectiveCoverage(m)
      BY <1>1, <2>2, <3>1, HeadIsLatest
    <3>4. QED
      BY <2>1, <3>2, <3>3
  <2>5. QED
    BY <2>3, <2>4
<1>7. QED
  BY <1>1, <1>4, <1>5, <1>6

LEMMA DecideExtendsHistory ==
  ASSUME coverage \in Seq(Decision), NEW m \in Members, NEW paid \in Dates,
         NEW reason \in Reasons, NEW payment \in Nat,
         (reason \in {"payment", "correction"}) = (payment # 0),
         coverage' = Decide(m, paid, reason, payment)
  PROVE  ExtendsHistory
<1> DEFINE new == [member |-> m, paid |-> paid, reason |-> reason,
                   payment |-> payment, supersedes |-> EffectiveCoverage(m)]
<1>1. coverage' = Append(coverage, new)
  BY DEF Decide
<1>2. Len(coverage) \in Nat
  OBVIOUS
<1>3. new \in Decision
  BY EffectiveCoverageIsAnId DEF Decision
<1>4. /\ Len(coverage') = Len(coverage) + 1
      /\ \A e \in 1 .. Len(coverage) : coverage'[e] = coverage[e]
      /\ coverage'[Len(coverage) + 1] = new
  BY <1>1, <1>3, AppendProperties
<1>5. NewRows(Len(coverage) + 1) = {}
  BY <1>2 DEF NewRows
<1>6. \A e \in Len(coverage) + 1 .. Len(coverage') : e = Len(coverage) + 1
  BY <1>2, <1>4
<1>7. QED
  BY <1>2, <1>4, <1>5, <1>6 DEF ExtendsHistory

LEMMA PostRowsExtendsHistory ==
  ASSUME payments \in Seq(Payment), coverage \in Seq(Decision),
         NEW b \in Nat, NEW rows \in Seq(Entry), PostRows(b, rows)
  PROVE  ExtendsHistory
<1> DEFINE n == Len(coverage)
           gs == [i \in DOMAIN rows |-> Grant(rows, i)]
<1>1. n \in Nat /\ Len(rows) \in Nat /\ DOMAIN rows = 1 .. Len(rows)
  OBVIOUS
<1>2. coverage' = coverage \o gs /\ Len(gs) = Len(rows)
  BY <1>1 DEF PostRows
<1>3. /\ Len(coverage') = n + Len(rows)
      /\ \A e \in 1 .. n : coverage'[e] = coverage[e]
      /\ \A i \in 1 .. Len(rows) : coverage'[n + i] = Grant(rows, i)
  BY <1>1, <1>2
<1>4. \A i \in 1 .. Len(rows) :
        /\ coverage'[n + i].member = rows[i].member
        /\ coverage'[n + i].supersedes = Predecessor(rows, i)
  <2>1. SUFFICES ASSUME NEW i \in 1 .. Len(rows)
                 PROVE  /\ coverage'[n + i].member = rows[i].member
                        /\ coverage'[n + i].supersedes = Predecessor(rows, i)
    OBVIOUS
  <2>2. coverage'[n + i] = Grant(rows, i)
    BY <1>3
  <2>3. QED
    BY <2>2 DEF Grant
<1>5. SUFFICES ASSUME NEW i \in 1 .. Len(rows)
               PROVE  IF NewRows(n + i) = {}
                      THEN coverage'[n + i].supersedes =
                             EffectiveCoverage(coverage'[n + i].member)
                      ELSE /\ coverage'[n + i].supersedes \in NewRows(n + i)
                           /\ \A f \in NewRows(n + i) :
                                f <= coverage'[n + i].supersedes
  <2>1. ASSUME NEW e \in n + 1 .. Len(coverage')
        PROVE  e - n \in 1 .. Len(rows) /\ e = n + (e - n)
    BY <1>1, <1>3
  <2>2. Len(coverage') >= n
    BY <1>1, <1>3
  <2>3. SUFFICES ASSUME NEW e \in n + 1 .. Len(coverage')
                 PROVE  IF NewRows(e) = {}
                        THEN coverage'[e].supersedes =
                               EffectiveCoverage(coverage'[e].member)
                        ELSE /\ coverage'[e].supersedes \in NewRows(e)
                             /\ \A f \in NewRows(e) : f <= coverage'[e].supersedes
    BY <1>3, <2>2 DEF ExtendsHistory
  <2>4. PICK i \in 1 .. Len(rows) : e = n + i
    BY <2>1
  <2>5. QED
    BY <1>5, <2>4
<1>6. NewRows(n + i) = {n + j : j \in EarlierRows(rows, i)}
  <2>1. \A j \in 1 .. i - 1 : coverage'[n + j].member = rows[j].member
    BY <1>1, <1>4
  <2>2. \A f \in n + 1 .. n + i - 1 : f - n \in 1 .. i - 1 /\ f = n + (f - n)
    BY <1>1
  <2>3. \A j \in 1 .. i - 1 : n + j \in n + 1 .. n + i - 1
    BY <1>1
  <2>4. \A f \in NewRows(n + i) : f - n \in EarlierRows(rows, i)
    BY <1>1, <1>4, <2>1, <2>2 DEF NewRows, EarlierRows
  <2>5. \A j \in EarlierRows(rows, i) : n + j \in NewRows(n + i)
    BY <1>1, <1>4, <2>1, <2>3 DEF NewRows, EarlierRows
  <2>6. \A f \in NewRows(n + i) : f = n + (f - n)
    BY <1>1, <2>2 DEF NewRows
  <2>7. QED
    BY <2>4, <2>5, <2>6
<1>7. CASE EarlierRows(rows, i) = {}
  BY <1>4, <1>6, <1>7, PredecessorIsAnId
<1>8. CASE EarlierRows(rows, i) # {}
  <2>1. PICK j \in EarlierRows(rows, i) :
          /\ Predecessor(rows, i) = n + j
          /\ \A x \in EarlierRows(rows, i) : x <= j
    BY <1>8, PredecessorIsAnId
  <2>2. \A x \in EarlierRows(rows, i) : x \in Int
    BY DEF EarlierRows
  <2>3. QED
    BY <1>1, <1>4, <1>6, <2>1, <2>2
<1>9. QED
  BY <1>7, <1>8

LEMMA NextExtendsHistory ==
  ASSUME TypeOK, Next
  PROVE  ExtendsHistory
<1>1. Len(coverage) \in Nat
  BY DEF TypeOK
<1>2. CASE UNCHANGED coverage
  <2>1. Len(coverage') = Len(coverage) /\ \A e : coverage'[e] = coverage[e]
    BY <1>2
  <2>2. Len(coverage) + 1 .. Len(coverage) = {}
    BY <1>1
  <2>3. QED
    BY <1>1, <2>1, <2>2 DEF ExtendsHistory
<1>3. CASE DraftStep
  <2>1. UNCHANGED coverage
    <3>1. \A a, k : OpenBatch(a, k) => UNCHANGED coverage
      BY DEF OpenBatch
    <3>2. \A b, expected : UpdateBatch(b, expected) => UNCHANGED coverage
      BY DEF UpdateBatch
    <3>3. \A b, expected : AbandonBatch(b, expected) => UNCHANGED coverage
      BY DEF AbandonBatch
    <3>4. \A a, k, b, id, m, amount, paid :
            AddEntry(a, k, b, id, m, amount, paid) => UNCHANGED coverage
      BY DEF AddEntry
    <3>5. \A b, i, expected, m, amount, paid :
            UpdateEntry(b, i, expected, m, amount, paid) => UNCHANGED coverage
      BY DEF UpdateEntry
    <3>6. \A b, i, expected : DeleteEntry(b, i, expected) => UNCHANGED coverage
      BY DEF DeleteEntry
    <3>7. QED
      BY <1>3, <3>1, <3>2, <3>3, <3>4, <3>5, <3>6 DEF DraftStep
  <2>2. QED
    BY <1>2, <2>1
<1>4. CASE PostingStep
  <2>1. ASSUME NEW a, NEW k, NEW b \in DOMAIN batches, NEW expected,
               Post(a, k, b, expected)
        PROVE  ExtendsHistory
    <3>1. entries[b] \in Seq(Entry) /\ b \in Nat
      BY DEF TypeOK
    <3>2. QED
      BY <2>1, <3>1, PostRowsExtendsHistory DEF Post, TypeOK
  <2>2. ASSUME NEW a, NEW k, NEW id \in 1 .. EntryIdLimit, NEW m \in Members,
               NEW amount \in Amounts, NEW paid \in Dates,
               PostSingle(a, k, id, m, amount, paid)
        PROVE  ExtendsHistory
    <3> DEFINE row == [id |-> id, seq |-> 1, member |-> m, amount |-> amount,
                       paid |-> paid, version |-> 1]
    <3>1. row \in Entry
      BY LimitsAreNumbers DEF Entry
    <3>2. <<row>> \in Seq(Entry) /\ Len(batches) + 1 \in Nat
      BY <3>1 DEF TypeOK
    <3>3. QED
      BY <2>2, <3>2, PostRowsExtendsHistory DEF PostSingle, TypeOK
  <2>3. ASSUME NEW a, NEW k, NEW p \in DOMAIN payments, NEW expected, NEW amount,
               NEW paid \in Dates, Correct(a, k, p, expected, amount, paid)
        PROVE  ExtendsHistory
    <3>1. payments[p].member \in Members /\ Len(payments) + 2 \in Nat
          /\ Len(payments) + 2 # 0
      BY DEF TypeOK, Payment
    <3>2. \/ UNCHANGED coverage
          \/ coverage' = Decide(payments[p].member, paid, "correction",
                                Len(payments) + 2)
      BY <2>3 DEF Correct, RestateCoverage
    <3>3. QED
      BY <1>2, <3>1, <3>2, DecideExtendsHistory DEF TypeOK, Reasons
  <2>4. QED
    BY <1>4, <2>1, <2>2, <2>3 DEF PostingStep
<1>5. CASE DecisionStep
  <2>1. PICK m \in Members, paid \in Dates :
          AdjustCoverage(m, paid) \/ ImportCoverage(m, paid)
    BY <1>5 DEF DecisionStep
  <2>2. QED
    BY <2>1, DecideExtendsHistory DEF AdjustCoverage, ImportCoverage, TypeOK, Reasons
<1>6. QED
  BY <1>3, <1>4, <1>5 DEF Next

\* Whichever of the four writers runs, and however many rows of one batch are
\* about the same member, a new decision supersedes the member's latest one.
THEOREM LatestIsSuperseded == Spec => []SupersedesLatest
<1>1. Init => SupersedesLatest
  BY DEF Init, SupersedesLatest
<1>2. TypeOK /\ TypeOK' /\ SupersedesLatest /\ [Next]_vars => SupersedesLatest'
  <2>1. TypeOK /\ TypeOK' /\ SupersedesLatest /\ Next => SupersedesLatest'
    BY NextExtendsHistory, ExtensionSupersedesLatest DEF TypeOK
  <2>2. SupersedesLatest /\ UNCHANGED vars => SupersedesLatest'
    BY DEF SupersedesLatest, EarlierDecisions, vars
  <2>3. QED
    BY <2>1, <2>2
<1>3. QED
  BY <1>1, <1>2, TypeCorrect, PTL DEF Spec

\* The coverage history of every member is one unbranched chain, so there is
\* never a choice of effective decision and no write meets the unique index.
THEOREM CoverageChain == Spec => []CoverageIsOneChain
<1>1. TypeOK /\ SupersedesLatest => CoverageIsOneChain
  BY LatestImpliesChain DEF TypeOK
<1>2. QED
  BY <1>1, TypeCorrect, LatestIsSuperseded, PTL

-----------------------------------------------------------------------------
(* Batches.                                                                *)

\* What a step may do to the batches that exist: to one open batch, whose
\* version then grows, and to no other.
StepsOneOpenBatch ==
  \/ \A c \in DOMAIN batches : batches'[c] = batches[c] /\ entries'[c] = entries[c]
  \/ \E b \in DOMAIN batches :
       /\ batches[b].state = "open"
       /\ entries'[b] # entries[b] => batches'[b].version = batches[b].version + 1
       /\ \A c \in DOMAIN batches \ {b} :
            batches'[c] = batches[c] /\ entries'[c] = entries[c]

LEMMA TouchMovesOneVersion ==
  ASSUME TypeOK, NEW b \in DOMAIN batches, Touch(b)
  PROVE  /\ batches'[b].version = batches[b].version + 1
         /\ \A c \in DOMAIN batches \ {b} : batches'[c] = batches[c]
<1>1. batches[b] \in Batch
  BY DEF TypeOK
<1>2. QED
  BY <1>1 DEF Touch, Batch, TypeOK

LEMMA NextStepsOneOpenBatch ==
  ASSUME TypeOK, Next
  PROVE  StepsOneOpenBatch
<1>1. /\ DOMAIN batches = DOMAIN entries
      /\ DOMAIN batches = 1 .. Len(batches) /\ Len(batches) \in Nat
  BY DEF TypeOK
<1>2. ASSUME NEW batch, NEW rows, batches' = Append(batches, batch),
             entries' = Append(entries, rows)
      PROVE  StepsOneOpenBatch
  BY <1>1, <1>2 DEF StepsOneOpenBatch, TypeOK
<1>3. CASE UNCHANGED <<batches, entries>>
  BY <1>3 DEF StepsOneOpenBatch
<1>4. ASSUME NEW b \in DOMAIN batches, NEW batch, IsOpen(b),
             batches' = [batches EXCEPT ![b] = batch], UNCHANGED entries
      PROVE  StepsOneOpenBatch
  BY <1>4 DEF StepsOneOpenBatch, IsOpen, TypeOK
<1>5. ASSUME NEW b \in DOMAIN batches, NEW rows, IsOpen(b), Touch(b),
             entries' = [entries EXCEPT ![b] = rows]
      PROVE  StepsOneOpenBatch
  BY <1>1, <1>5, TouchMovesOneVersion DEF StepsOneOpenBatch, IsOpen
<1>6. CASE DraftStep
  <2>1. ASSUME NEW a, NEW k, OpenBatch(a, k) PROVE StepsOneOpenBatch
    BY <1>2, <2>1 DEF OpenBatch
  <2>2. ASSUME NEW b \in DOMAIN batches, NEW expected, UpdateBatch(b, expected)
        PROVE  StepsOneOpenBatch
    <3>1. Touch(b) /\ IsOpen(b) /\ UNCHANGED entries
      BY <2>2 DEF UpdateBatch
    <3>2. QED
      BY <3>1, TouchMovesOneVersion DEF StepsOneOpenBatch, IsOpen
  <2>3. ASSUME NEW b \in DOMAIN batches, NEW expected, AbandonBatch(b, expected)
        PROVE  StepsOneOpenBatch
    BY <1>4, <2>3 DEF AbandonBatch
  <2>4. ASSUME NEW b \in DOMAIN batches, NEW a, NEW k, NEW id, NEW m, NEW amount,
               NEW paid, AddEntry(a, k, b, id, m, amount, paid)
        PROVE  StepsOneOpenBatch
    BY <1>5, <2>4 DEF AddEntry
  <2>5. ASSUME NEW b \in DOMAIN batches, NEW i, NEW expected, NEW m, NEW amount,
               NEW paid, UpdateEntry(b, i, expected, m, amount, paid)
        PROVE  StepsOneOpenBatch
    BY <1>5, <2>5 DEF UpdateEntry
  <2>6. ASSUME NEW b \in DOMAIN batches, NEW i, NEW expected,
               DeleteEntry(b, i, expected)
        PROVE  StepsOneOpenBatch
    BY <1>5, <2>6 DEF DeleteEntry
  <2>7. QED
    BY <1>6, <2>1, <2>2, <2>3, <2>4, <2>5, <2>6 DEF DraftStep
<1>7. CASE PostingStep
  <2>1. ASSUME NEW a, NEW k, NEW b \in DOMAIN batches, NEW expected,
               Post(a, k, b, expected)
        PROVE  StepsOneOpenBatch
    BY <1>4, <2>1 DEF Post
  <2>2. ASSUME NEW a, NEW k, NEW id, NEW m, NEW amount, NEW paid,
               PostSingle(a, k, id, m, amount, paid)
        PROVE  StepsOneOpenBatch
    BY <1>2, <2>2 DEF PostSingle
  <2>3. ASSUME NEW a, NEW k, NEW p, NEW expected, NEW amount, NEW paid,
               Correct(a, k, p, expected, amount, paid)
        PROVE  StepsOneOpenBatch
    BY <1>3, <2>3 DEF Correct
  <2>4. QED
    BY <1>7, <2>1, <2>2, <2>3 DEF PostingStep
<1>8. CASE DecisionStep
  BY <1>3, <1>8 DEF DecisionStep, AdjustCoverage, ImportCoverage
<1>9. QED
  BY <1>6, <1>7, <1>8 DEF Next

\* No request moves a posted or abandoned batch, or one of its rows: a draft
\* that was posted stays the draft the ledger was written from.
THEOREM TerminalFrozen == Spec => TerminalIsFrozen
<1>1. TypeOK /\ [Next]_vars => [TerminalStays]_vars
  <2>1. TypeOK /\ Next => TerminalStays
    BY NextStepsOneOpenBatch DEF StepsOneOpenBatch, TerminalStays
  <2>2. QED
    BY <2>1 DEF vars
<1>2. QED
  BY <1>1, TypeCorrect, PTL DEF Spec, TerminalIsFrozen

\* Rows never change under a version somebody may have read: the If-Match of a
\* post stands for the rows that were on the screen.
THEOREM VersionsCoverRows == Spec => VersionCoversRows
<1>1. TypeOK /\ [Next]_vars => [RowsMoveTheVersion]_vars
  <2>1. ASSUME TypeOK, NEW b \in DOMAIN batches PROVE batches[b].version \in Nat
    <3>1. batches[b] \in Batch
      BY <2>1 DEF TypeOK
    <3>2. QED
      BY <3>1 DEF Batch
  <2>2. TypeOK /\ Next => RowsMoveTheVersion
    BY <2>1, NextStepsOneOpenBatch DEF StepsOneOpenBatch, RowsMoveTheVersion
  <2>3. QED
    BY <2>2 DEF vars
<1>2. QED
  BY <1>1, TypeCorrect, PTL DEF Spec, VersionCoversRows

-----------------------------------------------------------------------------
(* Every step either leaves the payments alone, or posts the rows of one   *)
(* batch, or corrects one payment.  The proofs below split on these three. *)

\* The rows of a batch that was not posted become payments and decisions.
PostsBatch(b) ==
  /\ DOMAIN batches' = DOMAIN batches \cup {b}
  /\ b \in DOMAIN batches => batches[b].state = "open"
  /\ batches'[b].state = "posted"
  /\ \A c \in DOMAIN batches \ {b} :
       batches'[c] = batches[c] /\ entries'[c] = entries[c]
  /\ Len(payments') = Len(payments) + Len(entries'[b])
  /\ \A p \in 1 .. Len(payments) : payments'[p] = payments[p]
  /\ \A i \in 1 .. Len(entries'[b]) :
       payments'[Len(payments) + i] = Original(b, entries'[b][i])
  /\ \A i \in 1 .. Len(entries'[b]) : \E e \in DOMAIN coverage' :
       coverage'[e] = Grant(entries'[b], i)
  /\ UNCHANGED corrections

\* A payment nothing corrects yet gets its reversal and its replacement.
CorrectsPayment(p, n, amount) ==
  /\ payments[p].kind # "reversal" /\ ~ Superseded(p)
  /\ payments' = payments \o <<Reversal(p, n), Replacement(p, n, amount)>>
  /\ corrections' = Append(corrections,
       [original |-> p, reversal |-> Len(payments) + 1,
        replacement |-> Len(payments) + 2])
  /\ UNCHANGED <<batches, entries>>

\* Payments stay as they are, and no batch becomes posted or stops being it.
LeavesPayments ==
  /\ UNCHANGED <<payments, corrections>>
  /\ DOMAIN batches \subseteq DOMAIN batches'
  /\ \A b \in DOMAIN batches :
       /\ (batches'[b].state = "posted") = (batches[b].state = "posted")
       /\ batches[b].state = "posted" => entries'[b] = entries[b]
  /\ \A b \in DOMAIN batches' \ DOMAIN batches : batches'[b].state # "posted"

LEMMA PostRowsAppends ==
  ASSUME payments \in Seq(Payment), coverage \in Seq(Decision),
         NEW b \in Nat, NEW rows \in Seq(Entry), PostRows(b, rows)
  PROVE  /\ Len(payments') = Len(payments) + Len(rows)
         /\ \A p \in 1 .. Len(payments) : payments'[p] = payments[p]
         /\ \A i \in 1 .. Len(rows) :
              payments'[Len(payments) + i] = Original(b, rows[i])
         /\ \A i \in 1 .. Len(rows) : \E e \in DOMAIN coverage' :
              coverage'[e] = Grant(rows, i)
<1> DEFINE ps == [i \in DOMAIN rows |-> Original(b, rows[i])]
           gs == [i \in DOMAIN rows |-> Grant(rows, i)]
<1>1. Len(rows) \in Nat /\ DOMAIN rows = 1 .. Len(rows)
  OBVIOUS
<1>2. payments' = payments \o ps /\ Len(ps) = Len(rows)
  BY <1>1 DEF PostRows
<1>3. coverage' = coverage \o gs /\ Len(gs) = Len(rows)
  BY <1>1 DEF PostRows
<1>4. /\ Len(payments') = Len(payments) + Len(rows)
      /\ \A p \in 1 .. Len(payments) : payments'[p] = payments[p]
      /\ \A i \in 1 .. Len(rows) : payments'[Len(payments) + i] = Original(b, rows[i])
  BY <1>1, <1>2
<1>5. \A i \in 1 .. Len(rows) :
        /\ Len(coverage) + i \in DOMAIN coverage'
        /\ coverage'[Len(coverage) + i] = Grant(rows, i)
  BY <1>1, <1>3
<1>6. QED
  BY <1>4, <1>5

LEMMA PostPostsBatch ==
  ASSUME TypeOK, NEW a, NEW k, NEW b \in DOMAIN batches, NEW expected,
         Post(a, k, b, expected)
  PROVE  PostsBatch(b)
<1>1. b \in Nat /\ entries[b] \in Seq(Entry) /\ entries' = entries
  BY DEF TypeOK, Post
<1>2. /\ Len(payments') = Len(payments) + Len(entries[b])
      /\ \A p \in 1 .. Len(payments) : payments'[p] = payments[p]
      /\ \A i \in 1 .. Len(entries[b]) :
           payments'[Len(payments) + i] = Original(b, entries[b][i])
      /\ \A i \in 1 .. Len(entries[b]) : \E e \in DOMAIN coverage' :
           coverage'[e] = Grant(entries[b], i)
  BY <1>1, PostRowsAppends DEF TypeOK, Post
<1>3. /\ DOMAIN batches' = DOMAIN batches
      /\ batches'[b].state = "posted"
      /\ \A c \in DOMAIN batches \ {b} : batches'[c] = batches[c]
  BY DEF Post, TypeOK
<1>4. batches[b].state = "open" /\ UNCHANGED corrections
  BY DEF Post, IsOpen
<1>5. QED
  BY <1>1, <1>2, <1>3, <1>4 DEF PostsBatch

LEMMA PostSinglePostsBatch ==
  ASSUME TypeOK, NEW a, NEW k, NEW id \in 1 .. EntryIdLimit, NEW m \in Members,
         NEW amount \in Amounts, NEW paid \in Dates,
         PostSingle(a, k, id, m, amount, paid)
  PROVE  /\ PostsBatch(Len(batches) + 1)
         /\ Len(entries'[Len(batches) + 1]) = 1
<1> DEFINE b == Len(batches) + 1
           row == [id |-> id, seq |-> 1, member |-> m, amount |-> amount,
                   paid |-> paid, version |-> 1]
           rows == <<row>>
           batch == [state |-> "posted", version |-> 2]
<1>1. row \in Entry
  BY LimitsAreNumbers DEF Entry
<1>2. rows \in Seq(Entry) /\ Len(rows) = 1 /\ b \in Nat
  BY <1>1 DEF TypeOK
<1>3. /\ Len(payments') = Len(payments) + Len(rows)
      /\ \A p \in 1 .. Len(payments) : payments'[p] = payments[p]
      /\ \A i \in 1 .. Len(rows) :
           payments'[Len(payments) + i] = Original(b, rows[i])
      /\ \A i \in 1 .. Len(rows) : \E e \in DOMAIN coverage' :
           coverage'[e] = Grant(rows, i)
  BY <1>2, PostRowsAppends DEF TypeOK, PostSingle
<1>4. /\ batches' = Append(batches, batch)
      /\ entries' = Append(entries, rows)
      /\ UNCHANGED corrections
  BY DEF PostSingle
<1>5. /\ DOMAIN batches = 1 .. Len(batches) /\ DOMAIN entries = 1 .. Len(batches)
      /\ Len(batches) \in Nat /\ Len(entries) = Len(batches)
  BY DEF TypeOK
<1> HIDE DEF row, rows
<1>6. /\ DOMAIN batches' = 1 .. b
      /\ batches'[b] = batch
      /\ \A c \in DOMAIN batches : batches'[c] = batches[c]
  BY <1>4, <1>5 DEF TypeOK
<1>7. /\ entries'[b] = rows
      /\ \A c \in DOMAIN batches : entries'[c] = entries[c]
  BY <1>4, <1>5 DEF TypeOK
<1>8. DOMAIN batches' = DOMAIN batches \cup {b} /\ b \notin DOMAIN batches
  BY <1>5, <1>6
<1>9. batches'[b].state = "posted"
  BY <1>6
<1>10. /\ Len(payments') = Len(payments) + Len(entries'[b])
       /\ \A p \in 1 .. Len(payments) : payments'[p] = payments[p]
       /\ \A i \in 1 .. Len(entries'[b]) :
            payments'[Len(payments) + i] = Original(b, entries'[b][i])
       /\ \A i \in 1 .. Len(entries'[b]) : \E e \in DOMAIN coverage' :
            coverage'[e] = Grant(entries'[b], i)
  BY <1>3, <1>7
<1>11. Len(entries'[b]) = 1
  BY <1>2, <1>7
<1>12. QED
  BY <1>4, <1>6, <1>7, <1>8, <1>9, <1>10, <1>11 DEF PostsBatch

LEMMA CorrectCorrectsPayment ==
  ASSUME TypeOK, NEW a, NEW k, NEW p \in DOMAIN payments, NEW expected,
         NEW amount, NEW paid, Correct(a, k, p, expected, amount, paid)
  PROVE  CorrectsPayment(p, expected + 1, amount)
<1>1. p \in InForce(p)
  BY DEF Correct
<1>2. ~ Superseded(p)
  BY <1>1 DEF InForce
<1>3. QED
  BY <1>2 DEF Correct, CorrectsPayment

\* A step that changes nobody's payments and moves batches as StepsOneOpenBatch
\* allows, none of them to the posted state.
LEMMA DraftStepLeavesPayments ==
  ASSUME TypeOK, DraftStep
  PROVE  LeavesPayments
<1>1. /\ DOMAIN batches = 1 .. Len(batches) /\ Len(batches) \in Nat
      /\ DOMAIN entries = 1 .. Len(batches)
      /\ batches \in Seq(Batch)
  BY DEF TypeOK
<1>2. ASSUME NEW a, NEW k, OpenBatch(a, k) PROVE LeavesPayments
  <2>1. batches' = Append(batches, NewBatch) /\ entries' = Append(entries, <<>>)
    BY <1>2 DEF OpenBatch
  <2>2. UNCHANGED <<payments, corrections>>
    BY <1>2 DEF OpenBatch
  <2>3. /\ DOMAIN batches' = 1 .. Len(batches) + 1
        /\ batches'[Len(batches) + 1] = NewBatch
        /\ \A b \in DOMAIN batches : batches'[b] = batches[b]
    BY <1>1, <2>1
  <2>4. \A b \in DOMAIN batches : entries'[b] = entries[b]
    BY <1>1, <2>1 DEF TypeOK
  <2>5. NewBatch.state # "posted"
    BY DEF NewBatch
  <2>6. \A b \in DOMAIN batches' \ DOMAIN batches : b = Len(batches) + 1
    BY <1>1, <2>3
  <2>7. QED
    BY <1>1, <2>2, <2>3, <2>4, <2>5, <2>6 DEF LeavesPayments
<1>3. ASSUME NEW b \in DOMAIN batches, NEW batch, IsOpen(b),
             batch.state # "posted",
             batches' = [batches EXCEPT ![b] = batch],
             \A c \in DOMAIN batches \ {b} : entries'[c] = entries[c],
             UNCHANGED <<payments, corrections>>
      PROVE  LeavesPayments
  BY <1>1, <1>3 DEF LeavesPayments, IsOpen
<1>4. ASSUME NEW b \in DOMAIN batches, IsOpen(b), Touch(b),
             \A c \in DOMAIN batches \ {b} : entries'[c] = entries[c],
             UNCHANGED <<payments, corrections>>
      PROVE  LeavesPayments
  <2> DEFINE batch == [batches[b] EXCEPT !.version = @ + 1]
  <2>1. batches[b] \in Batch
    BY <1>1
  <2>2. batch.state = batches[b].state
    BY <2>1 DEF Batch
  <2>3. batches' = [batches EXCEPT ![b] = batch]
    BY <1>4 DEF Touch
  <2>4. batch.state # "posted"
    BY <1>4, <2>2 DEF IsOpen
  <2> HIDE DEF batch
  <2>5. QED
    BY <1>3, <1>4, <2>3, <2>4
<1>5. ASSUME NEW b \in DOMAIN batches, NEW rows,
             entries' = [entries EXCEPT ![b] = rows]
      PROVE  \A c \in DOMAIN batches \ {b} : entries'[c] = entries[c]
  BY <1>1, <1>5
<1>6. ASSUME NEW b \in DOMAIN batches, NEW expected, UpdateBatch(b, expected)
      PROVE  LeavesPayments
  BY <1>4, <1>6 DEF UpdateBatch
<1>7. ASSUME NEW b \in DOMAIN batches, NEW expected, AbandonBatch(b, expected)
      PROVE  LeavesPayments
  <2> DEFINE batch == [state |-> "abandoned", version |-> expected + 1]
  <2>1. batch.state # "posted"
    OBVIOUS
  <2>2. batches' = [batches EXCEPT ![b] = batch]
    BY <1>7 DEF AbandonBatch
  <2> HIDE DEF batch
  <2>3. QED
    BY <1>3, <1>7, <2>1, <2>2 DEF AbandonBatch
<1>8. ASSUME NEW b \in DOMAIN batches, NEW a, NEW k, NEW id, NEW m, NEW amount,
             NEW paid, AddEntry(a, k, b, id, m, amount, paid)
      PROVE  LeavesPayments
  BY <1>4, <1>5, <1>8 DEF AddEntry
<1>9. ASSUME NEW b \in DOMAIN batches, NEW i, NEW expected, NEW m, NEW amount,
             NEW paid, UpdateEntry(b, i, expected, m, amount, paid)
      PROVE  LeavesPayments
  <2>1. entries' = [entries EXCEPT ![b] =
                      [entries[b] EXCEPT ![i] = Edited(entries[b][i], m, amount, paid)]]
    BY <1>9 DEF UpdateEntry
  <2>2. QED
    BY <1>4, <1>5, <1>9, <2>1 DEF UpdateEntry
<1>10. ASSUME NEW b \in DOMAIN batches, NEW i, NEW expected,
              DeleteEntry(b, i, expected)
       PROVE  LeavesPayments
  BY <1>4, <1>5, <1>10 DEF DeleteEntry
<1>11. QED
  BY <1>2, <1>6, <1>7, <1>8, <1>9, <1>10 DEF DraftStep

LEMMA StepCases ==
  ASSUME TypeOK, [Next]_vars
  PROVE  \/ LeavesPayments
         \/ \E b \in Nat : PostsBatch(b)
         \/ \E p \in DOMAIN payments, n \in Nat, amount \in Amounts :
              CorrectsPayment(p, n, amount)
<1>1. CASE UNCHANGED vars
  BY <1>1 DEF vars, LeavesPayments
<1>2. CASE DraftStep
  BY <1>2, DraftStepLeavesPayments
<1>3. CASE PostingStep
  <2>1. ASSUME NEW a, NEW k, NEW b \in DOMAIN batches, NEW expected,
               Post(a, k, b, expected)
        PROVE  \E c \in Nat : PostsBatch(c)
    BY <2>1, PostPostsBatch DEF TypeOK
  <2>2. ASSUME NEW a, NEW k, NEW id \in 1 .. EntryIdLimit, NEW m \in Members,
               NEW amount \in Amounts, NEW paid \in Dates,
               PostSingle(a, k, id, m, amount, paid)
        PROVE  \E c \in Nat : PostsBatch(c)
    BY <2>2, PostSinglePostsBatch DEF TypeOK
  <2>3. ASSUME NEW a, NEW k, NEW p \in DOMAIN payments,
               NEW expected \in 0 .. CorrectionLimit, NEW amount \in Amounts,
               NEW paid \in Dates, Correct(a, k, p, expected, amount, paid)
        PROVE  \E q \in DOMAIN payments, n \in Nat, cents \in Amounts :
                 CorrectsPayment(q, n, cents)
    <3>1. expected + 1 \in Nat
      BY LimitsAreNumbers
    <3>2. QED
      BY <2>3, <3>1, CorrectCorrectsPayment
  <2>4. QED
    BY <1>3, <2>1, <2>2, <2>3 DEF PostingStep
<1>4. CASE DecisionStep
  <2>1. UNCHANGED <<batches, entries, payments, corrections>>
    BY <1>4 DEF DecisionStep, AdjustCoverage, ImportCoverage
  <2>2. QED
    BY <2>1 DEF LeavesPayments
<1>5. QED
  BY <1>1, <1>2, <1>3, <1>4 DEF Next

-----------------------------------------------------------------------------
(* Corrections.                                                            *)

\* The two rows of a correction, by what the CHECKs and readers look at.
LEMMA CorrectionRows ==
  ASSUME TypeOK, TypeOK', NEW p \in DOMAIN payments, NEW n, NEW amount,
         CorrectsPayment(p, n, amount)
  PROVE  LET r == Len(payments) + 1
             s == Len(payments) + 2
         IN  /\ Len(payments') = s
             /\ \A q \in DOMAIN payments : payments'[q] = payments[q]
             /\ payments'[r].kind = "reversal" /\ payments'[s].kind = "replacement"
             /\ payments'[r].amount = -payments[p].amount
             /\ payments'[r].receipt = Marked(payments[p].receipt, "R", n)
             /\ payments'[s].receipt = Marked(payments[p].receipt, "C", n)
             /\ \A q \in {r, s} : /\ payments'[q].corrects = p
                                  /\ payments'[q].member = payments[p].member
                                  /\ payments'[q].batch = payments[p].batch
<1> DEFINE r == Len(payments) + 1
           s == Len(payments) + 2
           R == Reversal(p, n)
           S == Replacement(p, n, amount)
<1>1. payments' = payments \o <<R, S>> /\ Len(payments) \in Nat
  BY DEF CorrectsPayment, TypeOK
<1>2. /\ R.kind = "reversal" /\ R.amount = -payments[p].amount
      /\ R.receipt = Marked(payments[p].receipt, "R", n) /\ R.corrects = p
      /\ R.member = payments[p].member /\ R.batch = payments[p].batch
  BY DEF Reversal, Correcting
<1>3. /\ S.kind = "replacement"
      /\ S.receipt = Marked(payments[p].receipt, "C", n) /\ S.corrects = p
      /\ S.member = payments[p].member /\ S.batch = payments[p].batch
  BY DEF Replacement, Correcting
<1> HIDE DEF R, S
<1>4. /\ Len(payments') = s /\ payments'[r] = R /\ payments'[s] = S
      /\ \A q \in DOMAIN payments : payments'[q] = payments[q]
  BY <1>1 DEF TypeOK
<1>5. QED
  BY <1>2, <1>3, <1>4

LEMMA MarkedKeepsNumber ==
  ASSUME NEW receipt \in Receipt, NEW mark, NEW n
  PROVE  /\ Marked(receipt, mark, n).batch = receipt.batch
         /\ Marked(receipt, mark, n).seq = receipt.seq
         /\ Marked(receipt, mark, n).trail = Append(receipt.trail, <<mark, n>>)
BY DEF Marked, Receipt

\* What CorrectionsAreLinked says of one record, and its other two parts.
TiesItsRows(row) ==
  LET o == row.original
      r == row.reversal
      n == row.replacement
  IN  /\ {o, r, n} \subseteq DOMAIN payments /\ o < r /\ r < n
      /\ payments[o].kind # "reversal"
      /\ payments[r].kind = "reversal" /\ payments[r].corrects = o
      /\ payments[n].kind = "replacement" /\ payments[n].corrects = o
      /\ payments[r].amount = -payments[o].amount
      /\ \A q \in {r, n} : /\ payments[q].member = payments[o].member
                          /\ payments[q].batch = payments[o].batch
                          /\ SameChain(o, q)

EachRecordTiesItsRows == \A c \in DOMAIN corrections : TiesItsRows(corrections[c])

CorrectedOnce ==
  \A c, d \in DOMAIN corrections :
    corrections[c].original = corrections[d].original => c = d

EveryRowIsRecorded ==
  \A p \in DOMAIN payments :
    payments[p].kind # "original" =>
      \E c \in DOMAIN corrections :
        p \in {corrections[c].reversal, corrections[c].replacement}

LEMMA LinkedParts ==
  CorrectionsAreLinked <=>
    EachRecordTiesItsRows /\ CorrectedOnce /\ EveryRowIsRecorded
BY DEF CorrectionsAreLinked, EachRecordTiesItsRows, TiesItsRows, CorrectedOnce,
       EveryRowIsRecorded

\* A record about old rows stays true when the payments only grow.
LEMMA TiesSurviveGrowth ==
  ASSUME NEW row, TiesItsRows(row), DOMAIN payments \subseteq DOMAIN payments',
         \A q \in DOMAIN payments : payments'[q] = payments[q]
  PROVE  TiesItsRows(row)'
<1> DEFINE o == row.original
           r == row.reversal
           n == row.replacement
<1>1. {o, r, n} \subseteq DOMAIN payments /\ o < r /\ r < n
  BY DEF TiesItsRows
<1>2. /\ payments'[o] = payments[o] /\ payments'[r] = payments[r]
      /\ payments'[n] = payments[n]
  BY <1>1
<1>3. QED
  BY <1>1, <1>2 DEF TiesItsRows, SameChain

\* Payments and corrections are append-only.
LEMMA PaymentsGrow ==
  ASSUME TypeOK, TypeOK', [Next]_vars
  PROVE  /\ DOMAIN payments \subseteq DOMAIN payments'
         /\ \A q \in DOMAIN payments : payments'[q] = payments[q]
         /\ DOMAIN corrections \subseteq DOMAIN corrections'
         /\ \A c \in DOMAIN corrections : corrections'[c] = corrections[c]
<1>1. /\ payments \in Seq(Payment) /\ payments' \in Seq(Payment)
      /\ corrections \in Seq(Correction)
  BY DEF TypeOK
<1>2. CASE LeavesPayments
  BY <1>2 DEF LeavesPayments
<1>3. ASSUME NEW b \in Nat, PostsBatch(b)
      PROVE  /\ DOMAIN payments \subseteq DOMAIN payments'
             /\ \A q \in DOMAIN payments : payments'[q] = payments[q]
             /\ UNCHANGED corrections
  <2>1. b \in DOMAIN entries'
    BY <1>3 DEF PostsBatch, TypeOK
  <2>2. entries'[b] \in Seq(Entry)
    BY <2>1 DEF TypeOK
  <2>3. Len(entries'[b]) \in Nat /\ Len(payments) \in Nat
    BY <1>1, <2>2
  <2>4. /\ Len(payments') = Len(payments) + Len(entries'[b])
        /\ \A q \in 1 .. Len(payments) : payments'[q] = payments[q]
        /\ UNCHANGED corrections
    BY <1>3 DEF PostsBatch
  <2>5. DOMAIN payments = 1 .. Len(payments) /\ DOMAIN payments' = 1 .. Len(payments')
    BY <1>1
  <2>6. Len(payments') >= Len(payments) /\ Len(payments') \in Nat
    BY <2>3, <2>4
  <2>7. DOMAIN payments \subseteq DOMAIN payments'
    BY <2>3, <2>5, <2>6
  <2>8. QED
    BY <2>4, <2>5, <2>7
<1>4. ASSUME NEW p \in DOMAIN payments, NEW n \in Nat, NEW amount \in Amounts,
             CorrectsPayment(p, n, amount)
      PROVE  /\ DOMAIN payments \subseteq DOMAIN payments'
             /\ \A q \in DOMAIN payments : payments'[q] = payments[q]
             /\ DOMAIN corrections \subseteq DOMAIN corrections'
             /\ \A c \in DOMAIN corrections : corrections'[c] = corrections[c]
  <2>1. Len(payments') = Len(payments) + 2 /\ Len(payments) \in Nat
    BY <1>1, <1>4, CorrectionRows
  <2>2. \A q \in DOMAIN payments : payments'[q] = payments[q]
    BY <1>4, CorrectionRows
  <2>3. DOMAIN payments \subseteq DOMAIN payments'
    BY <1>1, <2>1
  <2>4. \E row : corrections' = Append(corrections, row)
    BY <1>4 DEF CorrectsPayment
  <2>5. QED
    BY <1>1, <2>2, <2>3, <2>4
<1>5. QED
  BY <1>2, <1>3, <1>4, StepCases

\* What a posting adds: originals, in the order of the rows.
LEMMA PostedRows ==
  ASSUME TypeOK, TypeOK', NEW b \in Nat, PostsBatch(b),
         NEW p \in DOMAIN payments', p \notin DOMAIN payments
  PROVE  \E i \in DOMAIN entries'[b] :
           /\ p = Len(payments) + i
           /\ payments'[p] = Original(b, entries'[b][i])
<1>1. b \in DOMAIN entries'
  BY DEF PostsBatch, TypeOK
<1>2. entries'[b] \in Seq(Entry)
  BY <1>1 DEF TypeOK
<1>3. /\ Len(entries'[b]) \in Nat /\ DOMAIN entries'[b] = 1 .. Len(entries'[b])
      /\ Len(payments) \in Nat /\ DOMAIN payments = 1 .. Len(payments)
      /\ DOMAIN payments' = 1 .. Len(payments')
  BY <1>2 DEF TypeOK
<1>4. Len(payments') = Len(payments) + Len(entries'[b])
  BY DEF PostsBatch
<1>5. /\ p - Len(payments) \in 1 .. Len(entries'[b])
      /\ p = Len(payments) + (p - Len(payments))
  BY <1>3, <1>4
<1>6. PICK i \in 1 .. Len(entries'[b]) : p = Len(payments) + i
  BY <1>5
<1>7. payments'[p] = Original(b, entries'[b][i])
  BY <1>6 DEF PostsBatch
<1>8. QED
  BY <1>3, <1>6, <1>7

LEMMA PostingKeepsLinks ==
  ASSUME TypeOK, TypeOK', CorrectionsAreLinked, NEW b \in Nat, PostsBatch(b),
         DOMAIN payments \subseteq DOMAIN payments',
         \A q \in DOMAIN payments : payments'[q] = payments[q]
  PROVE  CorrectionsAreLinked'
<1>1. corrections' = corrections
  BY DEF PostsBatch
<1>2. EachRecordTiesItsRows'
  <2>1. \A c \in DOMAIN corrections : TiesItsRows(corrections[c])
    BY LinkedParts DEF EachRecordTiesItsRows
  <2>2. SUFFICES ASSUME NEW c \in DOMAIN corrections'
                 PROVE  TiesItsRows(corrections[c])'
    BY DEF EachRecordTiesItsRows
  <2>3. PICK row : row = corrections[c]
    OBVIOUS
  <2>4. TiesItsRows(row)
    BY <1>1, <2>1, <2>3
  <2>5. TiesItsRows(row)'
    BY <2>4, TiesSurviveGrowth
  <2>6. corrections'[c] = row
    BY <1>1, <2>3
  <2>7. QED
    BY <2>5, <2>6 DEF TiesItsRows
<1>3. CorrectedOnce'
  BY <1>1, LinkedParts DEF CorrectedOnce
<1>4. EveryRowIsRecorded'
  <2>1. SUFFICES ASSUME NEW p \in DOMAIN payments', payments'[p].kind # "original"
                 PROVE  p \in DOMAIN payments
    BY <1>1, LinkedParts DEF EveryRowIsRecorded
  <2>2. SUFFICES ASSUME p \notin DOMAIN payments PROVE FALSE
    OBVIOUS
  <2>3. PICK i : payments'[p] = Original(b, entries'[b][i])
    BY <2>2, PostedRows
  <2>4. QED
    BY <2>1, <2>3 DEF Original
<1>5. EachRecordTiesItsRows' /\ CorrectedOnce' /\ EveryRowIsRecorded'
  BY <1>2, <1>3, <1>4
<1>6. QED
  BY <1>5 DEF CorrectionsAreLinked, EachRecordTiesItsRows, TiesItsRows,
              CorrectedOnce, EveryRowIsRecorded

LEMMA CorrectingKeepsLinks ==
  ASSUME TypeOK, TypeOK', CorrectionsAreLinked, NEW p \in DOMAIN payments,
         NEW n \in Nat, NEW amount \in Amounts, CorrectsPayment(p, n, amount),
         DOMAIN payments \subseteq DOMAIN payments',
         \A q \in DOMAIN payments : payments'[q] = payments[q]
  PROVE  CorrectionsAreLinked'
<1> DEFINE r == Len(payments) + 1
           s == Len(payments) + 2
           new == Len(corrections) + 1
           row == [original |-> p, reversal |-> r, replacement |-> s]
<1>1. /\ Len(payments) \in Nat /\ Len(corrections) \in Nat
      /\ DOMAIN payments = 1 .. Len(payments)
      /\ DOMAIN payments' = 1 .. Len(payments')
      /\ DOMAIN corrections = 1 .. Len(corrections)
      /\ p \in 1 .. Len(payments)
  BY DEF TypeOK
<1>2. /\ corrections' = Append(corrections, row)
      /\ ~ Superseded(p) /\ payments[p].kind # "reversal"
  BY DEF CorrectsPayment
<1>3. /\ row.original = p /\ row.reversal = r /\ row.replacement = s
      /\ row \in Correction
  BY <1>1 DEF Correction
<1> HIDE DEF row
<1>4. /\ DOMAIN corrections' = DOMAIN corrections \cup {new}
      /\ \A c \in DOMAIN corrections : corrections'[c] = corrections[c]
      /\ corrections'[new] = row /\ new \notin DOMAIN corrections
  <2>1. corrections \in Seq(Correction)
    BY DEF TypeOK
  <2>2. QED
    BY <1>1, <1>2, <1>3, <2>1, AppendProperties
<1>5. /\ Len(payments') = s
      /\ \A q \in DOMAIN payments : payments'[q] = payments[q]
      /\ payments'[r].kind = "reversal" /\ payments'[s].kind = "replacement"
      /\ payments'[r].amount = -payments[p].amount
      /\ payments'[r].receipt = Marked(payments[p].receipt, "R", n)
      /\ payments'[s].receipt = Marked(payments[p].receipt, "C", n)
      /\ \A q \in {r, s} : /\ payments'[q].corrects = p
                           /\ payments'[q].member = payments[p].member
                           /\ payments'[q].batch = payments[p].batch
  BY CorrectionRows
<1>6. {p, r, s} \subseteq DOMAIN payments' /\ p < r /\ r < s
  BY <1>1, <1>5
<1>7. \A q \in {r, s} : SameChain(p, q)'
  <2>1. payments[p].receipt \in Receipt
    BY <1>1 DEF TypeOK, Payment
  <2>2. QED
    BY <1>1, <1>5, <2>1, MarkedKeepsNumber DEF SameChain
<1>8. EachRecordTiesItsRows'
  <2>1. PICK o : o = p
    OBVIOUS
  <2>2. SUFFICES ASSUME NEW c \in DOMAIN corrections'
                 PROVE  TiesItsRows(corrections[c])'
    BY DEF EachRecordTiesItsRows
  <2>3. CASE c \in DOMAIN corrections
    <3>1. PICK old : old = corrections[c]
      OBVIOUS
    <3>2. TiesItsRows(old)
      BY <2>3, <3>1, LinkedParts DEF EachRecordTiesItsRows
    <3>3. TiesItsRows(old)'
      BY <3>2, TiesSurviveGrowth
    <3>4. corrections'[c] = old
      BY <1>4, <2>3, <3>1
    <3>5. QED
      BY <3>3, <3>4 DEF TiesItsRows
  <2>4. CASE c = new
    <3>1. /\ corrections'[c].original = p /\ corrections'[c].reversal = r
          /\ corrections'[c].replacement = s
      BY <1>3, <1>4, <2>4
    <3>2. payments'[p] = payments[p]
      OBVIOUS
    <3>3. QED
      BY <1>2, <1>5, <1>6, <1>7, <3>1, <3>2 DEF TiesItsRows
  <2>5. QED
    BY <1>4, <2>3, <2>4
<1>9. CorrectedOnce'
  <2>1. \A c \in DOMAIN corrections : corrections[c].original # p
    BY <1>2 DEF Superseded
  <2>2. QED
    BY <1>3, <1>4, <2>1, LinkedParts DEF CorrectedOnce
<1>10. EveryRowIsRecorded'
  <2>1. \A q \in DOMAIN payments' : q \in DOMAIN payments \/ q = r \/ q = s
    BY <1>1, <1>5
  <2>2. new \in DOMAIN corrections' /\ corrections'[new].reversal = r
        /\ corrections'[new].replacement = s
    BY <1>3, <1>4
  <2>3. QED
    BY <1>4, <2>1, <2>2, LinkedParts DEF EveryRowIsRecorded
<1>11. EachRecordTiesItsRows' /\ CorrectedOnce' /\ EveryRowIsRecorded'
  BY <1>8, <1>9, <1>10
<1>12. QED
  BY <1>11 DEF CorrectionsAreLinked, EachRecordTiesItsRows, TiesItsRows,
               CorrectedOnce, EveryRowIsRecorded

\* However often a payment is corrected, every correction ties the payment that
\* was in force to a reversal of exactly its amount and to one replacement, and
\* no payment is the original of two corrections.
THEOREM CorrectionsLinked == Spec => []CorrectionsAreLinked
<1>1. Init => CorrectionsAreLinked
  BY DEF Init, CorrectionsAreLinked
<1>2. TypeOK /\ TypeOK' /\ CorrectionsAreLinked /\ [Next]_vars
        => CorrectionsAreLinked'
  <2>1. SUFFICES ASSUME TypeOK, TypeOK', CorrectionsAreLinked, [Next]_vars
                 PROVE  CorrectionsAreLinked'
    OBVIOUS
  <2>2. CASE LeavesPayments
    BY <2>1, <2>2 DEF LeavesPayments, CorrectionsAreLinked, SameChain
  <2>3. CASE \E b \in Nat : PostsBatch(b)
    BY <2>1, <2>3, PaymentsGrow, PostingKeepsLinks
  <2>4. CASE \E p \in DOMAIN payments, n \in Nat, amount \in Amounts :
               CorrectsPayment(p, n, amount)
    BY <2>1, <2>4, PaymentsGrow, CorrectingKeepsLinks
  <2>5. QED
    BY <2>1, <2>2, <2>3, <2>4, StepCases
<1>3. QED
  BY <1>1, <1>2, TypeCorrect, PTL DEF Spec

-----------------------------------------------------------------------------
(* Receipt numbers.  ReceiptsAreUnique is inductive only together with     *)
(* where receipts come from: rows are numbered upwards within a batch, the *)
(* payments of a batch exist only once it is posted, and every reversal    *)
(* and replacement extends the receipt of a payment that is corrected.     *)

InOrder(rows) == \A i, j \in DOMAIN rows : i < j => rows[i].seq < rows[j].seq

RowsInOrder == \A b \in DOMAIN entries : InOrder(entries[b])

LEMMA RemoveAtShifts ==
  ASSUME NEW S, NEW s \in Seq(S), NEW i \in 1 .. Len(s)
  PROVE  /\ Len(RemoveAt(s, i)) = Len(s) - 1
         /\ \A j \in 1 .. Len(s) - 1 :
              RemoveAt(s, i)[j] = IF j < i THEN s[j] ELSE s[j + 1]
<1> DEFINE front == SubSeq(s, 1, i - 1)
           back == SubSeq(s, i + 1, Len(s))
<1>1. Len(s) \in Nat /\ i \in Nat /\ 1 <= i /\ i <= Len(s)
  OBVIOUS
<1>2. /\ front \in Seq(S) /\ Len(front) = i - 1
      /\ \A j \in 1 .. i - 1 : front[j] = s[j]
  BY <1>1
<1>3. /\ back \in Seq(S) /\ Len(back) = Len(s) - i
      /\ \A j \in 1 .. Len(s) - i : back[j] = s[i + j]
  BY <1>1
<1>4. RemoveAt(s, i) = front \o back
  BY DEF RemoveAt
<1> HIDE DEF front, back
<1>5. /\ Len(front \o back) = Len(s) - 1
      /\ \A j \in 1 .. Len(s) - 1 :
           (front \o back)[j] = IF j <= i - 1 THEN front[j] ELSE back[j - (i - 1)]
  <2>1. /\ Len(front \o back) = Len(front) + Len(back)
        /\ \A j \in 1 .. Len(front) + Len(back) :
             (front \o back)[j] =
               IF j <= Len(front) THEN front[j] ELSE back[j - Len(front)]
    BY <1>2, <1>3, ConcatProperties
  <2>2. Len(front) = i - 1 /\ Len(front) + Len(back) = Len(s) - 1
    BY <1>1, <1>2, <1>3
  <2>3. QED
    BY <2>1, <2>2
<1>6. ASSUME NEW j \in 1 .. Len(s) - 1
      PROVE  (front \o back)[j] = IF j < i THEN s[j] ELSE s[j + 1]
  <2>1. CASE j < i
    BY <1>1, <1>2, <1>5, <2>1
  <2>2. CASE ~ (j < i)
    <3>1. j - (i - 1) \in 1 .. Len(s) - i /\ i + (j - (i - 1)) = j + 1
      BY <1>1, <2>2
    <3>2. back[j - (i - 1)] = s[j + 1]
      BY <1>3, <3>1
    <3>3. QED
      BY <1>1, <1>5, <2>2, <3>2
  <2>3. QED
    BY <2>1, <2>2
<1>7. QED
  BY <1>4, <1>5, <1>6

LEMMA AddingKeepsOrder ==
  ASSUME NEW rows \in Seq(Entry), InOrder(rows), NEW row \in Entry,
         rows # <<>> => row.seq = Last(rows).seq + 1
  PROVE  InOrder(Append(rows, row))
<1>1. Len(rows) \in Nat /\ DOMAIN rows = 1 .. Len(rows)
  OBVIOUS
<1>2. /\ DOMAIN Append(rows, row) = 1 .. Len(rows) + 1
      /\ \A i \in 1 .. Len(rows) : Append(rows, row)[i] = rows[i]
      /\ Append(rows, row)[Len(rows) + 1] = row
  BY <1>1
<1>3. \A i \in 1 .. Len(rows) : rows[i].seq \in Nat
  <2>1. \A i \in 1 .. Len(rows) : rows[i] \in Entry
    BY <1>1
  <2>2. QED
    BY <2>1 DEF Entry
<1>4. \A i \in 1 .. Len(rows) : rows[i].seq < row.seq
  <2>1. SUFFICES ASSUME NEW i \in 1 .. Len(rows) PROVE rows[i].seq < row.seq
    OBVIOUS
  <2>2. rows # <<>> /\ Last(rows) = rows[Len(rows)]
    BY <1>1 DEF Last
  <2>3. row.seq = rows[Len(rows)].seq + 1
    BY <2>2
  <2>4. rows[i].seq <= rows[Len(rows)].seq
    BY <1>1, <1>3 DEF InOrder
  <2>5. rows[Len(rows)].seq \in Nat /\ rows[i].seq \in Nat
    BY <1>1, <1>3
  <2>6. QED
    BY <2>3, <2>4, <2>5
<1> HIDE DEF InOrder
<1>5. \A i, j \in 1 .. Len(rows) : i < j => rows[i].seq < rows[j].seq
  BY <1>1 DEF InOrder
<1>6. QED
  BY <1>1, <1>2, <1>4, <1>5 DEF InOrder

LEMMA EditingKeepsOrder ==
  ASSUME NEW rows \in Seq(Entry), InOrder(rows), NEW i \in DOMAIN rows, NEW row,
         row.seq = rows[i].seq
  PROVE  InOrder([rows EXCEPT ![i] = row])
BY DEF InOrder

LEMMA DeletingKeepsOrder ==
  ASSUME NEW rows \in Seq(Entry), InOrder(rows), NEW i \in DOMAIN rows
  PROVE  InOrder(RemoveAt(rows, i))
<1> DEFINE rest == RemoveAt(rows, i)
<1>1. Len(rows) \in Nat /\ DOMAIN rows = 1 .. Len(rows) /\ i \in 1 .. Len(rows)
  OBVIOUS
<1>2. /\ rest \in Seq(Entry) /\ Len(rest) = Len(rows) - 1
      /\ \A j \in 1 .. Len(rows) - 1 :
           rest[j] = IF j < i THEN rows[j] ELSE rows[j + 1]
  BY <1>1, RemoveAtIsASeq, RemoveAtShifts
<1> HIDE DEF rest
<1>3. DOMAIN rest = 1 .. Len(rows) - 1
  BY <1>2
<1>4. SUFFICES ASSUME NEW j \in 1 .. Len(rows) - 1, NEW k \in 1 .. Len(rows) - 1,
                      j < k
               PROVE  rest[j].seq < rest[k].seq
  BY <1>3 DEF InOrder, rest
<1>5. PICK x \in 1 .. Len(rows) : rest[j] = rows[x] /\ x = IF j < i THEN j ELSE j + 1
  BY <1>1, <1>2
<1>6. PICK y \in 1 .. Len(rows) : rest[k] = rows[y] /\ y = IF k < i THEN k ELSE k + 1
  BY <1>1, <1>2
<1>7. x < y
  BY <1>1, <1>4, <1>5, <1>6
<1>8. QED
  BY <1>1, <1>5, <1>6, <1>7 DEF InOrder

\* Nothing numbers two rows of one batch alike, or out of order.
LEMMA RowsOrdered == Spec => []RowsInOrder
<1>1. Init => RowsInOrder
  BY DEF Init, RowsInOrder
<1>2. TypeOK /\ RowsInOrder /\ [Next]_vars => RowsInOrder'
  <2>1. SUFFICES ASSUME TypeOK, RowsInOrder, [Next]_vars PROVE RowsInOrder'
    OBVIOUS
  <2>2. /\ entries \in Seq(Seq(Entry)) /\ DOMAIN entries = 1 .. Len(entries)
        /\ Len(entries) \in Nat /\ DOMAIN entries = DOMAIN batches
        /\ \A b \in DOMAIN entries : entries[b] \in Seq(Entry) /\ InOrder(entries[b])
    BY <2>1 DEF TypeOK, RowsInOrder
  <2>3. CASE UNCHANGED entries
    BY <2>1, <2>3 DEF RowsInOrder
  <2>4. ASSUME NEW rows, InOrder(rows), entries' = Append(entries, rows)
        PROVE  RowsInOrder'
    BY <2>2, <2>4 DEF RowsInOrder
  <2>5. ASSUME NEW b \in DOMAIN batches, NEW rows, InOrder(rows),
               entries' = [entries EXCEPT ![b] = rows]
        PROVE  RowsInOrder'
    BY <2>2, <2>5 DEF RowsInOrder
  <2>6. CASE DraftStep
    <3>1. ASSUME NEW a, NEW k, OpenBatch(a, k) PROVE RowsInOrder'
      <4>1. InOrder(<<>>)
        BY DEF InOrder
      <4>2. QED
        BY <2>4, <3>1, <4>1 DEF OpenBatch
    <3>2. ASSUME NEW b, NEW expected, UpdateBatch(b, expected) \/ AbandonBatch(b, expected)
          PROVE  RowsInOrder'
      BY <2>3, <3>2 DEF UpdateBatch, AbandonBatch
    <3>3. ASSUME NEW b \in DOMAIN batches, NEW a, NEW k, NEW id \in 1 .. EntryIdLimit,
                 NEW m \in Members, NEW amount \in Amounts, NEW paid \in Dates,
                 AddEntry(a, k, b, id, m, amount, paid)
          PROVE  RowsInOrder'
      <4> DEFINE row == [id |-> id, seq |-> NextSequence(b), member |-> m,
                         amount |-> amount, paid |-> paid, version |-> 1]
      <4>1. NextSequence(b) \in Nat
        <5>1. CASE entries[b] = <<>>
          BY <5>1 DEF NextSequence
        <5>2. CASE entries[b] # <<>>
          <6>1. Last(entries[b]) \in Entry
            BY <2>2, <5>2, LastIsAnElement
          <6>2. QED
            BY <5>2, <6>1 DEF NextSequence, Entry
        <5>3. QED
          BY <5>1, <5>2
      <4>2. row \in Entry
        BY <4>1, LimitsAreNumbers DEF Entry
      <4>3. entries[b] # <<>> => row.seq = Last(entries[b]).seq + 1
        BY DEF NextSequence
      <4>4. entries' = [entries EXCEPT ![b] = Append(entries[b], row)]
        BY <3>3 DEF AddEntry
      <4> HIDE DEF row
      <4>5. InOrder(Append(entries[b], row))
        BY <2>2, <4>2, <4>3, AddingKeepsOrder
      <4>6. QED
        BY <2>5, <4>4, <4>5
    <3>4. ASSUME NEW b \in DOMAIN batches, NEW i \in DOMAIN entries[b], NEW expected,
                 NEW m, NEW amount, NEW paid,
                 UpdateEntry(b, i, expected, m, amount, paid)
          PROVE  RowsInOrder'
      <4> DEFINE row == Edited(entries[b][i], m, amount, paid)
      <4>1. row.seq = entries[b][i].seq
        BY DEF Edited
      <4>2. entries' = [entries EXCEPT ![b] = [entries[b] EXCEPT ![i] = row]]
        BY <3>4 DEF UpdateEntry
      <4> HIDE DEF row
      <4>3. InOrder([entries[b] EXCEPT ![i] = row])
        BY <2>2, <4>1, EditingKeepsOrder
      <4>4. QED
        BY <2>5, <4>2, <4>3
    <3>5. ASSUME NEW b \in DOMAIN batches, NEW i \in DOMAIN entries[b], NEW expected,
                 DeleteEntry(b, i, expected)
          PROVE  RowsInOrder'
      <4>1. entries' = [entries EXCEPT ![b] = RemoveAt(entries[b], i)]
        BY <3>5 DEF DeleteEntry
      <4>2. InOrder(RemoveAt(entries[b], i))
        BY <2>2, DeletingKeepsOrder
      <4>3. QED
        BY <2>5, <4>1, <4>2
    <3>6. QED
      BY <2>6, <3>1, <3>2, <3>3, <3>4, <3>5 DEF DraftStep
  <2>7. CASE PostingStep
    <3>1. ASSUME NEW a, NEW k, NEW b, NEW expected, Post(a, k, b, expected)
          PROVE  UNCHANGED entries
      BY <3>1 DEF Post
    <3>2. ASSUME NEW a, NEW k, NEW id, NEW m, NEW amount, NEW paid,
                 PostSingle(a, k, id, m, amount, paid)
          PROVE  RowsInOrder'
      <4> DEFINE row == [id |-> id, seq |-> 1, member |-> m, amount |-> amount,
                         paid |-> paid, version |-> 1]
      <4>1. InOrder(<<row>>)
        BY DEF InOrder
      <4>2. entries' = Append(entries, <<row>>)
        BY <3>2 DEF PostSingle
      <4>3. QED
        BY <2>4, <4>1, <4>2
    <3>3. ASSUME NEW a, NEW k, NEW p, NEW expected, NEW amount, NEW paid,
                 Correct(a, k, p, expected, amount, paid)
          PROVE  UNCHANGED entries
      BY <3>3 DEF Correct
    <3>4. QED
      BY <2>3, <2>7, <3>1, <3>2, <3>3 DEF PostingStep
  <2>8. CASE DecisionStep
    BY <2>3, <2>8 DEF DecisionStep, AdjustCoverage, ImportCoverage
  <2>9. CASE UNCHANGED vars
    BY <2>3, <2>9 DEF vars
  <2>10. QED
    BY <2>1, <2>6, <2>7, <2>8, <2>9 DEF Next
<1>3. QED
  BY <1>1, <1>2, TypeCorrect, PTL DEF Spec

\* The money of a batch exists only once the batch is posted.
PaymentsArePosted ==
  \A p \in DOMAIN payments :
    /\ payments[p].batch \in DOMAIN batches
    /\ batches[payments[p].batch].state = "posted"
    /\ payments[p].receipt.batch = payments[p].batch

ExtendsReceipt(p) ==
  \E o \in DOMAIN payments, mark \in {"R", "C"}, n \in Nat :
    /\ payments[p].corrects = o /\ Superseded(o)
    /\ payments[p].receipt = Marked(payments[o].receipt, mark, n)

TrailsFollowCorrections ==
  \A p \in DOMAIN payments :
    IF payments[p].kind = "original" THEN payments[p].receipt.trail = <<>>
    ELSE ExtendsReceipt(p)

ReceiptInv == PaymentsArePosted /\ TrailsFollowCorrections /\ ReceiptsAreUnique

LEMMA MarkedIsInjective ==
  ASSUME NEW r \in Receipt, NEW s \in Receipt,
         NEW mark \in {"R", "C"}, NEW other \in {"R", "C"},
         NEW n \in Nat, NEW m \in Nat,
         Marked(r, mark, n) = Marked(s, other, m)
  PROVE  r = s /\ mark = other
<1> DEFINE T == {"R", "C"} \X Nat
           e == <<mark, n>>
           f == <<other, m>>
<1>1. /\ r.trail \in Seq(T) /\ s.trail \in Seq(T)
      /\ e \in T /\ f \in T
  BY DEF Receipt
<1>2. /\ r.batch = s.batch /\ r.seq = s.seq
      /\ Append(r.trail, e) = Append(s.trail, f)
  BY MarkedKeepsNumber
<1>3. r.trail = s.trail /\ e = f
  <2> HIDE DEF T, e, f
  <2>1. QED
    BY <1>1, <1>2, AppendInjective
<1>4. /\ r = [batch |-> r.batch, seq |-> r.seq, trail |-> r.trail]
      /\ s = [batch |-> s.batch, seq |-> s.seq, trail |-> s.trail]
  BY DEF Receipt
<1>5. mark = other
  BY <1>3
<1>6. QED
  BY <1>2, <1>3, <1>4, <1>5

LEMMA MarkedIsNotBlank ==
  ASSUME NEW r \in Receipt, NEW mark \in {"R", "C"}, NEW n \in Nat
  PROVE  Marked(r, mark, n).trail # <<>>
<1> DEFINE T == {"R", "C"} \X Nat
<1>1. r.trail \in Seq(T) /\ <<mark, n>> \in T
  BY DEF Receipt
<1>2. Len(Append(r.trail, <<mark, n>>)) = Len(r.trail) + 1 /\ Len(r.trail) \in Nat
  BY <1>1, AppendProperties
<1>3. QED
  BY <1>2, MarkedKeepsNumber

\* A payment nothing corrects yet has no receipt that extends its own.
LEMMA NoReceiptExtends ==
  ASSUME TypeOK, TrailsFollowCorrections, ReceiptsAreUnique,
         NEW p \in DOMAIN payments, ~ Superseded(p), NEW q \in DOMAIN payments,
         NEW mark \in {"R", "C"}, NEW n \in Nat
  PROVE  payments[q].receipt # Marked(payments[p].receipt, mark, n)
<1>1. SUFFICES ASSUME payments[q].receipt = Marked(payments[p].receipt, mark, n)
               PROVE  FALSE
  OBVIOUS
<1>2. \A x \in DOMAIN payments : payments[x].receipt \in Receipt
  <2>1. \A x \in DOMAIN payments : payments[x] \in Payment
    BY DEF TypeOK
  <2>2. QED
    BY <2>1 DEF Payment
<1>3. payments[q].kind # "original"
  BY <1>1, <1>2, MarkedIsNotBlank DEF TrailsFollowCorrections
<1>4. PICK o \in DOMAIN payments, other \in {"R", "C"}, m \in Nat :
        /\ Superseded(o)
        /\ payments[q].receipt = Marked(payments[o].receipt, other, m)
  BY <1>3 DEF TrailsFollowCorrections, ExtendsReceipt
<1>5. payments[o].receipt = payments[p].receipt
  <2>1. payments[o].receipt \in Receipt /\ payments[p].receipt \in Receipt
    BY <1>2
  <2>2. Marked(payments[o].receipt, other, m) = Marked(payments[p].receipt, mark, n)
    BY <1>1, <1>4
  <2>3. QED
    BY <2>1, <2>2, MarkedIsInjective
<1>6. QED
  BY <1>4, <1>5 DEF ReceiptsAreUnique

LEMMA ExtendingSurvivesGrowth ==
  ASSUME DOMAIN payments \subseteq DOMAIN payments',
         \A q \in DOMAIN payments : payments'[q] = payments[q],
         DOMAIN corrections \subseteq DOMAIN corrections',
         \A c \in DOMAIN corrections : corrections'[c] = corrections[c],
         NEW p \in DOMAIN payments, ExtendsReceipt(p)
  PROVE  ExtendsReceipt(p)'
<1>1. PICK o \in DOMAIN payments, mark \in {"R", "C"}, n \in Nat :
        /\ payments[p].corrects = o /\ Superseded(o)
        /\ payments[p].receipt = Marked(payments[o].receipt, mark, n)
  BY DEF ExtendsReceipt
<1>2. Superseded(o)'
  BY <1>1 DEF Superseded
<1>3. payments'[p] = payments[p] /\ payments'[o] = payments[o] /\ o \in DOMAIN payments'
  BY <1>1
<1>4. payments'[p].receipt = Marked(payments'[o].receipt, mark, n)
  BY <1>1, <1>3
<1>5. QED
  BY <1>1, <1>2, <1>3, <1>4 DEF ExtendsReceipt

LEMMA PostingKeepsReceipts ==
  ASSUME TypeOK, TypeOK', ReceiptInv, RowsInOrder', NEW b \in Nat, PostsBatch(b),
         [Next]_vars
  PROVE  ReceiptInv'
<1>1. /\ DOMAIN payments \subseteq DOMAIN payments'
      /\ \A q \in DOMAIN payments : payments'[q] = payments[q]
      /\ DOMAIN corrections \subseteq DOMAIN corrections'
      /\ \A c \in DOMAIN corrections : corrections'[c] = corrections[c]
  BY PaymentsGrow
<1>2. \A p \in DOMAIN payments' : p \notin DOMAIN payments =>
        \E i \in DOMAIN entries'[b] :
          /\ p = Len(payments) + i
          /\ payments'[p] = Original(b, entries'[b][i])
  BY PostedRows
<1>3. \A p \in DOMAIN payments :
        payments[p].batch \in DOMAIN batches \ {b} /\ payments[p].receipt.batch # b
  BY DEF ReceiptInv, PaymentsArePosted, PostsBatch
<1>4. \A p \in DOMAIN payments' : p \notin DOMAIN payments =>
        /\ payments'[p].batch = b /\ payments'[p].kind = "original"
        /\ payments'[p].receipt.batch = b /\ payments'[p].receipt.trail = <<>>
        /\ \E i \in DOMAIN entries'[b] :
             /\ p = Len(payments) + i
             /\ payments'[p].receipt.seq = entries'[b][i].seq
  <2>1. SUFFICES ASSUME NEW p \in DOMAIN payments', p \notin DOMAIN payments
                 PROVE  /\ payments'[p].batch = b /\ payments'[p].kind = "original"
                        /\ payments'[p].receipt.batch = b
                        /\ payments'[p].receipt.trail = <<>>
                        /\ \E i \in DOMAIN entries'[b] :
                             /\ p = Len(payments) + i
                             /\ payments'[p].receipt.seq = entries'[b][i].seq
    OBVIOUS
  <2>2. PICK i \in DOMAIN entries'[b] :
          p = Len(payments) + i /\ payments'[p] = Original(b, entries'[b][i])
    BY <1>2, <2>1
  <2>3. PICK row : row = entries'[b][i]
    OBVIOUS
  <2>4. /\ Original(b, row).batch = b /\ Original(b, row).kind = "original"
        /\ Original(b, row).receipt.batch = b
        /\ Original(b, row).receipt.trail = <<>>
        /\ Original(b, row).receipt.seq = row.seq
    BY DEF Original
  <2>5. QED
    BY <2>2, <2>3, <2>4
<1>5. PaymentsArePosted'
  <2>1. SUFFICES ASSUME NEW p \in DOMAIN payments'
                 PROVE  /\ payments'[p].batch \in DOMAIN batches'
                        /\ batches'[payments'[p].batch].state = "posted"
                        /\ payments'[p].receipt.batch = payments'[p].batch
    BY DEF PaymentsArePosted
  <2>2. CASE p \in DOMAIN payments
    BY <1>1, <1>3, <2>2 DEF ReceiptInv, PaymentsArePosted, PostsBatch
  <2>3. CASE p \notin DOMAIN payments
    <3>1. payments'[p].batch = b /\ payments'[p].receipt.batch = b
      BY <1>4, <2>3
    <3>2. QED
      BY <3>1 DEF PostsBatch
  <2>4. QED
    BY <2>2, <2>3
<1>6. TrailsFollowCorrections'
  <2>1. SUFFICES ASSUME NEW p \in DOMAIN payments'
                 PROVE  IF payments'[p].kind = "original"
                        THEN payments'[p].receipt.trail = <<>>
                        ELSE ExtendsReceipt(p)'
    BY DEF TrailsFollowCorrections
  <2>2. CASE p \in DOMAIN payments
    BY <1>1, <2>2, ExtendingSurvivesGrowth DEF ReceiptInv, TrailsFollowCorrections
  <2>3. CASE p \notin DOMAIN payments
    BY <1>4, <2>3
  <2>4. QED
    BY <2>2, <2>3
<1>7. ReceiptsAreUnique'
  <2>1. SUFFICES ASSUME NEW p \in DOMAIN payments', NEW q \in DOMAIN payments',
                        payments'[p].receipt = payments'[q].receipt
                 PROVE  p = q
    BY DEF ReceiptsAreUnique
  <2>2. CASE p \in DOMAIN payments /\ q \in DOMAIN payments
    BY <1>1, <2>1, <2>2 DEF ReceiptInv, ReceiptsAreUnique
  <2>3. ASSUME NEW x \in DOMAIN payments, NEW y \in DOMAIN payments',
               y \notin DOMAIN payments
        PROVE  payments'[x].receipt # payments'[y].receipt
    <3>1. payments'[x].receipt.batch # b
      BY <1>1, <1>3
    <3>2. payments'[y].receipt.batch = b
      BY <1>4, <2>3
    <3>3. QED
      BY <3>1, <3>2
  <2>4. CASE p \notin DOMAIN payments /\ q \notin DOMAIN payments
    <3>1. PICK i \in DOMAIN entries'[b] :
            p = Len(payments) + i /\ payments'[p].receipt.seq = entries'[b][i].seq
      BY <1>4, <2>4
    <3>2. PICK j \in DOMAIN entries'[b] :
            q = Len(payments) + j /\ payments'[q].receipt.seq = entries'[b][j].seq
      BY <1>4, <2>4
    <3>3. entries'[b][i].seq = entries'[b][j].seq
      BY <2>1, <3>1, <3>2
    <3>4. b \in DOMAIN entries' /\ entries'[b] \in Seq(Entry)
      BY DEF TypeOK, PostsBatch
    <3>5. InOrder(entries'[b])
      BY <3>4 DEF RowsInOrder, InOrder
    <3>6. \A x \in DOMAIN entries'[b] : x \in Nat /\ entries'[b][x].seq \in Nat
      <4>1. \A x \in DOMAIN entries'[b] : x \in Nat /\ entries'[b][x] \in Entry
        BY <3>4
      <4>2. QED
        BY <4>1 DEF Entry
    <3>7. i = j
      <4>1. /\ i < j => entries'[b][i].seq < entries'[b][j].seq
            /\ j < i => entries'[b][j].seq < entries'[b][i].seq
        BY <3>5 DEF InOrder
      <4>2. i \in Nat /\ j \in Nat
        BY <3>6
      <4>3. entries'[b][i].seq \in Nat
        BY <3>6
      <4>4. QED
        BY <3>3, <4>1, <4>2, <4>3
    <3>8. QED
      BY <3>1, <3>2, <3>7
  <2>5. QED
    BY <2>1, <2>2, <2>3, <2>4
<1>8. QED
  BY <1>5, <1>6, <1>7 DEF ReceiptInv

LEMMA CorrectingKeepsReceipts ==
  ASSUME TypeOK, TypeOK', ReceiptInv, NEW p \in DOMAIN payments, NEW n \in Nat,
         NEW amount \in Amounts, CorrectsPayment(p, n, amount), [Next]_vars
  PROVE  ReceiptInv'
<1> DEFINE r == Len(payments) + 1
           s == Len(payments) + 2
<1>1. /\ DOMAIN payments \subseteq DOMAIN payments'
      /\ \A q \in DOMAIN payments : payments'[q] = payments[q]
      /\ DOMAIN corrections \subseteq DOMAIN corrections'
      /\ \A c \in DOMAIN corrections : corrections'[c] = corrections[c]
  BY PaymentsGrow
<1>2. /\ Len(payments') = s
      /\ payments'[r].kind = "reversal" /\ payments'[s].kind = "replacement"
      /\ payments'[r].receipt = Marked(payments[p].receipt, "R", n)
      /\ payments'[s].receipt = Marked(payments[p].receipt, "C", n)
      /\ \A q \in {r, s} : /\ payments'[q].corrects = p
                           /\ payments'[q].batch = payments[p].batch
  BY CorrectionRows
<1>3. /\ DOMAIN payments = 1 .. Len(payments) /\ Len(payments) \in Nat
      /\ DOMAIN payments' = 1 .. Len(payments')
  BY DEF TypeOK
<1>4. \A q \in DOMAIN payments' : q \in DOMAIN payments \/ q = r \/ q = s
  BY <1>2, <1>3
<1>5. payments[p].receipt \in Receipt
  <2>1. payments[p] \in Payment
    BY DEF TypeOK
  <2>2. QED
    BY <2>1 DEF Payment
<1>6. ~ Superseded(p) /\ UNCHANGED batches
  BY DEF CorrectsPayment
<1>7. PaymentsArePosted'
  <2>1. \A q \in {r, s} : payments'[q].receipt.batch = payments'[q].batch
    BY <1>2, <1>5, MarkedKeepsNumber DEF ReceiptInv, PaymentsArePosted
  <2>2. QED
    BY <1>1, <1>2, <1>4, <1>6, <2>1 DEF ReceiptInv, PaymentsArePosted
<1>8. TrailsFollowCorrections'
  <2>1. Superseded(p)'
    <3>1. Len(corrections) + 1 \in DOMAIN corrections'
          /\ corrections'[Len(corrections) + 1].original = p
      <4> DEFINE row == [original |-> p, reversal |-> r, replacement |-> s]
      <4>1. corrections' = Append(corrections, row) /\ corrections \in Seq(Correction)
        BY DEF CorrectsPayment, TypeOK
      <4>2. row \in Correction
        BY <1>3 DEF Correction
      <4>3. row.original = p
        OBVIOUS
      <4> HIDE DEF row
      <4>4. /\ Len(corrections) + 1 \in DOMAIN corrections'
            /\ corrections'[Len(corrections) + 1] = row
        BY <4>1, <4>2, AppendProperties
      <4>5. QED
        BY <4>3, <4>4
    <3>2. QED
      BY <3>1 DEF Superseded
  <2>2. payments'[p] = payments[p] /\ p \in DOMAIN payments'
    BY <1>1
  <2>3. /\ payments'[r].receipt = Marked(payments'[p].receipt, "R", n)
        /\ payments'[s].receipt = Marked(payments'[p].receipt, "C", n)
    BY <1>2, <2>2
  <2>4. PICK x, y : x = r /\ y = s
    OBVIOUS
  <2>5. ExtendsReceipt(x)' /\ ExtendsReceipt(y)'
    BY <1>2, <2>1, <2>2, <2>3, <2>4 DEF ExtendsReceipt
  <2>6. \A q \in DOMAIN payments : payments[q].kind # "original" => ExtendsReceipt(q)'
    BY <1>1, ExtendingSurvivesGrowth DEF ReceiptInv, TrailsFollowCorrections
  <2>7. \A q \in DOMAIN payments :
          payments'[q].kind = "original" => payments'[q].receipt.trail = <<>>
    BY <1>1 DEF ReceiptInv, TrailsFollowCorrections
  <2>8. payments'[x].kind # "original" /\ payments'[y].kind # "original"
    BY <1>2, <2>4
  <2>9. \A q \in DOMAIN payments : payments'[q].kind # "original" => ExtendsReceipt(q)'
    BY <1>1, <2>6
  <2>10. \A q \in DOMAIN payments' : q \in DOMAIN payments \/ q = x \/ q = y
    BY <1>4, <2>4
  <2>11. QED
    BY <2>5, <2>7, <2>8, <2>9, <2>10 DEF TrailsFollowCorrections
<1>9. ReceiptsAreUnique'
  <2>1. \A q \in DOMAIN payments :
          /\ payments'[q].receipt # payments'[r].receipt
          /\ payments'[q].receipt # payments'[s].receipt
    BY <1>1, <1>2, <1>6, NoReceiptExtends DEF ReceiptInv
  <2>2. payments'[r].receipt # payments'[s].receipt
    BY <1>2, <1>5, MarkedIsInjective
  <2>3. QED
    BY <1>1, <1>4, <2>1, <2>2 DEF ReceiptInv, ReceiptsAreUnique
<1>10. QED
  BY <1>7, <1>8, <1>9 DEF ReceiptInv

LEMMA ReceiptInvHolds == Spec => []ReceiptInv
<1>1. Init => ReceiptInv
  BY DEF Init, ReceiptInv, PaymentsArePosted, TrailsFollowCorrections, ReceiptsAreUnique
<1>2. TypeOK /\ TypeOK' /\ RowsInOrder' /\ ReceiptInv /\ [Next]_vars => ReceiptInv'
  <2>1. SUFFICES ASSUME TypeOK, TypeOK', RowsInOrder', ReceiptInv, [Next]_vars
                 PROVE  ReceiptInv'
    OBVIOUS
  <2>2. CASE LeavesPayments
    <3>1. PaymentsArePosted'
      BY <2>1, <2>2 DEF LeavesPayments, ReceiptInv, PaymentsArePosted
    <3>2. TrailsFollowCorrections'
      BY <2>1, <2>2 DEF LeavesPayments, ReceiptInv, TrailsFollowCorrections,
                        ExtendsReceipt, Superseded
    <3>3. ReceiptsAreUnique'
      BY <2>1, <2>2 DEF LeavesPayments, ReceiptInv, ReceiptsAreUnique
    <3>4. QED
      BY <3>1, <3>2, <3>3 DEF ReceiptInv
  <2>3. CASE \E b \in Nat : PostsBatch(b)
    BY <2>1, <2>3, PostingKeepsReceipts
  <2>4. CASE \E p \in DOMAIN payments, n \in Nat, amount \in Amounts :
               CorrectsPayment(p, n, amount)
    BY <2>1, <2>4, CorrectingKeepsReceipts
  <2>5. QED
    BY <2>1, <2>2, <2>3, <2>4, StepCases
<1>3. QED
  BY <1>1, <1>2, TypeCorrect, RowsOrdered, PTL DEF Spec

\* No two payments ever get the same receipt number, whatever is edited, posted
\* and corrected in whatever order: ux_payments_receipt never aborts a posting.
THEOREM ReceiptsUnique == Spec => []ReceiptsAreUnique
<1>1. ReceiptInv => ReceiptsAreUnique
  BY DEF ReceiptInv
<1>2. QED
  BY <1>1, ReceiptInvHolds, PTL

-----------------------------------------------------------------------------
(* Posting.  PostedExactlyOnce is inductive given PaymentsArePosted, which  *)
(* says that an open batch has no payments to be counted twice.            *)

Originals(b) == {p \in BatchPayments(b) : payments[p].kind = "original"}

EveryRowIsPosted(b) ==
  /\ Cardinality(Originals(b)) = Len(entries[b])
  /\ \A i \in DOMAIN entries[b] :
       \E p \in Originals(b), e \in DOMAIN coverage :
         /\ payments[p] = Original(b, entries[b][i])
         /\ coverage[e].payment = p
         /\ coverage[e].reason = "payment"
         /\ coverage[e].member = entries[b][i].member
         /\ coverage[e].paid = entries[b][i].paid

LEMMA PostedParts ==
  PostedExactlyOnce <=>
    \A b \in DOMAIN batches :
      IF batches[b].state # "posted" THEN BatchPayments(b) = {}
      ELSE EveryRowIsPosted(b)
BY DEF PostedExactlyOnce, EveryRowIsPosted, Originals

LEMMA CoverageGrows ==
  ASSUME TypeOK, TypeOK', [Next]_vars
  PROVE  /\ DOMAIN coverage \subseteq DOMAIN coverage'
         /\ \A e \in DOMAIN coverage : coverage'[e] = coverage[e]
<1>1. /\ DOMAIN coverage = 1 .. Len(coverage) /\ Len(coverage) \in Nat
      /\ DOMAIN coverage' = 1 .. Len(coverage') /\ Len(coverage') \in Nat
  BY DEF TypeOK
<1>2. CASE Next
  <2>1. /\ Len(coverage') >= Len(coverage)
        /\ \A e \in 1 .. Len(coverage) : coverage'[e] = coverage[e]
    BY <1>2, NextExtendsHistory DEF ExtendsHistory
  <2>2. QED
    BY <1>1, <2>1
<1>3. CASE UNCHANGED vars
  BY <1>3 DEF vars
<1>4. QED
  BY <1>2, <1>3

\* What was posted stays posted while the ledger only grows elsewhere.
LEMMA PostedSurvivesGrowth ==
  ASSUME NEW b, EveryRowIsPosted(b), entries'[b] = entries[b],
         Originals(b)' = Originals(b),
         \A p \in DOMAIN payments : payments'[p] = payments[p],
         DOMAIN coverage \subseteq DOMAIN coverage',
         \A e \in DOMAIN coverage : coverage'[e] = coverage[e]
  PROVE  EveryRowIsPosted(b)'
<1>1. Cardinality(Originals(b))' = Len(entries'[b])
  BY DEF EveryRowIsPosted
<1>2. ASSUME NEW i \in DOMAIN entries'[b]
      PROVE  \E p \in Originals(b)', e \in DOMAIN coverage' :
               /\ payments'[p] = Original(b, entries'[b][i])
               /\ coverage'[e].payment = p
               /\ coverage'[e].reason = "payment"
               /\ coverage'[e].member = entries'[b][i].member
               /\ coverage'[e].paid = entries'[b][i].paid
  <2>1. PICK p \in Originals(b), e \in DOMAIN coverage :
          /\ payments[p] = Original(b, entries[b][i])
          /\ coverage[e].payment = p
          /\ coverage[e].reason = "payment"
          /\ coverage[e].member = entries[b][i].member
          /\ coverage[e].paid = entries[b][i].paid
    BY DEF EveryRowIsPosted
  <2>2. p \in DOMAIN payments
    BY DEF Originals, BatchPayments
  <2>3. payments'[p] = payments[p] /\ coverage'[e] = coverage[e]
    BY <2>2
  <2>4. p \in Originals(b)' /\ e \in DOMAIN coverage'
    OBVIOUS
  <2>5. QED
    BY <2>1, <2>3, <2>4
<1>3. QED
  BY <1>1, <1>2 DEF EveryRowIsPosted

LEMMA QuietKeepsPosted ==
  ASSUME TypeOK, TypeOK', PaymentsArePosted, PostedExactlyOnce, LeavesPayments,
         [Next]_vars
  PROVE  PostedExactlyOnce'
<1>1. ASSUME NEW b \in DOMAIN batches'
      PROVE  IF batches'[b].state # "posted" THEN BatchPayments(b)' = {}
             ELSE EveryRowIsPosted(b)'
  <2>1. payments' = payments
    BY DEF LeavesPayments
  <2>2. /\ BatchPayments(b)' = BatchPayments(b) /\ Originals(b)' = Originals(b)
    BY <2>1 DEF BatchPayments, Originals
  <2>3. CASE b \in DOMAIN batches /\ batches[b].state = "posted"
    <3>1. batches'[b].state = "posted" /\ entries'[b] = entries[b]
      BY <2>3 DEF LeavesPayments
    <3>2. EveryRowIsPosted(b)
      BY <2>3, PostedParts
    <3>3. QED
      BY <2>1, <2>2, <3>1, <3>2, CoverageGrows, PostedSurvivesGrowth
  <2>4. CASE b \in DOMAIN batches /\ batches[b].state # "posted"
    BY <2>2, <2>4, PostedParts DEF LeavesPayments
  <2>5. CASE b \notin DOMAIN batches
    <3>1. BatchPayments(b) = {}
      BY <2>5 DEF PaymentsArePosted, BatchPayments
    <3>2. batches'[b].state # "posted"
      BY <2>5 DEF LeavesPayments
    <3>3. QED
      BY <2>2, <3>1, <3>2
  <2>6. QED
    BY <2>3, <2>4, <2>5
<1>2. QED
  BY <1>1 DEF PostedExactlyOnce, EveryRowIsPosted, Originals

LEMMA PostingPostsOnce ==
  ASSUME TypeOK, TypeOK', PaymentsArePosted, PostedExactlyOnce, NEW b \in Nat,
         PostsBatch(b), [Next]_vars
  PROVE  PostedExactlyOnce'
<1> DEFINE n == Len(payments)
           k == Len(entries'[b])
<1>1. /\ b \in DOMAIN entries' /\ entries'[b] \in Seq(Entry)
  BY DEF TypeOK, PostsBatch
<1>2. /\ n \in Nat /\ DOMAIN payments = 1 .. n
      /\ k \in Nat /\ DOMAIN entries'[b] = 1 .. k
      /\ DOMAIN payments' = 1 .. Len(payments')
  BY <1>1 DEF TypeOK
<1>3. /\ Len(payments') = n + k
      /\ \A p \in 1 .. n : payments'[p] = payments[p]
      /\ \A i \in 1 .. k : payments'[n + i] = Original(b, entries'[b][i])
  BY DEF PostsBatch
<1>4. \A p \in 1 .. n : payments[p].batch \in DOMAIN batches \ {b}
  BY <1>2 DEF PaymentsArePosted, PostsBatch
<1>5. ASSUME NEW p \in n + 1 .. n + k
      PROVE  /\ payments'[p].batch = b /\ payments'[p].kind = "original"
             /\ p \in DOMAIN payments' /\ p - n \in 1 .. k /\ p = n + (p - n)
  <2>1. p - n \in 1 .. k /\ p = n + (p - n) /\ p \in DOMAIN payments'
    BY <1>2, <1>3
  <2>2. PICK i \in 1 .. k : p = n + i
    BY <2>1
  <2>3. PICK row : row = entries'[b][i]
    OBVIOUS
  <2>4. payments'[p] = Original(b, row)
    BY <1>3, <2>2, <2>3
  <2>5. Original(b, row).batch = b /\ Original(b, row).kind = "original"
    BY DEF Original
  <2>6. QED
    BY <2>1, <2>4, <2>5
<1>6. \A p \in DOMAIN payments' : p \in 1 .. n \/ p \in n + 1 .. n + k
  BY <1>2, <1>3
<1>7. Originals(b)' = n + 1 .. n + k
  <2>1. ASSUME NEW p \in 1 .. n PROVE payments'[p].batch # b
    BY <1>3, <1>4
  <2>2. QED
    BY <1>5, <1>6, <2>1 DEF Originals, BatchPayments
<1>8. EveryRowIsPosted(b)'
  <2>1. Cardinality(n + 1 .. n + k) = k
    <3>1. n + 1 \in Int /\ n + k \in Int
      BY <1>2
    <3>2. Cardinality(n + 1 .. n + k) =
            IF n + 1 > n + k THEN 0 ELSE (n + k) - (n + 1) + 1
      BY <3>1, FS_Interval
    <3>3. QED
      BY <1>2, <3>2
  <2>2. Cardinality(Originals(b))' = Len(entries'[b])
    BY <1>7, <2>1
  <2>3. ASSUME NEW i \in 1 .. k
        PROVE  \E p \in Originals(b)', e \in DOMAIN coverage' :
                 /\ payments'[p] = Original(b, entries'[b][i])
                 /\ coverage'[e].payment = p
                 /\ coverage'[e].reason = "payment"
                 /\ coverage'[e].member = entries'[b][i].member
                 /\ coverage'[e].paid = entries'[b][i].paid
    <3>1. PICK e \in DOMAIN coverage' : coverage'[e] = Grant(entries'[b], i)
      BY DEF PostsBatch
    <3>2. /\ coverage'[e].payment = n + i /\ coverage'[e].reason = "payment"
          /\ coverage'[e].member = entries'[b][i].member
          /\ coverage'[e].paid = entries'[b][i].paid
      <4>1. PICK rows : rows = entries'[b]
        OBVIOUS
      <4>2. /\ Grant(rows, i).payment = n + i /\ Grant(rows, i).reason = "payment"
            /\ Grant(rows, i).member = rows[i].member
            /\ Grant(rows, i).paid = rows[i].paid
        BY DEF Grant
      <4>3. coverage'[e] = Grant(rows, i)
        BY <3>1, <4>1
      <4>4. QED
        BY <4>1, <4>2, <4>3
    <3>3. n + i \in Originals(b)'
      BY <1>2, <1>7
    <3>4. payments'[n + i] = Original(b, entries'[b][i])
      BY <1>3
    <3>5. QED
      BY <3>2, <3>3, <3>4
  <2>4. QED
    BY <1>2, <2>2, <2>3 DEF EveryRowIsPosted
<1>9. ASSUME NEW c \in DOMAIN batches', c # b
      PROVE  IF batches'[c].state # "posted" THEN BatchPayments(c)' = {}
             ELSE EveryRowIsPosted(c)'
  <2>1. c \in DOMAIN batches /\ batches'[c] = batches[c] /\ entries'[c] = entries[c]
    BY <1>9 DEF PostsBatch
  <2>2. /\ BatchPayments(c)' = BatchPayments(c)
        /\ Originals(c)' = Originals(c)
    <3>1. ASSUME NEW p \in DOMAIN payments', payments'[p].batch = c
          PROVE  p \in DOMAIN payments /\ payments'[p] = payments[p]
      BY <1>2, <1>3, <1>5, <1>6, <1>9, <3>1
    <3>2. ASSUME NEW p \in DOMAIN payments
          PROVE  p \in DOMAIN payments' /\ payments'[p] = payments[p]
      BY <1>2, <1>3
    <3>3. BatchPayments(c)' = BatchPayments(c)
      BY <3>1, <3>2 DEF BatchPayments
    <3>4. QED
      BY <3>1, <3>2, <3>3 DEF BatchPayments, Originals
  <2>3. CASE batches[c].state # "posted"
    BY <2>1, <2>2, <2>3, PostedParts
  <2>4. CASE batches[c].state = "posted"
    <3>1. EveryRowIsPosted(c)
      BY <2>1, <2>4, PostedParts
    <3>2. EveryRowIsPosted(c)'
      BY <1>2, <1>3, <2>1, <2>2, <3>1, CoverageGrows, PostedSurvivesGrowth
    <3>3. QED
      BY <2>1, <2>4, <3>2
  <2>5. QED
    BY <2>3, <2>4
<1>10. batches'[b].state = "posted"
  BY DEF PostsBatch
<1>11. \A c \in DOMAIN batches' :
         IF batches'[c].state # "posted" THEN BatchPayments(c)' = {}
         ELSE EveryRowIsPosted(c)'
  BY <1>8, <1>9, <1>10
<1>12. QED
  BY <1>11 DEF PostedExactlyOnce, EveryRowIsPosted, Originals

LEMMA CorrectingKeepsPosted ==
  ASSUME TypeOK, TypeOK', PaymentsArePosted, PostedExactlyOnce,
         NEW p \in DOMAIN payments, NEW n \in Nat, NEW amount \in Amounts,
         CorrectsPayment(p, n, amount), [Next]_vars
  PROVE  PostedExactlyOnce'
<1>1. /\ DOMAIN payments \subseteq DOMAIN payments'
      /\ \A q \in DOMAIN payments : payments'[q] = payments[q]
  BY PaymentsGrow
<1>2. ASSUME NEW q \in DOMAIN payments', q \notin DOMAIN payments
      PROVE  payments'[q].kind # "original" /\ payments'[q].batch = payments[p].batch
  <2>1. /\ DOMAIN payments = 1 .. Len(payments) /\ Len(payments) \in Nat
        /\ DOMAIN payments' = 1 .. Len(payments')
    BY DEF TypeOK
  <2>2. Len(payments') = Len(payments) + 2
    BY CorrectionRows
  <2>3. q = Len(payments) + 1 \/ q = Len(payments) + 2
    BY <1>2, <2>1, <2>2
  <2>4. QED
    BY <2>3, CorrectionRows
<1>3. UNCHANGED <<batches, entries>>
  BY DEF CorrectsPayment
<1>4. batches[payments[p].batch].state = "posted"
  BY DEF PaymentsArePosted
<1>5. ASSUME NEW b \in DOMAIN batches'
      PROVE  IF batches'[b].state # "posted" THEN BatchPayments(b)' = {}
             ELSE EveryRowIsPosted(b)'
  <2>1. CASE batches[b].state # "posted"
    <3>1. BatchPayments(b) = {}
      BY <1>3, <2>1, PostedParts
    <3>2. BatchPayments(b)' = {}
      BY <1>1, <1>2, <1>4, <2>1, <3>1 DEF BatchPayments
    <3>3. QED
      BY <1>3, <2>1, <3>2
  <2>2. CASE batches[b].state = "posted"
    <3>1. Originals(b)' = Originals(b)
      BY <1>1, <1>2 DEF Originals, BatchPayments
    <3>2. EveryRowIsPosted(b) /\ entries'[b] = entries[b]
      BY <1>3, <2>2, PostedParts
    <3>3. EveryRowIsPosted(b)'
      BY <1>1, <3>1, <3>2, CoverageGrows, PostedSurvivesGrowth
    <3>4. QED
      BY <1>3, <2>2, <3>3
  <2>3. QED
    BY <2>1, <2>2
<1>6. QED
  BY <1>5 DEF PostedExactlyOnce, EveryRowIsPosted, Originals

\* A posted batch turned each of its rows into exactly one payment and one
\* grant, also after its payments were corrected; an open or abandoned batch
\* has no payment at all.
THEOREM PostedOnce == Spec => []PostedExactlyOnce
<1>1. Init => PostedExactlyOnce
  BY DEF Init, PostedExactlyOnce
<1>2. TypeOK /\ TypeOK' /\ ReceiptInv /\ PostedExactlyOnce /\ [Next]_vars
        => PostedExactlyOnce'
  <2>1. SUFFICES ASSUME TypeOK, TypeOK', PaymentsArePosted, PostedExactlyOnce,
                        [Next]_vars
                 PROVE  PostedExactlyOnce'
    BY DEF ReceiptInv
  <2>2. CASE LeavesPayments
    BY <2>1, <2>2, QuietKeepsPosted
  <2>3. CASE \E b \in Nat : PostsBatch(b)
    BY <2>1, <2>3, PostingPostsOnce
  <2>4. CASE \E p \in DOMAIN payments, n \in Nat, amount \in Amounts :
               CorrectsPayment(p, n, amount)
    BY <2>1, <2>4, CorrectingKeepsPosted
  <2>5. QED
    BY <2>1, <2>2, <2>3, <2>4, StepCases
<1>3. QED
  BY <1>1, <1>2, TypeCorrect, ReceiptInvHolds, PTL DEF Spec

-----------------------------------------------------------------------------
(* Idempotency keys.  OneKeyPerWork counts; the invariant below it names    *)
(* the one claim, and adds that a claim never precedes the work it names.  *)

PostingOps == {"batch-post", "single-payment"}

KeysAreClaimedOnce ==
  \A c, d \in claims : c.actor = d.actor /\ c.op = d.op /\ c.key = d.key => c = d

BatchesHaveTheirKey ==
  \A b \in DOMAIN batches :
    IF batches[b].state = "posted" THEN \E c : PostingClaims(b) = {c}
    ELSE PostingClaims(b) = {}

ReplacementsHaveTheirKey ==
  \A p \in DOMAIN payments :
    IF payments[p].kind = "replacement" THEN \E c : CorrectionClaims(p) = {c}
    ELSE CorrectionClaims(p) = {}

ClaimsNameWork ==
  \A c \in claims :
    /\ c.op \in PostingOps => c.id \in DOMAIN batches
    /\ c.op = "payment-correct" => c.id \in DOMAIN payments

KeyInv ==
  /\ KeysAreClaimedOnce
  /\ BatchesHaveTheirKey /\ ReplacementsHaveTheirKey
  /\ ClaimsNameWork

LEMMA KeyInvCounts ==
  ASSUME KeyInv
  PROVE  OneKeyPerWork
<1>1. \A c : Cardinality({c}) = 1
  BY FS_Singleton
<1>2. Cardinality({}) = 0
  BY FS_EmptySet
<1>3. \A b \in DOMAIN batches :
        Cardinality(PostingClaims(b)) = IF batches[b].state = "posted" THEN 1 ELSE 0
  BY <1>1, <1>2 DEF KeyInv, BatchesHaveTheirKey
<1>4. \A p \in DOMAIN payments :
        Cardinality(CorrectionClaims(p)) =
          IF payments[p].kind = "replacement" THEN 1 ELSE 0
  BY <1>1, <1>2 DEF KeyInv, ReplacementsHaveTheirKey
<1>5. QED
  BY <1>3, <1>4 DEF OneKeyPerWork, KeyInv, KeysAreClaimedOnce

\* What a handler does to the idempotency records: it stamps one record, under
\* a key that had none.
Claims(op, id) ==
  \E a, k : /\ Unclaimed(a, op, k) /\ k # NoKey
            /\ claims' = claims \cup
                 {[actor |-> a, op |-> op, key |-> k, id |-> id]}

LEMMA CompleteClaims ==
  ASSUME NEW a, NEW op, NEW k, NEW id, Unclaimed(a, op, k), Complete(a, op, k, id)
  PROVE  IF k = NoKey THEN UNCHANGED claims ELSE Claims(op, id)
BY DEF Complete, Claims

LEMMA ClaimingKeepsKeysApart ==
  ASSUME NEW op, NEW id, KeysAreClaimedOnce, Claims(op, id)
  PROVE  KeysAreClaimedOnce'
<1>1. PICK a, k : /\ Unclaimed(a, op, k) /\ k # NoKey
                  /\ claims' = claims \cup
                       {[actor |-> a, op |-> op, key |-> k, id |-> id]}
  BY DEF Claims
<1> DEFINE new == [actor |-> a, op |-> op, key |-> k, id |-> id]
<1>2. new.actor = a /\ new.op = op /\ new.key = k
  OBVIOUS
<1> HIDE DEF new
<1>3. \A c \in claims : ~ (c.actor = new.actor /\ c.op = new.op /\ c.key = new.key)
  BY <1>1, <1>2 DEF Unclaimed
<1>4. claims' = claims \cup {new}
  BY <1>1 DEF new
<1>5. QED
  BY <1>3, <1>4 DEF KeysAreClaimedOnce

\* Which works a new claim is counted for.
LEMMA ClaimedWork ==
  ASSUME NEW op, NEW id, Claims(op, id)
  PROVE  \E new :
           /\ claims' = claims \cup {new} /\ new.op = op /\ new.id = id
           /\ \A b : PostingClaims(b)' =
                       IF op \in PostingOps /\ b = id THEN PostingClaims(b) \cup {new}
                       ELSE PostingClaims(b)
           /\ \A p : CorrectionClaims(p)' =
                       IF op = "payment-correct" /\ p = id
                       THEN CorrectionClaims(p) \cup {new}
                       ELSE CorrectionClaims(p)
<1>1. PICK new : claims' = claims \cup {new} /\ new.op = op /\ new.id = id
  <2>1. PICK a, k : claims' = claims \cup
                      {[actor |-> a, op |-> op, key |-> k, id |-> id]}
    BY DEF Claims
  <2> DEFINE row == [actor |-> a, op |-> op, key |-> k, id |-> id]
  <2>2. row.op = op /\ row.id = id
    OBVIOUS
  <2>3. claims' = claims \cup {row}
    BY <2>1
  <2> HIDE DEF row
  <2>4. QED
    BY <2>2, <2>3
<1>2. ASSUME NEW b
      PROVE  PostingClaims(b)' =
               IF op \in PostingOps /\ b = id THEN PostingClaims(b) \cup {new}
               ELSE PostingClaims(b)
  BY <1>1 DEF PostingClaims, PostingOps
<1>3. ASSUME NEW p
      PROVE  CorrectionClaims(p)' =
               IF op = "payment-correct" /\ p = id THEN CorrectionClaims(p) \cup {new}
               ELSE CorrectionClaims(p)
  BY <1>1 DEF CorrectionClaims
<1>4. QED
  BY <1>1, <1>2, <1>3

LEMMA KeyStepCases ==
  ASSUME TypeOK, [Next]_vars
  PROVE  \/ /\ LeavesPayments
            /\ \/ UNCHANGED claims
               \/ \E op \in {"batch-create", "entry-create"} : \E id : Claims(op, id)
         \/ \E b \in Nat, op \in PostingOps : PostsBatch(b) /\ Claims(op, b)
         \/ \E p \in DOMAIN payments, n \in Nat, amount \in Amounts :
              /\ CorrectsPayment(p, n, amount)
              /\ Claims("payment-correct", Len(payments) + 2)
<1>1. CASE UNCHANGED vars
  BY <1>1 DEF vars, LeavesPayments
<1>2. CASE DraftStep
  <2>1. \A a, k : OpenBatch(a, k) =>
          UNCHANGED claims \/ \E id : Claims("batch-create", id)
    BY CompleteClaims DEF OpenBatch
  <2>2. \A b, expected : UpdateBatch(b, expected) => UNCHANGED claims
    BY DEF UpdateBatch
  <2>3. \A b, expected : AbandonBatch(b, expected) => UNCHANGED claims
    BY DEF AbandonBatch
  <2>4. \A a, k, b, id, m, amount, paid : AddEntry(a, k, b, id, m, amount, paid) =>
          UNCHANGED claims \/ Claims("entry-create", id)
    BY CompleteClaims DEF AddEntry
  <2>5. \A b, i, expected, m, amount, paid :
          UpdateEntry(b, i, expected, m, amount, paid) => UNCHANGED claims
    BY DEF UpdateEntry
  <2>6. \A b, i, expected : DeleteEntry(b, i, expected) => UNCHANGED claims
    BY DEF DeleteEntry
  <2>7. \/ UNCHANGED claims
        \/ \E op \in {"batch-create", "entry-create"} : \E id : Claims(op, id)
    BY <1>2, <2>1, <2>2, <2>3, <2>4, <2>5, <2>6 DEF DraftStep
  <2>8. QED
    BY <1>2, <2>7, DraftStepLeavesPayments
<1>3. CASE PostingStep
  <2>1. \A k \in Keys : k # NoKey
    BY NoKeyIsNoKey
  <2>2. ASSUME NEW a, NEW k \in Keys, NEW b \in DOMAIN batches, NEW expected,
               Post(a, k, b, expected)
        PROVE  \E c \in Nat, op \in PostingOps : PostsBatch(c) /\ Claims(op, c)
    <3>1. Claims("batch-post", b)
      BY <2>1, <2>2, CompleteClaims DEF Post
    <3>2. PostsBatch(b) /\ b \in Nat
      BY <2>2, PostPostsBatch DEF TypeOK
    <3>3. QED
      BY <3>1, <3>2 DEF PostingOps
  <2>3. ASSUME NEW a, NEW k \in Keys, NEW id \in 1 .. EntryIdLimit, NEW m \in Members,
               NEW amount \in Amounts, NEW paid \in Dates,
               PostSingle(a, k, id, m, amount, paid)
        PROVE  \E c \in Nat, op \in PostingOps : PostsBatch(c) /\ Claims(op, c)
    <3>1. Claims("single-payment", Len(batches) + 1)
      BY <2>1, <2>3, CompleteClaims DEF PostSingle
    <3>2. PostsBatch(Len(batches) + 1) /\ Len(batches) + 1 \in Nat
      BY <2>3, PostSinglePostsBatch DEF TypeOK
    <3>3. QED
      BY <3>1, <3>2 DEF PostingOps
  <2>4. ASSUME NEW a, NEW k \in Keys, NEW p \in DOMAIN payments,
               NEW expected \in 0 .. CorrectionLimit, NEW amount \in Amounts,
               NEW paid \in Dates, Correct(a, k, p, expected, amount, paid)
        PROVE  \E q \in DOMAIN payments, n \in Nat, cents \in Amounts :
                 /\ CorrectsPayment(q, n, cents)
                 /\ Claims("payment-correct", Len(payments) + 2)
    <3>1. expected + 1 \in Nat
      BY LimitsAreNumbers
    <3>2. Claims("payment-correct", Len(payments) + 2)
      BY <2>1, <2>4, CompleteClaims DEF Correct
    <3>3. QED
      BY <2>4, <3>1, <3>2, CorrectCorrectsPayment
  <2>5. QED
    BY <1>3, <2>2, <2>3, <2>4 DEF PostingStep
<1>4. CASE DecisionStep
  <2>1. UNCHANGED <<batches, entries, payments, corrections, claims>>
    BY <1>4 DEF DecisionStep, AdjustCoverage, ImportCoverage
  <2>2. QED
    BY <2>1 DEF LeavesPayments
<1>5. QED
  BY <1>1, <1>2, <1>3, <1>4 DEF Next

LEMMA QuietKeepsKeys ==
  ASSUME TypeOK, KeyInv, LeavesPayments,
         \A b : PostingClaims(b)' = PostingClaims(b),
         \A p : CorrectionClaims(p)' = CorrectionClaims(p),
         KeysAreClaimedOnce', ClaimsNameWork'
  PROVE  KeyInv'
<1>1. payments' = payments
  BY DEF LeavesPayments
<1>2. ReplacementsHaveTheirKey'
  BY <1>1 DEF KeyInv, ReplacementsHaveTheirKey
<1>3. BatchesHaveTheirKey'
  <2>1. SUFFICES ASSUME NEW b \in DOMAIN batches'
                 PROVE  IF batches'[b].state = "posted"
                        THEN \E c : PostingClaims(b)' = {c}
                        ELSE PostingClaims(b)' = {}
    BY DEF BatchesHaveTheirKey
  <2>2. CASE b \in DOMAIN batches
    BY <2>2 DEF LeavesPayments, KeyInv, BatchesHaveTheirKey
  <2>3. CASE b \notin DOMAIN batches
    <3>1. batches'[b].state # "posted"
      BY <2>3 DEF LeavesPayments
    <3>2. PostingClaims(b) = {}
      BY <2>3 DEF PostingClaims, KeyInv, ClaimsNameWork, PostingOps
    <3>3. QED
      BY <3>1, <3>2
  <2>4. QED
    BY <2>2, <2>3
<1>4. QED
  BY <1>2, <1>3 DEF KeyInv

LEMMA PostingKeepsKeys ==
  ASSUME TypeOK, TypeOK', KeyInv, NEW b \in Nat, PostsBatch(b),
         NEW op \in PostingOps, Claims(op, b), [Next]_vars
  PROVE  KeyInv'
<1>1. PICK new :
        /\ claims' = claims \cup {new} /\ new.op = op /\ new.id = b
        /\ \A c : PostingClaims(c)' =
                    IF op \in PostingOps /\ c = b THEN PostingClaims(c) \cup {new}
                    ELSE PostingClaims(c)
        /\ \A p : CorrectionClaims(p)' =
                    IF op = "payment-correct" /\ p = b
                    THEN CorrectionClaims(p) \cup {new} ELSE CorrectionClaims(p)
  BY ClaimedWork
<1>2. op # "payment-correct"
  BY DEF PostingOps
<1>3. /\ DOMAIN batches' = DOMAIN batches \cup {b}
      /\ \A c \in DOMAIN batches \ {b} : batches'[c] = batches[c]
      /\ b \in DOMAIN batches => batches[b].state = "open"
      /\ batches'[b].state = "posted"
  BY DEF PostsBatch
<1>4. /\ DOMAIN payments \subseteq DOMAIN payments'
      /\ \A q \in DOMAIN payments : payments'[q] = payments[q]
  BY PaymentsGrow
<1>5. PostingClaims(b) = {}
  <2>1. CASE b \in DOMAIN batches
    BY <1>3, <2>1 DEF KeyInv, BatchesHaveTheirKey
  <2>2. CASE b \notin DOMAIN batches
    BY <2>2 DEF PostingClaims, KeyInv, ClaimsNameWork, PostingOps
  <2>3. QED
    BY <2>1, <2>2
<1>6. BatchesHaveTheirKey'
  <2>1. PostingClaims(b)' = {new}
    BY <1>1, <1>5
  <2>2. \A c \in DOMAIN batches \ {b} : PostingClaims(c)' = PostingClaims(c)
    BY <1>1
  <2>3. QED
    BY <1>3, <2>1, <2>2 DEF KeyInv, BatchesHaveTheirKey
<1>7. ReplacementsHaveTheirKey'
  <2>1. \A p : CorrectionClaims(p)' = CorrectionClaims(p)
    BY <1>1, <1>2
  <2>2. ASSUME NEW p \in DOMAIN payments', p \notin DOMAIN payments
        PROVE  payments'[p].kind # "replacement" /\ CorrectionClaims(p) = {}
    <3>1. PICK i : payments'[p] = Original(b, entries'[b][i])
      BY <2>2, PostedRows
    <3>2. PICK row : row = entries'[b][i]
      OBVIOUS
    <3>3. payments'[p].kind = "original"
      BY <3>1, <3>2 DEF Original
    <3>4. CorrectionClaims(p) = {}
      BY <2>2 DEF CorrectionClaims, KeyInv, ClaimsNameWork
    <3>5. QED
      BY <3>3, <3>4
  <2>3. QED
    BY <1>4, <2>1, <2>2 DEF KeyInv, ReplacementsHaveTheirKey
<1>8. ClaimsNameWork'
  <2>1. new.op \in PostingOps => new.id \in DOMAIN batches'
    BY <1>1, <1>3
  <2>2. QED
    BY <1>1, <1>2, <1>3, <1>4, <2>1 DEF KeyInv, ClaimsNameWork
<1>9. KeysAreClaimedOnce'
  BY ClaimingKeepsKeysApart DEF KeyInv
<1>10. QED
  BY <1>6, <1>7, <1>8, <1>9 DEF KeyInv

LEMMA CorrectingKeepsKeys ==
  ASSUME TypeOK, TypeOK', KeyInv, NEW p \in DOMAIN payments, NEW n \in Nat,
         NEW amount \in Amounts, CorrectsPayment(p, n, amount), NEW s,
         s = Len(payments) + 2, Claims("payment-correct", s), [Next]_vars
  PROVE  KeyInv'
<1>1. PICK new :
        /\ claims' = claims \cup {new} /\ new.op = "payment-correct" /\ new.id = s
        /\ \A c : PostingClaims(c)' =
                    IF "payment-correct" \in PostingOps /\ c = s
                    THEN PostingClaims(c) \cup {new} ELSE PostingClaims(c)
        /\ \A q : CorrectionClaims(q)' =
                    IF "payment-correct" = "payment-correct" /\ q = s
                    THEN CorrectionClaims(q) \cup {new} ELSE CorrectionClaims(q)
  BY ClaimedWork
<1>2. "payment-correct" \notin PostingOps
  BY DEF PostingOps
<1>3. UNCHANGED batches
  BY DEF CorrectsPayment
<1>4. /\ DOMAIN payments \subseteq DOMAIN payments'
      /\ \A q \in DOMAIN payments : payments'[q] = payments[q]
  BY PaymentsGrow
<1>5. BatchesHaveTheirKey'
  BY <1>1, <1>2, <1>3 DEF KeyInv, BatchesHaveTheirKey
<1>6. s \notin DOMAIN payments /\ s \in DOMAIN payments'
  <2>1. /\ DOMAIN payments = 1 .. Len(payments) /\ Len(payments) \in Nat
        /\ DOMAIN payments' = 1 .. Len(payments')
    BY DEF TypeOK
  <2>2. Len(payments') = s
    BY CorrectionRows
  <2>3. QED
    BY <2>1, <2>2
<1>7. ASSUME NEW q \in DOMAIN payments', q \notin DOMAIN payments
      PROVE  /\ (payments'[q].kind = "replacement") = (q = s)
             /\ CorrectionClaims(q) = {}
  <2>1. /\ DOMAIN payments = 1 .. Len(payments) /\ Len(payments) \in Nat
        /\ DOMAIN payments' = 1 .. Len(payments')
    BY DEF TypeOK
  <2>2. Len(payments') = Len(payments) + 2
    BY CorrectionRows
  <2>3. q = Len(payments) + 1 \/ q = s
    BY <1>7, <2>1, <2>2
  <2>4. payments'[Len(payments) + 1].kind = "reversal" /\ payments'[s].kind = "replacement"
    BY CorrectionRows
  <2>5. CorrectionClaims(q) = {}
    BY <1>7 DEF CorrectionClaims, KeyInv, ClaimsNameWork
  <2>6. QED
    BY <2>1, <2>3, <2>4, <2>5
<1>8. ReplacementsHaveTheirKey'
  <2>1. \A q : q # s => CorrectionClaims(q)' = CorrectionClaims(q)
    BY <1>1
  <2>2. CorrectionClaims(s)' = {new}
    BY <1>1, <1>6, <1>7
  <2>3. SUFFICES ASSUME NEW q \in DOMAIN payments'
                 PROVE  IF payments'[q].kind = "replacement"
                        THEN \E c : CorrectionClaims(q)' = {c}
                        ELSE CorrectionClaims(q)' = {}
    BY DEF ReplacementsHaveTheirKey
  <2>4. CASE q \in DOMAIN payments
    BY <1>4, <1>6, <2>1, <2>4 DEF KeyInv, ReplacementsHaveTheirKey
  <2>5. CASE q \notin DOMAIN payments /\ q = s
    BY <1>7, <2>2, <2>5
  <2>6. CASE q \notin DOMAIN payments /\ q # s
    BY <1>7, <2>1, <2>6
  <2>7. QED
    BY <2>4, <2>5, <2>6
<1>9. ClaimsNameWork'
  BY <1>1, <1>2, <1>3, <1>4, <1>6 DEF KeyInv, ClaimsNameWork
<1>10. KeysAreClaimedOnce'
  BY ClaimingKeepsKeysApart DEF KeyInv
<1>11. QED
  BY <1>5, <1>8, <1>9, <1>10 DEF KeyInv

\* Every posted batch and every correction is the work of exactly one key, a
\* key never does work twice, and no key names work that did not happen: a retry
\* can always tell whether it is one.
THEOREM OneKey == Spec => []OneKeyPerWork
<1>1. Init => KeyInv
  BY DEF Init, KeyInv, KeysAreClaimedOnce, BatchesHaveTheirKey,
         ReplacementsHaveTheirKey, ClaimsNameWork
<1>2. TypeOK /\ TypeOK' /\ KeyInv /\ [Next]_vars => KeyInv'
  <2>1. SUFFICES ASSUME TypeOK, TypeOK', KeyInv, [Next]_vars PROVE KeyInv'
    OBVIOUS
  <2>2. CASE LeavesPayments /\ UNCHANGED claims
    <3>1. /\ \A b : PostingClaims(b)' = PostingClaims(b)
          /\ \A p : CorrectionClaims(p)' = CorrectionClaims(p)
      BY <2>2 DEF PostingClaims, CorrectionClaims
    <3>2. KeysAreClaimedOnce' /\ ClaimsNameWork'
      BY <2>1, <2>2 DEF KeyInv, KeysAreClaimedOnce, ClaimsNameWork, LeavesPayments
    <3>3. QED
      BY <2>1, <2>2, <3>1, <3>2, QuietKeepsKeys
  <2>3. ASSUME LeavesPayments, NEW op \in {"batch-create", "entry-create"}, NEW id,
               Claims(op, id)
        PROVE  KeyInv'
    <3>1. op \notin PostingOps /\ op # "payment-correct"
      BY DEF PostingOps
    <3>2. PICK new :
            /\ claims' = claims \cup {new} /\ new.op = op
            /\ \A b : PostingClaims(b)' =
                        IF op \in PostingOps /\ b = id
                        THEN PostingClaims(b) \cup {new} ELSE PostingClaims(b)
            /\ \A p : CorrectionClaims(p)' =
                        IF op = "payment-correct" /\ p = id
                        THEN CorrectionClaims(p) \cup {new} ELSE CorrectionClaims(p)
      BY <2>3, ClaimedWork
    <3>3. ClaimsNameWork'
      BY <2>1, <2>3, <3>1, <3>2 DEF KeyInv, ClaimsNameWork, LeavesPayments
    <3>4. KeysAreClaimedOnce'
      BY <2>1, <2>3, ClaimingKeepsKeysApart DEF KeyInv
    <3>5. QED
      BY <2>1, <2>3, <3>1, <3>2, <3>3, <3>4, QuietKeepsKeys
  <2>4. CASE \E b \in Nat, op \in PostingOps : PostsBatch(b) /\ Claims(op, b)
    BY <2>1, <2>4, PostingKeepsKeys
  <2>5. CASE \E p \in DOMAIN payments, n \in Nat, amount \in Amounts :
               /\ CorrectsPayment(p, n, amount)
               /\ Claims("payment-correct", Len(payments) + 2)
    BY <2>1, <2>5, CorrectingKeepsKeys
  <2>6. QED
    BY <2>1, <2>2, <2>3, <2>4, <2>5, KeyStepCases
<1>3. KeyInv => OneKeyPerWork
  BY KeyInvCounts
<1>4. QED
  BY <1>1, <1>2, <1>3, TypeCorrect, PTL DEF Spec

=============================================================================
