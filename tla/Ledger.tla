------------------------------- MODULE Ledger -------------------------------
(***************************************************************************)
(* The treasury ledger: draft payment batches, the posting transaction,    *)
(* corrections by reversal and replacement, the append-only coverage       *)
(* history and the idempotency records that make a retry safe.             *)
(*                                                                         *)
(* Code: internal/domain/batches, internal/domain/idem, AdjustCoverage of  *)
(* internal/domain/dues, ensureImportCoverage of internal/domain/importd,  *)
(* and the tables of migration 0007.                                       *)
(*                                                                         *)
(* Every handler runs in one SQLite transaction that first reads and then  *)
(* writes: it commits on the snapshot it read or fails as a whole.  So a   *)
(* handler is one action, and a handler that returns an error is a stutter.*)
(* A replay (same key, same body) and ErrKeyReused (same key, other body)  *)
(* write nothing either, so only a key nobody used enables an action.      *)
(*                                                                         *)
(* A table without deletes is a sequence: SQLite gives the next row the    *)
(* largest id plus one, which is the next position.  Id 0 stands for NULL. *)
(* The UNIQUE indexes are not guards: the invariants below show that the   *)
(* code never depends on one of them firing.                               *)
(***************************************************************************)
EXTENDS Integers, Sequences, FiniteSets, SequencesExt

CONSTANTS
  Members,        \* ids of existing memberships; no code path deletes one
  Actors,         \* officers holding the payment capabilities
  Keys, NoKey,    \* idempotency keys, and the absent key
  Amounts,        \* amounts in cents that pass validate()
  Dates           \* paid-through dates, as an ordered set of numbers

CONSTANTS         \* bounds of the explored state space, none is in the code
  BatchLimit, RowLimit, VersionLimit, EntryIdLimit, CorrectionLimit,
  DecisionLimit

ASSUME AmountsArePositive == Amounts \subseteq Nat \ {0}
ASSUME DatesAreNumbers == Dates \subseteq Nat
ASSUME NoKeyIsNoKey == NoKey \notin Keys
ASSUME LimitsAreNumbers ==
  /\ BatchLimit \in Nat /\ RowLimit \in Nat /\ VersionLimit \in Nat
  /\ EntryIdLimit \in Nat /\ CorrectionLimit \in Nat /\ DecisionLimit \in Nat

VARIABLES
  batches,      \* payment_batches: state and version
  entries,      \* entries[b]: rows of payment_batch_entries by sequence
  payments,     \* payments, append-only
  corrections,  \* payment_corrections, append-only
  coverage,     \* coverage_events, append-only
  claims        \* idempotency_records

vars == <<batches, entries, payments, corrections, coverage, claims>>

-----------------------------------------------------------------------------
(* Rows.                                                                   *)

States == {"open", "posted", "abandoned"}
Operations == {"batch-create", "entry-create", "batch-post", "single-payment",
               "payment-correct", "worksheet-batch-open"}
Reasons == {"payment", "correction", "adjustment", "import"}
Kinds == {"original", "reversal", "replacement"}

Batch == [state : States, version : Nat]

Entry == [id : Nat, seq : Nat, member : Members, amount : Amounts, paid : Dates,
          version : Nat]

\* RCPT-<batch>-<seq> followed by one -R<n> or -C<n> per correction.
Receipt == [batch : Nat, seq : Nat, trail : Seq({"R", "C"} \X Nat)]

\* With the table's CHECKs: only a reversal is negative, only an original
\* stands alone.
Payment ==
  {p \in [member : Members, batch : Nat, amount : Int, kind : Kinds,
          corrects : Nat, receipt : Receipt] :
     /\ p.amount # 0
     /\ (p.kind = "reversal") = (p.amount < 0)
     /\ (p.kind = "original") = (p.corrects = 0)}

Correction == [original : Nat, reversal : Nat, replacement : Nat]

\* With the table's CHECKs: the decisions made by money name their payment.
Decision ==
  {d \in [member : Members, paid : Dates, reason : Reasons, payment : Nat,
          supersedes : Nat] :
     (d.reason \in {"payment", "correction"}) = (d.payment # 0)}

Claim == [actor : Actors, op : Operations, key : Keys, id : Nat]

-----------------------------------------------------------------------------
(* Reads shared by the handlers.                                           *)

\* requireOpen, and the state guard of every UPDATE of payment_batches
PostedIsOpenEnough(b) == batches[b].state # "abandoned"
IsOpen(b) == batches[b].state = "open"

KeyIsNeverLookedUp(a, op, k) == TRUE

\* idem.Begin finds no record of this actor, operation and key.
Unclaimed(a, op, k) ==
  \/ k = NoKey
  \/ \A c \in claims : ~ (c.actor = a /\ c.op = op /\ c.key = k)

\* Claim.Complete stamps the record with what the work produced.
Complete(a, op, k, id) ==
  claims' = IF k = NoKey
            THEN claims
            ELSE claims \cup {[actor |-> a, op |-> op, key |-> k, id |-> id]}

\* Coverage events of a member that nothing supersedes.
Heads(m) ==
  {e \in DOMAIN coverage :
     /\ coverage[e].member = m
     /\ \A f \in DOMAIN coverage : coverage[f].supersedes # e}

\* GetEffectiveCoverageEvent, 0 when the member has none.  The query takes the
\* newest head; CoverageIsOneChain shows there is never a second one to order.
EffectiveCoverage(m) ==
  IF Heads(m) = {} THEN 0 ELSE CHOOSE e \in Heads(m) : TRUE

Superseded(p) == \E c \in DOMAIN corrections : corrections[c].original = p

\* The payments of one chain share the receipt number they started from.
SameChain(p, q) ==
  /\ payments[p].receipt.batch = payments[q].receipt.batch
  /\ payments[p].receipt.seq = payments[q].receipt.seq

TargetIsTakenAsInForce(p) == {p}

\* effectivePayment: back to the root, then forward to what nothing corrects.
\* A set, because that there is exactly one is something to show.
InForce(p) ==
  {q \in DOMAIN payments :
     SameChain(p, q) /\ payments[q].kind # "reversal" /\ ~ Superseded(q)}

RevisionOfOnePayment(p) ==
  Cardinality({c \in DOMAIN corrections : corrections[c].original = p})

\* The revision effectivePayment counts on its way forward.
Revision(p) ==
  Cardinality({c \in DOMAIN corrections : SameChain(p, corrections[c].original)})

\* GetCoverageEventByPayment: the newest event a payment granted, as a set.
GrantedBy(p) ==
  {e \in DOMAIN coverage :
     /\ coverage[e].payment = p
     /\ \A f \in DOMAIN coverage : coverage[f].payment = p => f <= e}

EntryIds == UNION {{entries[b][i].id : i \in DOMAIN entries[b]} :
                   b \in DOMAIN entries}

\* SQLite's next INTEGER PRIMARY KEY.  Entries are the one table here with
\* deletes, so the id of a deleted last row is given out again.
IsNextEntryId(id) ==
  /\ \A other \in EntryIds : other < id
  /\ id = 1 \/ (id - 1) \in EntryIds

SequenceIsRowCount(b) == Len(entries[b]) + 1

\* NextPaymentBatchEntrySequence; rows are kept in sequence order.
NextSequence(b) == IF entries[b] = <<>> THEN 1 ELSE Last(entries[b]).seq + 1

TouchForgotten(b) == batches' = batches

Touch(b) == batches' = [batches EXCEPT ![b].version = @ + 1]

-----------------------------------------------------------------------------
(* Draft batches.                                                          *)

NewBatchUnopened == [state |-> "draft", version |-> 1]

NewBatch == [state |-> "open", version |-> 1]

OpenBatch(a, k) ==
  /\ Len(batches) < BatchLimit
  /\ Unclaimed(a, "batch-create", k)
  /\ batches' = Append(batches, NewBatch)
  /\ entries' = Append(entries, <<>>)
  /\ Complete(a, "batch-create", k, Len(batches) + 1)
  /\ UNCHANGED <<payments, corrections, coverage>>

\* Label and defaults are prefill only; the version is what others notice.
UpdateBatch(b, expected) ==
  /\ IsOpen(b) /\ batches[b].version = expected /\ expected < VersionLimit
  /\ Touch(b)
  /\ UNCHANGED <<entries, payments, corrections, coverage, claims>>

AbandonBatch(b, expected) ==
  /\ IsOpen(b) /\ batches[b].version = expected
  /\ batches' = [batches EXCEPT ![b] = [state |-> "abandoned",
                                        version |-> expected + 1]]
  /\ UNCHANGED <<entries, payments, corrections, coverage, claims>>

AddEntry(a, k, b, id, m, amount, paid) ==
  /\ IsOpen(b) /\ batches[b].version < VersionLimit
  /\ Len(entries[b]) < RowLimit
  /\ Unclaimed(a, "entry-create", k)
  /\ IsNextEntryId(id)
  /\ entries' = [entries EXCEPT ![b] =
       Append(@, [id |-> id, seq |-> NextSequence(b), member |-> m,
                  amount |-> amount, paid |-> paid, version |-> 1])]
  /\ Complete(a, "entry-create", k, id)
  /\ Touch(b)
  /\ UNCHANGED <<payments, corrections, coverage>>

Edited(row, m, amount, paid) ==
  [id |-> row.id, seq |-> row.seq, member |-> m, amount |-> amount,
   paid |-> paid, version |-> row.version + 1]

UpdateEntry(b, i, expected, m, amount, paid) ==
  /\ IsOpen(b) /\ batches[b].version < VersionLimit
  /\ entries[b][i].version = expected
  /\ entries' = [entries EXCEPT ![b][i] = Edited(entries[b][i], m, amount, paid)]
  /\ Touch(b)
  /\ UNCHANGED <<payments, corrections, coverage, claims>>

DeleteEntry(b, i, expected) ==
  /\ IsOpen(b) /\ batches[b].version < VersionLimit
  /\ entries[b][i].version = expected
  /\ entries' = [entries EXCEPT ![b] = RemoveAt(@, i)]
  /\ Touch(b)
  /\ UNCHANGED <<payments, corrections, coverage, claims>>

-----------------------------------------------------------------------------
(* Posting.                                                                *)

Original(b, row) ==
  [member |-> row.member, batch |-> b, amount |-> row.amount,
   kind |-> "original", corrects |-> 0,
   receipt |-> [batch |-> b, seq |-> row.seq, trail |-> <<>>]]

PredecessorOutsideBatch(rows, i) == EffectiveCoverage(rows[i].member)

EarlierRows(rows, i) == {j \in 1 .. i - 1 : rows[j].member = rows[i].member}

\* The event row i supersedes: one written for the same member earlier in the
\* same transaction, else the one that was in force before it.
Predecessor(rows, i) ==
  IF EarlierRows(rows, i) # {} THEN Len(coverage) + Max(EarlierRows(rows, i))
  ELSE EffectiveCoverage(rows[i].member)

Grant(rows, i) ==
  [member |-> rows[i].member, paid |-> rows[i].paid, reason |-> "payment",
   payment |-> Len(payments) + i, supersedes |-> Predecessor(rows, i)]

\* postTx: one payment and one coverage event per row, in sequence order.
PostRows(b, rows) ==
  /\ payments' = payments \o [i \in DOMAIN rows |-> Original(b, rows[i])]
  /\ coverage' = coverage \o [i \in DOMAIN rows |-> Grant(rows, i)]

Post(a, k, b, expected) ==
  /\ Unclaimed(a, "batch-post", k)
  /\ IsOpen(b) /\ entries[b] # <<>>
  /\ PostRows(b, entries[b])
  /\ batches[b].version = expected
  /\ batches' = [batches EXCEPT ![b] = [state |-> "posted",
                                        version |-> expected + 1]]
  /\ Complete(a, "batch-post", k, b)
  /\ UNCHANGED <<entries, corrections>>

\* PostSinglePayment: a one-row batch, opened and posted at once.
PostSingle(a, k, id, m, amount, paid) ==
  LET b == Len(batches) + 1
      row == [id |-> id, seq |-> 1, member |-> m, amount |-> amount,
              paid |-> paid, version |-> 1]
  IN  /\ Len(batches) < BatchLimit
      /\ Unclaimed(a, "single-payment", k)
      /\ IsNextEntryId(id)
      /\ batches' = Append(batches, [state |-> "posted", version |-> 2])
      /\ entries' = Append(entries, <<row>>)
      /\ PostRows(b, <<row>>)
      /\ Complete(a, "single-payment", k, b)
      /\ UNCHANGED corrections

-----------------------------------------------------------------------------
(* Corrections.                                                            *)

Marked(receipt, mark, revision) ==
  [receipt EXCEPT !.trail = Append(@, <<mark, revision>>)]

Correcting(p, kind, amount, mark, revision) ==
  [member |-> payments[p].member, batch |-> payments[p].batch,
   amount |-> amount, kind |-> kind, corrects |-> p,
   receipt |-> Marked(payments[p].receipt, mark, revision)]

ReversalKeepsSign(p, revision) ==
  Correcting(p, "reversal", payments[p].amount, "R", revision)

Reversal(p, revision) ==
  Correcting(p, "reversal", -payments[p].amount, "R", revision)

Replacement(p, revision, amount) ==
  Correcting(p, "replacement", amount, "C", revision)

DecideAfresh(m, paid, reason, payment) ==
  Append(coverage, [member |-> m, paid |-> paid, reason |-> reason,
                    payment |-> payment, supersedes |-> 0])

Decide(m, paid, reason, payment) ==
  Append(coverage, [member |-> m, paid |-> paid, reason |-> reason,
                    payment |-> payment, supersedes |-> EffectiveCoverage(m)])

\* adjustCoverageForCorrection: a payment that granted this very date leaves
\* the decision alone; one that granted another date, or none, states it.
RestateCoverage(p, paid, replacement) ==
  coverage' = IF \E e \in GrantedBy(p) : coverage[e].paid = paid
              THEN coverage
              ELSE Decide(payments[p].member, paid, "correction", replacement)

Correct(a, k, p, expected, amount, paid) ==
  LET reversal == Len(payments) + 1
      replacement == Len(payments) + 2
  IN  /\ Len(corrections) < CorrectionLimit
      /\ Unclaimed(a, "payment-correct", k)
      /\ payments[p].kind # "reversal"
      /\ Revision(p) = expected
      /\ InForce(p) = {p}
      /\ payments' = payments \o <<Reversal(p, expected + 1),
                                   Replacement(p, expected + 1, amount)>>
      /\ corrections' = Append(corrections,
           [original |-> p, reversal |-> reversal, replacement |-> replacement])
      /\ RestateCoverage(p, paid, replacement)
      /\ Complete(a, "payment-correct", k, replacement)
      /\ UNCHANGED <<batches, entries>>

-----------------------------------------------------------------------------
(* Coverage decisions that no payment makes.                               *)

AdjustCoverage(m, paid) ==
  /\ Len(coverage) < DecisionLimit
  /\ coverage' = Decide(m, paid, "adjustment", 0)
  /\ UNCHANGED <<batches, entries, payments, corrections, claims>>

\* One row of an import commit; a date already imported is not imported again.
ImportCoverage(m, paid) ==
  /\ Len(coverage) < DecisionLimit
  /\ \A e \in DOMAIN coverage :
       ~ (coverage[e].member = m /\ coverage[e].reason = "import"
            /\ coverage[e].paid = paid)
  /\ coverage' = Decide(m, paid, "import", 0)
  /\ UNCHANGED <<batches, entries, payments, corrections, claims>>

-----------------------------------------------------------------------------
Init ==
  /\ batches = <<>> /\ entries = <<>>
  /\ payments = <<>> /\ corrections = <<>>
  /\ coverage = <<>>
  /\ claims = {}

DraftStep ==
  \/ \E a \in Actors, k \in Keys \cup {NoKey} : OpenBatch(a, k)
  \/ \E b \in DOMAIN batches, expected \in 1 .. VersionLimit :
       \/ UpdateBatch(b, expected)
       \/ AbandonBatch(b, expected)
  \/ \E b \in DOMAIN batches, m \in Members, amount \in Amounts, paid \in Dates :
       \/ \E a \in Actors, k \in Keys \cup {NoKey}, id \in 1 .. EntryIdLimit :
            AddEntry(a, k, b, id, m, amount, paid)
       \/ \E i \in DOMAIN entries[b], expected \in 1 .. VersionLimit :
            UpdateEntry(b, i, expected, m, amount, paid)
  \/ \E b \in DOMAIN batches, expected \in 1 .. VersionLimit :
       \E i \in DOMAIN entries[b] : DeleteEntry(b, i, expected)

PostingStep ==
  \E a \in Actors, k \in Keys :
    \/ \E b \in DOMAIN batches, expected \in 1 .. VersionLimit :
         Post(a, k, b, expected)
    \/ \E id \in 1 .. EntryIdLimit, m \in Members, amount \in Amounts,
          paid \in Dates : PostSingle(a, k, id, m, amount, paid)
    \/ \E p \in DOMAIN payments, expected \in 0 .. CorrectionLimit,
          amount \in Amounts, paid \in Dates :
         Correct(a, k, p, expected, amount, paid)

DecisionStep ==
  \E m \in Members, paid \in Dates :
    AdjustCoverage(m, paid) \/ ImportCoverage(m, paid)

Next == DraftStep \/ PostingStep \/ DecisionStep

Spec == Init /\ [][Next]_vars

-----------------------------------------------------------------------------
(* Properties.                                                             *)

\* Every row has the shape its table declares.
TypeOK ==
  /\ batches \in Seq(Batch)
  /\ entries \in Seq(Seq(Entry)) /\ Len(entries) = Len(batches)
  /\ payments \in Seq(Payment)
  /\ corrections \in Seq(Correction)
  /\ coverage \in Seq(Decision)
  /\ claims \subseteq Claim

\* Each of the four writers of coverage (post.go, correct.go, AdjustCoverage and
\* the importer) looks up what to supersede on its own, and postTx also has to
\* know the rows it just wrote.  All of them find the decision about the member
\* that was made last.
EarlierDecisions(e) ==
  {f \in 1 .. e - 1 : coverage[f].member = coverage[e].member}

SupersedesLatest ==
  \A e \in DOMAIN coverage :
    IF EarlierDecisions(e) = {} THEN coverage[e].supersedes = 0
    ELSE /\ coverage[e].supersedes \in EarlierDecisions(e)
         /\ \A f \in EarlierDecisions(e) : f <= coverage[e].supersedes

\* The coverage history of a member is one unbranched chain.  So "the
\* effective decision" is never a matter of which of two rows a query happens to
\* sort first, and the unique index ux_coverage_supersedes never rejects a write.
PointsBack ==
  \A e \in DOMAIN coverage :
    coverage[e].supersedes # 0 =>
      /\ coverage[e].supersedes \in 1 .. e - 1
      /\ coverage[coverage[e].supersedes].member = coverage[e].member

NeverForks ==
  \A e, f \in DOMAIN coverage :
    coverage[e].supersedes = coverage[f].supersedes =>
      e = f \/ coverage[e].supersedes = 0

OneRoot ==
  \A e, f \in DOMAIN coverage :
    /\ coverage[e].member = coverage[f].member
    /\ coverage[e].supersedes = 0 /\ coverage[f].supersedes = 0
    => e = f

OneHead ==
  \A m \in Members : \A e, f \in Heads(m) : e = f

SomeHead ==
  \A e \in DOMAIN coverage : Heads(coverage[e].member) # {}

CoverageIsOneChain ==
  PointsBack /\ NeverForks /\ OneRoot /\ OneHead /\ SomeHead

\* A correction record ties an original to the reversal that cancels exactly
\* its amount and to one replacement for the same member and batch; no payment
\* is corrected twice and no reversal or replacement stands outside a record.
CorrectionsAreLinked ==
  /\ \A c \in DOMAIN corrections :
       LET o == corrections[c].original
           r == corrections[c].reversal
           n == corrections[c].replacement
       IN  /\ {o, r, n} \subseteq DOMAIN payments /\ o < r /\ r < n
           /\ payments[o].kind # "reversal"
           /\ payments[r].kind = "reversal" /\ payments[r].corrects = o
           /\ payments[n].kind = "replacement" /\ payments[n].corrects = o
           /\ payments[r].amount = -payments[o].amount
           /\ \A q \in {r, n} : /\ payments[q].member = payments[o].member
                               /\ payments[q].batch = payments[o].batch
                               /\ SameChain(o, q)
  /\ \A c, d \in DOMAIN corrections :
       corrections[c].original = corrections[d].original => c = d
  /\ \A p \in DOMAIN payments :
       payments[p].kind # "original" =>
         \E c \in DOMAIN corrections :
           p \in {corrections[c].reversal, corrections[c].replacement}

\* Two readers of a batch's money agree: GetBatchLedgerTotals sums every row,
\* the books view (effective_only) hides reversals and what they settled.
BatchPayments(b) == {p \in DOMAIN payments : payments[p].batch = b}
Held(b) == {p \in BatchPayments(b) :
              payments[p].kind # "reversal" /\ ~ Superseded(p)}
Amount(p) == payments[p].amount
BooksBalance ==
  \A b \in DOMAIN batches :
    MapThenSumSet(Amount, BatchPayments(b)) = MapThenSumSet(Amount, Held(b))

\* The constraint ux_payments_receipt never aborts a posting or a correction.
ReceiptsAreUnique ==
  \A p, q \in DOMAIN payments :
    payments[p].receipt = payments[q].receipt => p = q

\* A posted batch turned each of its rows into one payment and one grant, and
\* a draft or abandoned batch touched neither the ledger nor anyone's dues.
PostedExactlyOnce ==
  \A b \in DOMAIN batches :
    LET originals == {p \in BatchPayments(b) : payments[p].kind = "original"}
    IN  IF batches[b].state # "posted" THEN BatchPayments(b) = {}
        ELSE /\ Cardinality(originals) = Len(entries[b])
             /\ \A i \in DOMAIN entries[b] :
                  \E p \in originals, e \in DOMAIN coverage :
                    /\ payments[p] = Original(b, entries[b][i])
                    /\ coverage[e].payment = p
                    /\ coverage[e].reason = "payment"
                    /\ coverage[e].member = entries[b][i].member
                    /\ coverage[e].paid = entries[b][i].paid

\* Each posted batch and each correction is the work of exactly one key, a key
\* never does work twice, and it never names work that did not happen.
PostingClaims(b) ==
  {c \in claims : c.op \in {"batch-post", "single-payment"} /\ c.id = b}
CorrectionClaims(p) ==
  {c \in claims : c.op = "payment-correct" /\ c.id = p}
OneKeyPerWork ==
  /\ \A c, d \in claims :
       c.actor = d.actor /\ c.op = d.op /\ c.key = d.key => c = d
  /\ \A b \in DOMAIN batches :
       Cardinality(PostingClaims(b)) = IF batches[b].state = "posted" THEN 1 ELSE 0
  /\ \A p \in DOMAIN payments :
       Cardinality(CorrectionClaims(p)) =
         IF payments[p].kind = "replacement" THEN 1 ELSE 0

\* A batch version stands for one set of rows: whoever posts against the
\* version they read posts the rows they read.
RowsMoveTheVersion ==
  \A b \in DOMAIN batches :
    entries'[b] # entries[b] => batches'[b].version > batches[b].version

VersionCoversRows == [][RowsMoveTheVersion]_vars

\* Posted and abandoned are terminal: no later request moves the batch or one
\* of its rows.
TerminalStays ==
  \A b \in DOMAIN batches :
    batches[b].state # "open" =>
      batches'[b] = batches[b] /\ entries'[b] = entries[b]

TerminalIsFrozen == [][TerminalStays]_vars

=============================================================================
