--------------------------- MODULE TreasuryProofs ---------------------------
(***************************************************************************)
(* What is read from the ledger, for every value of the constants.         *)
(*                                                                         *)
(* The books: what the loops over corrections and superseded decisions     *)
(* find, that each step of the ledger is a step of the books or none, and  *)
(* that two ways of summing a batch agree.                                 *)
(*                                                                         *)
(* The sheets: the two texts of the standing agree, and a sheet handed to  *)
(* a batch is linked to it.  The ledger under the sheets takes the         *)
(* ledger's own steps and one more, the opening of a batch for a sheet;    *)
(* what LedgerProofs says of a step of the ledger is used for the first    *)
(* kind and shown for the second.                                          *)
(***************************************************************************)
EXTENDS LedgerBooks, Worksheets, LedgerProofs, RankingProofs

-----------------------------------------------------------------------------
(* Chains of corrections.  A receipt number has one original and one       *)
(* payment in force, and the trail of that one counts the corrections.     *)

ChainHolds(p) ==
  /\ \E q \in DOMAIN payments : InForce(p) = {q}
  /\ \E q \in DOMAIN payments : SameChain(p, q) /\ payments[q].kind = "original"
  /\ \A q \in DOMAIN payments :
       SameChain(p, q) => payments[q].member = payments[p].member
  /\ payments[p].kind # "reversal" /\ ~ Superseded(p) =>
       Revision(p) = Len(payments[p].receipt.trail)

ChainInv == \A p \in DOMAIN payments : ChainHolds(p)

LEMMA PaymentFields ==
  ASSUME TypeOK, NEW p \in DOMAIN payments
  PROVE  /\ payments[p].member \in Members /\ payments[p].receipt \in Receipt
         /\ payments[p].receipt.batch \in Nat /\ payments[p].receipt.seq \in Nat
         /\ payments[p].receipt.trail \in Seq({"R", "C"} \X Nat)
         /\ Len(payments[p].receipt.trail) \in Nat
         /\ payments[p].kind \in Kinds /\ payments[p].corrects \in Nat
<1>1. payments[p] \in Payment
  BY DEF TypeOK
<1>2. payments[p].receipt \in Receipt
  BY <1>1 DEF Payment
<1>3. payments[p].receipt.trail \in Seq({"R", "C"} \X Nat)
  BY <1>2 DEF Receipt
<1>4. Len(payments[p].receipt.trail) \in Nat
  BY <1>3, LenProperties
<1>5. QED
  BY <1>1, <1>2, <1>3, <1>4 DEF Payment, Receipt

LEMMA CorrectionsAreFinite ==
  ASSUME corrections \in Seq(Correction), NEW S \in SUBSET DOMAIN corrections
  PROVE  IsFiniteSet(S) /\ Cardinality(S) \in Nat
<1>1. DOMAIN corrections = 1 .. Len(corrections) /\ Len(corrections) \in Nat
  OBVIOUS
<1>2. IsFiniteSet(1 .. Len(corrections))
  BY <1>1, FS_Interval
<1>3. QED
  BY <1>1, <1>2, FS_Subset, FS_CardinalityType

\* Who is corrected was a payment before.
LEMMA SupersededArePayments ==
  ASSUME CorrectionsAreLinked, NEW p, Superseded(p)
  PROVE  p \in DOMAIN payments
<1>1. PICK c \in DOMAIN corrections : corrections[c].original = p
  BY DEF Superseded
<1>2. QED
  BY <1>1, LinkedParts DEF EachRecordTiesItsRows, TiesItsRows

\* Old payments of another number see nothing of a posting or a correction.
LEMMA PostingKeepsChains ==
  ASSUME TypeOK, TypeOK', ReceiptInv, ReceiptInv', CorrectionsAreLinked, ChainInv,
         NEW b \in Nat, PostsBatch(b), [Next]_vars
  PROVE  ChainInv'
<1>1. /\ DOMAIN payments \subseteq DOMAIN payments'
      /\ \A q \in DOMAIN payments : payments'[q] = payments[q]
      /\ corrections' = corrections
  BY PaymentsGrow DEF PostsBatch
<1>2. \A q : Superseded(q)' = Superseded(q)
  BY <1>1 DEF Superseded
<1>3. \A q \in DOMAIN payments : payments[q].receipt.batch # b
  BY DEF ReceiptInv, PaymentsArePosted, PostsBatch
<1>4. ASSUME NEW q \in DOMAIN payments', q \notin DOMAIN payments
      PROVE  /\ payments'[q].kind = "original"
             /\ payments'[q].receipt.batch = b
             /\ payments'[q].receipt.trail = <<>>
  <2>1. PICK i : payments'[q] = Original(b, entries'[b][i])
    BY <1>4, PostedRows
  <2>2. PICK row : row = entries'[b][i]
    OBVIOUS
  <2>3. QED
    BY <2>1, <2>2 DEF Original
<1>5. ASSUME NEW p \in DOMAIN payments PROVE ChainHolds(p)'
  <2>1. \A q \in DOMAIN payments : SameChain(p, q)' <=> SameChain(p, q)
    BY <1>1, <1>5 DEF SameChain
  <2>2. \A q \in DOMAIN payments' : SameChain(p, q)' => q \in DOMAIN payments
    BY <1>1, <1>3, <1>4, <1>5 DEF SameChain
  <2>3. InForce(p)' = InForce(p)
    BY <1>1, <1>2, <2>1, <2>2 DEF InForce
  <2>4. Revision(p)' = Revision(p)
    <3>1. \A c \in DOMAIN corrections : corrections[c].original \in DOMAIN payments
      BY LinkedParts DEF EachRecordTiesItsRows, TiesItsRows
    <3>2. \A c \in DOMAIN corrections :
            SameChain(p, corrections[c].original)' <=>
              SameChain(p, corrections[c].original)
      BY <1>1, <1>5, <3>1 DEF SameChain
    <3>3. QED
      BY <1>1, <3>2 DEF Revision
  <2>5. ChainHolds(p)
    BY <1>5 DEF ChainInv
  <2>6. QED
    BY <1>1, <1>2, <1>5, <2>1, <2>2, <2>3, <2>4, <2>5 DEF ChainHolds
<1>6. ASSUME NEW p \in DOMAIN payments', p \notin DOMAIN payments
      PROVE  ChainHolds(p)'
  <2>1. \A q \in DOMAIN payments' : SameChain(p, q)' => q = p
    <3>1. SUFFICES ASSUME NEW q \in DOMAIN payments', SameChain(p, q)'
                   PROVE  q = p
      OBVIOUS
    <3>2. q \notin DOMAIN payments
      BY <1>1, <1>3, <1>4, <1>6, <3>1 DEF SameChain
    <3>3. payments'[p].receipt = payments'[q].receipt
      <4>1. payments'[p].receipt \in Receipt /\ payments'[q].receipt \in Receipt
        <5>1. payments'[p] \in Payment /\ payments'[q] \in Payment
          BY DEF TypeOK
        <5>2. QED
          BY <5>1 DEF Payment
      <4>2. /\ payments'[p].receipt.batch = payments'[q].receipt.batch
            /\ payments'[p].receipt.seq = payments'[q].receipt.seq
            /\ payments'[p].receipt.trail = payments'[q].receipt.trail
        BY <1>4, <1>6, <3>1, <3>2 DEF SameChain
      <4>3. QED
        BY <4>1, <4>2 DEF Receipt
    <3>4. QED
      BY <3>3 DEF ReceiptInv, ReceiptsAreUnique
  <2>2. SameChain(p, p)'
    BY DEF SameChain
  <2>3. ~ Superseded(p)'
    BY <1>2, <1>6, SupersededArePayments
  <2>4. InForce(p)' = {p}
    BY <1>4, <1>6, <2>1, <2>2, <2>3 DEF InForce
  <2>5. Revision(p)' = 0
    <3>1. \A c \in DOMAIN corrections' :
            corrections'[c].original \in DOMAIN payments
      BY <1>1, LinkedParts DEF EachRecordTiesItsRows, TiesItsRows
    <3>2. {c \in DOMAIN corrections' : SameChain(p, corrections[c].original)'} = {}
      BY <1>1, <1>6, <2>1, <3>1
    <3>3. QED
      BY <3>2, FS_EmptySet DEF Revision
  <2>6. Len(payments'[p].receipt.trail) = 0
    BY <1>4, <1>6
  <2>7. QED
    BY <1>4, <1>6, <2>1, <2>2, <2>4, <2>5, <2>6 DEF ChainHolds
<1>7. QED
  BY <1>5, <1>6 DEF ChainInv

\* What a correction supersedes: its payment, and nothing else.
LEMMA CorrectingSupersedes ==
  ASSUME TypeOK, NEW p \in DOMAIN payments, NEW n, NEW amount,
         CorrectsPayment(p, n, amount)
  PROVE  \A q : Superseded(q)' <=> Superseded(q) \/ q = p
<1>1. PICK row : /\ row = [original |-> p, reversal |-> Len(payments) + 1,
                           replacement |-> Len(payments) + 2]
  OBVIOUS
<1>2. corrections' = Append(corrections, row) /\ row.original = p
  BY <1>1 DEF CorrectsPayment
<1>3. corrections \in Seq(Correction) /\ row \in Correction
  BY <1>1 DEF TypeOK, Correction
<1>4. /\ DOMAIN corrections' = 1 .. Len(corrections) + 1
      /\ \A c \in 1 .. Len(corrections) : corrections'[c] = corrections[c]
      /\ corrections'[Len(corrections) + 1] = row
      /\ DOMAIN corrections = 1 .. Len(corrections) /\ Len(corrections) \in Nat
  BY <1>2, <1>3, AppendProperties
<1>5. PICK k : k = Len(corrections) + 1
  OBVIOUS
<1>6. /\ DOMAIN corrections' = DOMAIN corrections \cup {k}
      /\ \A c \in DOMAIN corrections : corrections'[c] = corrections[c]
      /\ corrections'[k].original = p
  BY <1>2, <1>4, <1>5
<1>7. QED
  BY <1>6 DEF Superseded

LEMMA CorrectingKeepsChains ==
  ASSUME TypeOK, TypeOK', CorrectionsAreLinked, ChainInv, NEW p \in DOMAIN payments,
         NEW n \in Nat, NEW amount \in Amounts, CorrectsPayment(p, n, amount),
         [Next]_vars
  PROVE  ChainInv'
<1>0. PICK r, s, new : /\ r = Len(payments) + 1 /\ s = Len(payments) + 2
                       /\ new = Len(corrections) + 1
  OBVIOUS
<1> DEFINE row == [original |-> p, reversal |-> r, replacement |-> s]
<1>1. /\ DOMAIN payments \subseteq DOMAIN payments'
      /\ \A q \in DOMAIN payments : payments'[q] = payments[q]
  BY PaymentsGrow
<1>2. /\ payments'[r].kind = "reversal" /\ payments'[s].kind = "replacement"
      /\ payments'[r].receipt = Marked(payments[p].receipt, "R", n)
      /\ payments'[s].receipt = Marked(payments[p].receipt, "C", n)
      /\ payments'[r].member = payments[p].member
      /\ payments'[s].member = payments[p].member
  BY <1>0, CorrectionRows
<1>3. DOMAIN payments' = DOMAIN payments \cup {r, s} /\ r # s
      /\ r \notin DOMAIN payments /\ s \notin DOMAIN payments
  <2>1. /\ DOMAIN payments = 1 .. Len(payments) /\ Len(payments) \in Nat
        /\ DOMAIN payments' = 1 .. Len(payments')
    BY DEF TypeOK
  <2>2. Len(payments') = s
    BY <1>0, CorrectionRows
  <2>3. QED
    BY <1>0, <2>1, <2>2
<1>4. /\ DOMAIN corrections' = DOMAIN corrections \cup {new}
      /\ \A c \in DOMAIN corrections : corrections'[c] = corrections[c]
      /\ corrections'[new].original = p /\ new \notin DOMAIN corrections
  <2>1. corrections \in Seq(Correction) /\ Len(corrections) \in Nat
        /\ DOMAIN corrections = 1 .. Len(corrections)
    BY DEF TypeOK
  <2>2. row \in Correction /\ row.original = p
    BY <1>0 DEF Correction, TypeOK
  <2>3. corrections' = Append(corrections, row)
    BY <1>0 DEF CorrectsPayment
  <2> HIDE DEF row
  <2>4. /\ DOMAIN corrections' = 1 .. Len(corrections) + 1
        /\ \A c \in 1 .. Len(corrections) : corrections'[c] = corrections[c]
        /\ corrections'[new] = row
    BY <1>0, <2>1, <2>2, <2>3, AppendProperties
  <2>5. QED
    BY <1>0, <2>1, <2>2, <2>4
<1>5. ~ Superseded(p) /\ payments[p].kind # "reversal"
  BY DEF CorrectsPayment
<1>6. payments[p].receipt \in Receipt
  BY PaymentFields
<1>7. \A q \in {r, s} : /\ payments'[q].receipt.batch = payments[p].receipt.batch
                        /\ payments'[q].receipt.seq = payments[p].receipt.seq
  BY <1>2, <1>6, MarkedKeepsNumber
<1>8. \A q : Superseded(q)' <=> Superseded(q) \/ q = p
  BY <1>4 DEF Superseded
<1>9. ~ Superseded(r)' /\ ~ Superseded(s)'
  BY <1>3, <1>8, SupersededArePayments
<1>10. \A c \in DOMAIN corrections : corrections[c].original \in DOMAIN payments
  BY LinkedParts DEF EachRecordTiesItsRows, TiesItsRows
<1>11. \A q, x \in DOMAIN payments : SameChain(q, x)' <=> SameChain(q, x)
  BY <1>1 DEF SameChain
<1>12. ASSUME NEW q \in DOMAIN payments, ~ SameChain(p, q) PROVE ChainHolds(q)'
  <2>1. ChainHolds(q)
    BY <1>12 DEF ChainInv
  <2>2. \A x \in DOMAIN payments' : SameChain(q, x)' => x \in DOMAIN payments
    BY <1>1, <1>3, <1>7, <1>12 DEF SameChain
  <2>3. ~ SameChain(q, p) /\ q # p
    BY <1>12 DEF SameChain
  <2>4. InForce(q)' = InForce(q)
    BY <1>1, <1>8, <1>11, <1>12, <2>2, <2>3 DEF InForce
  <2>5. Revision(q)' = Revision(q)
    <3>1. ~ SameChain(q, p)'
      BY <1>11, <1>12, <2>3
    <3>2. \A c \in DOMAIN corrections' :
            SameChain(q, corrections[c].original)' <=>
              c \in DOMAIN corrections /\ SameChain(q, corrections[c].original)
      BY <1>4, <1>10, <1>11, <1>12, <3>1 DEF SameChain
    <3>3. {c \in DOMAIN corrections' : SameChain(q, corrections[c].original)'} =
            {c \in DOMAIN corrections : SameChain(q, corrections[c].original)}
      BY <1>4, <3>2
    <3>4. QED
      BY <3>3 DEF Revision
  <2>6. QED
    BY <1>1, <1>8, <1>11, <1>12, <2>1, <2>2, <2>3, <2>4, <2>5 DEF ChainHolds
<1>13. ASSUME NEW q \in DOMAIN payments', q \in DOMAIN payments => SameChain(p, q)
       PROVE  ChainHolds(q)'
  <2>1. ChainHolds(p) /\ SameChain(p, p)
    BY DEF ChainInv, SameChain
  <2>2. \A x \in DOMAIN payments' :
          SameChain(q, x)' <=> (x \in DOMAIN payments => SameChain(p, x))
    BY <1>1, <1>3, <1>7, <1>13 DEF SameChain
  <2>3. InForce(p) = {p}
    <3>1. p \in InForce(p)
      BY <1>5, <2>1 DEF InForce
    <3>2. QED
      BY <2>1, <3>1 DEF ChainHolds
  <2>4. InForce(q)' = {s}
    <3>1. \A x \in DOMAIN payments' :
            x \in DOMAIN payments /\ x # s => payments'[x] = payments[x]
      BY <1>1
    <3>2. ASSUME NEW x \in DOMAIN payments, SameChain(q, x)',
                 payments'[x].kind # "reversal", ~ Superseded(x)'
          PROVE  FALSE
      BY <1>1, <1>8, <2>2, <2>3, <3>2 DEF InForce
    <3>3. SameChain(q, s)'
      BY <1>3, <2>2
    <3>4. QED
      BY <1>2, <1>3, <1>9, <3>2, <3>3 DEF InForce
  <2>5. \A x \in DOMAIN payments' : SameChain(q, x)' =>
          payments'[x].member = payments'[q].member
    BY <1>1, <1>2, <1>3, <1>13, <2>1, <2>2 DEF ChainHolds
  <2>6. \E x \in DOMAIN payments' :
          SameChain(q, x)' /\ payments'[x].kind = "original"
    BY <1>1, <2>1, <2>2 DEF ChainHolds
  <2>7. Revision(q)' = Revision(p) + 1
    <3> DEFINE old == {c \in DOMAIN corrections :
                         SameChain(p, corrections[c].original)}
    <3>1. IsFiniteSet(old) /\ Cardinality(old) \in Nat
      BY CorrectionsAreFinite DEF TypeOK
    <3>2. ASSUME NEW c \in DOMAIN corrections'
          PROVE  SameChain(q, corrections[c].original)' <=> c \in old \/ c = new
      <4>1. CASE c \in DOMAIN corrections
        BY <1>1, <1>4, <1>10, <2>2, <4>1 DEF SameChain
      <4>2. CASE c = new
        BY <1>1, <1>4, <2>1, <2>2, <4>2 DEF SameChain
      <4>3. QED
        BY <1>4, <4>1, <4>2
    <3>3. {c \in DOMAIN corrections' : SameChain(q, corrections[c].original)'} =
            old \cup {new}
      BY <1>4, <3>2
    <3>4. new \notin old
      BY <1>4
    <3>5. Cardinality(old \cup {new}) = Cardinality(old) + 1
      BY <3>1, <3>4, FS_AddElement
    <3>6. QED
      BY <3>3, <3>5 DEF Revision
  <2>8. payments'[q].kind # "reversal" /\ ~ Superseded(q)' =>
          Revision(q)' = Len(payments'[q].receipt.trail)
    <3>1. SUFFICES ASSUME payments'[q].kind # "reversal", ~ Superseded(q)'
                   PROVE  Revision(q)' = Len(payments'[q].receipt.trail)
      OBVIOUS
    <3>2. SameChain(q, q)'
      BY DEF SameChain
    <3>3. q = s
      BY <2>4, <3>1, <3>2 DEF InForce
    <3>4. Revision(p) = Len(payments[p].receipt.trail)
      BY <1>5, <2>1 DEF ChainHolds
    <3>5. payments'[q].receipt.trail = Append(payments[p].receipt.trail, <<"C", n>>)
      <4>1. payments'[q].receipt = Marked(payments[p].receipt, "C", n)
        BY <1>2, <3>3
      <4>2. Marked(payments[p].receipt, "C", n).trail =
              Append(payments[p].receipt.trail, <<"C", n>>)
        BY <1>6, MarkedKeepsNumber
      <4>3. QED
        BY <4>1, <4>2
    <3>6. Len(payments'[q].receipt.trail) = Len(payments[p].receipt.trail) + 1
      <4>1. payments[p].receipt.trail \in Seq({"R", "C"} \X Nat)
            /\ <<"C", n>> \in {"R", "C"} \X Nat
        BY PaymentFields
      <4>2. QED
        BY <3>5, <4>1, AppendProperties
    <3>7. QED
      BY <2>7, <3>4, <3>6
  <2>9. QED
    BY <1>3, <2>4, <2>5, <2>6, <2>8 DEF ChainHolds
<1>14. QED
  BY <1>12, <1>13 DEF ChainInv

LEMMA ChainInvHolds == Spec => []ChainInv
<1>1. Init => ChainInv
  BY DEF Init, ChainInv
<1>2. TypeOK /\ TypeOK' /\ ReceiptInv /\ ReceiptInv' /\ CorrectionsAreLinked
        /\ ChainInv /\ [Next]_vars => ChainInv'
  <2>1. SUFFICES ASSUME TypeOK, TypeOK', ReceiptInv, ReceiptInv',
                        CorrectionsAreLinked, ChainInv, [Next]_vars
                 PROVE  ChainInv'
    OBVIOUS
  <2>2. CASE LeavesPayments
    <3>1. UNCHANGED <<payments, corrections>>
      BY <2>2 DEF LeavesPayments
    <3>2. \A p : Superseded(p)' = Superseded(p)
      BY <3>1 DEF Superseded
    <3>3. \A p, q : SameChain(p, q)' = SameChain(p, q)
      BY <3>1 DEF SameChain
    <3>4. \A p : InForce(p)' = InForce(p) /\ Revision(p)' = Revision(p)
      BY <3>1 DEF InForce, Revision, SameChain, Superseded
    <3>5. QED
      BY <2>1, <3>1, <3>2, <3>3, <3>4 DEF ChainInv, ChainHolds
  <2>3. CASE \E b \in Nat : PostsBatch(b)
    BY <2>1, <2>3, PostingKeepsChains
  <2>4. CASE \E p \in DOMAIN payments, n \in Nat, amount \in Amounts :
               CorrectsPayment(p, n, amount)
    BY <2>1, <2>4, CorrectingKeepsChains
  <2>5. QED
    BY <2>1, <2>2, <2>3, <2>4, StepCases
<1>3. QED
  BY <1>1, <1>2, TypeCorrect, ReceiptInvHolds, CorrectionsLinked, PTL DEF Spec

-----------------------------------------------------------------------------
(* The walk.  Each of its functions is defined by recursion along pointers, *)
(* so each needs a function that solves its equation: the chains give one.  *)

Linked(p) == corrections[CorrectionOf(p)].replacement

LEMMA LinkLeadsOn ==
  ASSUME TypeOK, CorrectionsAreLinked, NEW p \in DOMAIN payments, Superseded(p)
  PROVE  /\ Linked(p) \in DOMAIN payments /\ p < Linked(p)
         /\ payments[p].kind # "reversal"
         /\ payments[Linked(p)].kind = "replacement"
         /\ payments[Linked(p)].corrects = p
         /\ SameChain(p, Linked(p))
<1>1. \E c \in DOMAIN corrections : corrections[c].original = p
  BY DEF Superseded
<1>2. CorrectionOf(p) \in DOMAIN corrections /\ corrections[CorrectionOf(p)].original = p
  BY <1>1 DEF CorrectionOf
<1>3. PICK row : row = corrections[CorrectionOf(p)]
  OBVIOUS
<1>4. TiesItsRows(row)
  BY <1>2, <1>3, LinkedParts DEF EachRecordTiesItsRows
<1>5. row.original = p /\ row.replacement = Linked(p)
  BY <1>2, <1>3 DEF Linked
<1>6. {p, row.reversal, Linked(p)} \subseteq Int
  BY <1>4, <1>5 DEF TiesItsRows, TypeOK
<1>7. p < Linked(p)
  BY <1>4, <1>5, <1>6 DEF TiesItsRows
<1>8. QED
  BY <1>4, <1>5, <1>7 DEF TiesItsRows

LEMMA InForceOfAChain ==
  ASSUME NEW p \in DOMAIN payments, NEW q \in DOMAIN payments, SameChain(p, q)
  PROVE  InForce(p) = InForce(q) /\ Revision(p) = Revision(q)
<1>1. \A x : SameChain(p, x) <=> SameChain(q, x)
  BY DEF SameChain
<1>2. QED
  BY <1>1 DEF InForce, Revision

ForwardStep(f) ==
  [p \in DOMAIN payments |-> IF Superseded(p) THEN f[Linked(p)] ELSE p]

LEMMA ForwardFollows ==
  ASSUME TypeOK, CorrectionsAreLinked, ChainInv
  PROVE  Forward = ForwardStep(Forward)
<1> DEFINE f == [p \in DOMAIN payments |->
                   IF payments[p].kind = "reversal" THEN p
                   ELSE CHOOSE q : InForce(p) = {q}]
<1>1. ASSUME NEW p \in DOMAIN payments
      PROVE  f[p] = IF Superseded(p) THEN f[Linked(p)] ELSE p
  <2>1. CASE Superseded(p)
    <3>1. /\ Linked(p) \in DOMAIN payments
          /\ payments[p].kind # "reversal"
          /\ payments[Linked(p)].kind # "reversal"
          /\ InForce(p) = InForce(Linked(p))
      BY <2>1, LinkLeadsOn, InForceOfAChain
    <3>2. QED
      BY <2>1, <3>1
  <2>2. CASE ~ Superseded(p) /\ payments[p].kind # "reversal"
    <3>1. p \in InForce(p)
      BY <2>2 DEF InForce, SameChain
    <3>2. InForce(p) = {p}
      BY <3>1 DEF ChainInv, ChainHolds
    <3>3. QED
      BY <2>2, <3>2
  <2>3. CASE ~ Superseded(p) /\ payments[p].kind = "reversal"
    BY <2>3
  <2>4. QED
    BY <2>1, <2>2, <2>3
<1>2. f = ForwardStep(f)
  <2>1. f = [p \in DOMAIN payments |-> f[p]]
    OBVIOUS
  <2> HIDE DEF f
  <2>2. QED
    BY <1>1, <2>1 DEF ForwardStep
<1>3. \E g : g = ForwardStep(g)
  BY <1>2
<1>4. QED
  BY <1>3 DEF Forward, ForwardStep, Linked

StepsStep(f) ==
  [p \in DOMAIN payments |-> IF Superseded(p) THEN 1 + f[Linked(p)] ELSE 0]

\* The trail of a correction is one longer than the trail of what it corrects.
LEMMA TrailsGrow ==
  ASSUME TypeOK, CorrectionsAreLinked, ReceiptInv, NEW p \in DOMAIN payments,
         Superseded(p)
  PROVE  Len(payments[Linked(p)].receipt.trail) = Len(payments[p].receipt.trail) + 1
<1>1. /\ Linked(p) \in DOMAIN payments /\ payments[Linked(p)].kind = "replacement"
      /\ payments[Linked(p)].corrects = p
  BY LinkLeadsOn
<1>2. ExtendsReceipt(Linked(p))
  BY <1>1 DEF ReceiptInv, TrailsFollowCorrections
<1>3. PICK mark \in {"R", "C"}, n \in Nat :
        payments[Linked(p)].receipt = Marked(payments[p].receipt, mark, n)
  BY <1>1, <1>2 DEF ExtendsReceipt
<1>4. /\ payments[p].receipt \in Receipt
      /\ payments[p].receipt.trail \in Seq({"R", "C"} \X Nat)
      /\ <<mark, n>> \in {"R", "C"} \X Nat
  BY PaymentFields
<1>5. payments[Linked(p)].receipt.trail = Append(payments[p].receipt.trail, <<mark, n>>)
  BY <1>3, <1>4, MarkedKeepsNumber
<1>6. QED
  BY <1>4, <1>5, AppendProperties

LEMMA RevisionIsANumber ==
  ASSUME TypeOK, NEW p \in DOMAIN payments
  PROVE  Revision(p) \in Nat
BY CorrectionsAreFinite DEF Revision, TypeOK

LEMMA StepsFollows ==
  ASSUME TypeOK, CorrectionsAreLinked, ReceiptInv, ChainInv
  PROVE  Steps = StepsStep(Steps)
<1> DEFINE f == [p \in DOMAIN payments |->
                   IF payments[p].kind = "reversal" THEN 0
                   ELSE Revision(p) - Len(payments[p].receipt.trail)]
<1>1. ASSUME NEW p \in DOMAIN payments
      PROVE  f[p] = IF Superseded(p) THEN 1 + f[Linked(p)] ELSE 0
  <2>1. Len(payments[p].receipt.trail) \in Nat /\ Revision(p) \in Nat
    BY PaymentFields, RevisionIsANumber
  <2>2. CASE Superseded(p)
    <3>1. /\ Linked(p) \in DOMAIN payments
          /\ payments[p].kind # "reversal"
          /\ payments[Linked(p)].kind # "reversal"
          /\ Revision(p) = Revision(Linked(p))
      BY <2>2, LinkLeadsOn, InForceOfAChain
    <3>2. Len(payments[Linked(p)].receipt.trail) = Len(payments[p].receipt.trail) + 1
      BY <2>2, TrailsGrow
    <3>3. f[Linked(p)] = Revision(p) - (Len(payments[p].receipt.trail) + 1)
      BY <3>1, <3>2
    <3>4. f[p] = Revision(p) - Len(payments[p].receipt.trail)
      BY <3>1
    <3> HIDE DEF f
    <3>5. PICK t \in Nat, v \in Nat :
            Revision(p) = v /\ Len(payments[p].receipt.trail) = t
      BY <2>1
    <3>6. f[p] = v - t /\ f[Linked(p)] = v - (t + 1)
      BY <3>3, <3>4, <3>5
    <3>7. f[p] = 1 + f[Linked(p)]
      BY <3>5, <3>6
    <3>8. QED
      BY <2>2, <3>7
  <2>3. CASE ~ Superseded(p) /\ payments[p].kind # "reversal"
    <3>1. Revision(p) = Len(payments[p].receipt.trail)
      BY <2>3 DEF ChainInv, ChainHolds
    <3>2. f[p] = Revision(p) - Revision(p)
      BY <2>3, <3>1
    <3> HIDE DEF f
    <3>3. f[p] = 0
      BY <2>1, <3>2
    <3>4. QED
      BY <2>3, <3>3
  <2>4. CASE ~ Superseded(p) /\ payments[p].kind = "reversal"
    BY <2>4
  <2>5. QED
    BY <2>2, <2>3, <2>4
<1>2. f = StepsStep(f)
  BY <1>1 DEF StepsStep
<1>3. \E g : g = StepsStep(g)
  BY <1>2
<1>4. QED
  BY <1>3 DEF Steps, StepsStep, Linked

RootStep(f) ==
  [p \in DOMAIN payments |->
     IF payments[p].corrects = 0 THEN p ELSE f[payments[p].corrects]]

\* What a reversal or a replacement corrects came before it, in its chain.
LEMMA CorrectsLeadsBack ==
  ASSUME TypeOK, CorrectionsAreLinked, NEW p \in DOMAIN payments
  PROVE  IF payments[p].kind = "original" THEN payments[p].corrects = 0
         ELSE /\ payments[p].corrects # 0
              /\ payments[p].corrects \in DOMAIN payments
              /\ payments[p].corrects < p
              /\ SameChain(p, payments[p].corrects)
<1>1. payments[p] \in Payment
  BY DEF TypeOK
<1>2. (payments[p].kind = "original") = (payments[p].corrects = 0)
  BY <1>1 DEF Payment
<1>3. CASE payments[p].kind # "original"
  <2>1. PICK c \in DOMAIN corrections :
          p \in {corrections[c].reversal, corrections[c].replacement}
    BY <1>3, LinkedParts DEF EveryRowIsRecorded
  <2>2. TiesItsRows(corrections[c])
    BY LinkedParts DEF EachRecordTiesItsRows
  <2>3. /\ payments[p].corrects = corrections[c].original
        /\ corrections[c].original \in DOMAIN payments
        /\ SameChain(corrections[c].original, p)
    BY <2>1, <2>2 DEF TiesItsRows
  <2>4. corrections[c].original < p
    <3>1. /\ corrections[c].original < corrections[c].reversal
          /\ corrections[c].reversal < corrections[c].replacement
          /\ {corrections[c].original, corrections[c].reversal,
              corrections[c].replacement} \subseteq 1 .. Len(payments)
          /\ Len(payments) \in Nat
      BY <2>2 DEF TiesItsRows, TypeOK
    <3>2. QED
      BY <2>1, <3>1
  <2>5. QED
    BY <1>2, <1>3, <2>3, <2>4 DEF SameChain
<1>4. QED
  BY <1>2, <1>3

\* A receipt number has one original.
LEMMA OneOriginal ==
  ASSUME TypeOK, ReceiptInv, NEW p \in DOMAIN payments, NEW q \in DOMAIN payments,
         SameChain(p, q), payments[p].kind = "original", payments[q].kind = "original"
  PROVE  p = q
<1>1. payments[p].receipt \in Receipt /\ payments[q].receipt \in Receipt
  BY PaymentFields
<1>2. payments[p].receipt.trail = <<>> /\ payments[q].receipt.trail = <<>>
  BY DEF ReceiptInv, TrailsFollowCorrections
<1>3. payments[p].receipt = payments[q].receipt
  BY <1>1, <1>2 DEF Receipt, SameChain
<1>4. QED
  BY <1>3 DEF ReceiptInv, ReceiptsAreUnique

LEMMA RootFollows ==
  ASSUME TypeOK, CorrectionsAreLinked, ReceiptInv, ChainInv
  PROVE  Root = RootStep(Root)
<1> DEFINE first(p, q) == /\ q \in DOMAIN payments /\ SameChain(p, q)
                          /\ payments[q].kind = "original"
           f == [p \in DOMAIN payments |-> CHOOSE q : first(p, q)]
<1>1. ASSUME NEW p \in DOMAIN payments
      PROVE  f[p] = IF payments[p].corrects = 0 THEN p ELSE f[payments[p].corrects]
  <2>1. \E q : first(p, q)
    BY DEF ChainInv, ChainHolds
  <2>2. first(p, f[p])
    BY <2>1
  <2>3. CASE payments[p].kind = "original"
    <3>1. payments[p].corrects = 0
      BY <2>3, CorrectsLeadsBack
    <3>2. p = f[p]
      BY <2>2, <2>3, OneOriginal
    <3>3. QED
      BY <3>1, <3>2
  <2>4. CASE payments[p].kind # "original"
    <3>1. PICK o : o = payments[p].corrects
      OBVIOUS
    <3>2. o # 0 /\ o \in DOMAIN payments /\ SameChain(p, o)
      BY <2>4, <3>1, CorrectsLeadsBack
    <3>3. \E q : first(o, q)
      BY <3>2 DEF ChainInv, ChainHolds
    <3>4. first(o, f[o])
      BY <3>2, <3>3
    <3>5. f[p] = f[o]
      <4>1. SameChain(f[p], f[o])
        BY <2>2, <3>2, <3>4 DEF SameChain
      <4>2. QED
        BY <2>2, <3>4, <4>1, OneOriginal
    <3>6. QED
      BY <3>1, <3>2, <3>5
  <2>5. QED
    BY <2>3, <2>4
<1>2. f = RootStep(f)
  BY <1>1 DEF RootStep
<1>3. \E g : g = RootStep(g)
  BY <1>2
<1>4. QED
  BY <1>3 DEF Root, RootStep

\* Whatever function solves the equation finds the payment in force and counts
\* the corrections still to come: look at the last payment for which it does not.
LEMMA ForwardFinds ==
  ASSUME TypeOK, CorrectionsAreLinked, ReceiptInv, ChainInv,
         NEW p \in DOMAIN payments, payments[p].kind # "reversal"
  PROVE  /\ InForce(p) = {Forward[p]}
         /\ Steps[p] = Revision(p) - Len(payments[p].receipt.trail)
<1> DEFINE good(q) == /\ InForce(q) = {Forward[q]}
                      /\ Steps[q] = Revision(q) - Len(payments[q].receipt.trail)
           Bad == {q \in 1 .. Len(payments) :
                     payments[q].kind # "reversal" /\ ~ good(q)}
<1>1. DOMAIN payments = 1 .. Len(payments) /\ Len(payments) \in Nat
  BY DEF TypeOK
<1>2. SUFFICES ASSUME Bad # {} PROVE FALSE
  BY <1>1
<1>3. PICK q \in Bad : \A x \in Bad : x <= q
  BY <1>1, <1>2, GreatestPosition
<1>4. q \in DOMAIN payments /\ payments[q].kind # "reversal" /\ ~ good(q)
  BY <1>1
<1>5. /\ Forward[q] = IF Superseded(q) THEN Forward[Linked(q)] ELSE q
      /\ Steps[q] = IF Superseded(q) THEN 1 + Steps[Linked(q)] ELSE 0
  BY <1>4, ForwardFollows, StepsFollows DEF ForwardStep, StepsStep
<1>6. Len(payments[q].receipt.trail) \in Nat /\ Revision(q) \in Nat
  BY <1>4, PaymentFields, RevisionIsANumber
<1>7. CASE Superseded(q)
  <2>1. PICK n : n = Linked(q)
    OBVIOUS
  <2>2. /\ n \in DOMAIN payments /\ q < n /\ payments[n].kind # "reversal"
        /\ InForce(n) = InForce(q) /\ Revision(n) = Revision(q)
    BY <1>4, <1>7, <2>1, LinkLeadsOn, InForceOfAChain
  <2>3. good(n)
    BY <1>1, <1>3, <2>2
  <2>4. Len(payments[n].receipt.trail) = Len(payments[q].receipt.trail) + 1
    BY <1>4, <1>7, <2>1, TrailsGrow
  <2>5. InForce(q) = {Forward[q]}
    BY <1>5, <1>7, <2>1, <2>2, <2>3
  <2>6. Steps[q] = Revision(q) - Len(payments[q].receipt.trail)
    <3>1. Steps[q] = 1 + Steps[n]
      BY <1>5, <1>7, <2>1
    <3>2. Steps[n] = Revision(q) - (Len(payments[q].receipt.trail) + 1)
      BY <2>2, <2>3, <2>4
    <3>3. QED
      BY <1>6, <3>1, <3>2
  <2>7. QED
    BY <1>4, <2>5, <2>6
<1>8. CASE ~ Superseded(q)
  <2>1. q \in InForce(q)
    BY <1>4, <1>8 DEF InForce, SameChain
  <2>2. InForce(q) = {q} /\ Revision(q) = Len(payments[q].receipt.trail)
    BY <1>4, <1>8, <2>1 DEF ChainInv, ChainHolds
  <2>3. Steps[q] = 0 /\ Forward[q] = q
    BY <1>5, <1>8
  <2>4. Steps[q] = Revision(q) - Len(payments[q].receipt.trail)
    BY <1>6, <2>2, <2>3
  <2>5. QED
    BY <1>4, <2>2, <2>3, <2>4
<1>9. QED
  BY <1>7, <1>8

LEMMA RootFinds ==
  ASSUME TypeOK, CorrectionsAreLinked, ReceiptInv, ChainInv,
         NEW p \in DOMAIN payments
  PROVE  /\ Root[p] \in DOMAIN payments /\ SameChain(p, Root[p])
         /\ payments[Root[p]].kind = "original"
<1> DEFINE good(q) == /\ Root[q] \in DOMAIN payments /\ SameChain(q, Root[q])
                      /\ payments[Root[q]].kind = "original"
           Bad == {q \in 1 .. Len(payments) : ~ good(q)}
<1>1. DOMAIN payments = 1 .. Len(payments) /\ Len(payments) \in Nat
  BY DEF TypeOK
<1>2. SUFFICES ASSUME Bad # {} PROVE FALSE
  BY <1>1
<1>3. Bad \in SUBSET Nat
  BY <1>1
<1>4. PICK q \in Bad : \A x \in Bad : q <= x
  BY <1>2, <1>3, LeastNumber
<1>5. q \in DOMAIN payments /\ ~ good(q)
  BY <1>1
<1>6. Root[q] = IF payments[q].corrects = 0 THEN q ELSE Root[payments[q].corrects]
  BY <1>5, RootFollows DEF RootStep
<1>7. CASE payments[q].kind = "original"
  BY <1>5, <1>6, <1>7, CorrectsLeadsBack DEF SameChain
<1>8. CASE payments[q].kind # "original"
  <2>1. PICK o : o = payments[q].corrects
    OBVIOUS
  <2>2. o # 0 /\ o \in DOMAIN payments /\ o < q /\ SameChain(q, o)
    BY <1>5, <1>8, <2>1, CorrectsLeadsBack
  <2>3. good(o)
    BY <1>1, <1>4, <2>2
  <2>4. Root[q] = Root[o]
    BY <1>6, <2>1, <2>2
  <2>5. QED
    BY <1>5, <2>2, <2>3, <2>4 DEF SameChain
<1>9. QED
  BY <1>7, <1>8

\* The loops of effectivePayment, back along corrects and forward along
\* corrections, find the one payment of a receipt that is in force and count its
\* corrections, however long the chain: the two readings of a chain agree.
THEOREM WalksAgree == Spec => []WalkFindsInForce
<1>1. TypeOK /\ CorrectionsAreLinked /\ ReceiptInv /\ ChainInv => WalkFindsInForce
  <2>1. SUFFICES ASSUME TypeOK, CorrectionsAreLinked, ReceiptInv, ChainInv,
                        NEW p \in DOMAIN payments
                 PROVE  InForce(p) = {Forward[Root[p]]} /\ Revision(p) = Steps[Root[p]]
    BY DEF WalkFindsInForce
  <2>2. PICK o : o = Root[p]
    OBVIOUS
  <2>3. /\ o \in DOMAIN payments /\ SameChain(p, o)
        /\ payments[o].kind = "original"
    BY <2>1, <2>2, RootFinds
  <2>4. InForce(p) = InForce(o) /\ Revision(p) = Revision(o)
    BY <2>1, <2>3, InForceOfAChain
  <2>5. /\ InForce(o) = {Forward[o]}
        /\ Steps[o] = Revision(o) - Len(payments[o].receipt.trail)
    BY <2>1, <2>3, ForwardFinds
  <2>6. Len(payments[o].receipt.trail) = 0
    BY <2>1, <2>3 DEF ReceiptInv, TrailsFollowCorrections
  <2>7. Revision(o) \in Nat
    BY <2>1, <2>3, RevisionIsANumber
  <2>8. Steps[o] = Revision(o)
    BY <2>5, <2>6, <2>7
  <2>9. QED
    BY <2>2, <2>4, <2>5, <2>8
<1>2. QED
  BY <1>1, TypeCorrect, CorrectionsLinked, ReceiptInvHolds, ChainInvHolds, PTL

-----------------------------------------------------------------------------
(* BookHistories.  The path to a decision follows supersedes, which points      *)
(* back; so a function that solves its equation is built decision by        *)
(* decision, and the path to the head lists all decisions about a member.   *)

DecisionsOf(m) == {e \in DOMAIN coverage : coverage[e].member = m}

Upto(e) == {f \in 1 .. e : coverage[f].member = coverage[e].member}

PathAt(f, e) ==
  IF coverage[e].supersedes = 0 THEN <<coverage[e].paid>>
  ELSE Append(f[coverage[e].supersedes], coverage[e].paid)

PathStep(f) == [e \in DOMAIN coverage |-> PathAt(f, e)]

LEMMA PointsBackward ==
  ASSUME coverage \in Seq(Decision), SupersedesLatest, NEW e \in DOMAIN coverage,
         coverage[e].supersedes # 0
  PROVE  /\ coverage[e].supersedes \in 1 .. e - 1
         /\ coverage[e].supersedes \in DOMAIN coverage
         /\ coverage[coverage[e].supersedes].member = coverage[e].member
         /\ \A f \in EarlierDecisions(e) : f <= coverage[e].supersedes
<1>1. /\ coverage[e].supersedes \in EarlierDecisions(e)
      /\ \A f \in EarlierDecisions(e) : f <= coverage[e].supersedes
  BY DEF SupersedesLatest
<1>2. e \in 1 .. Len(coverage) /\ Len(coverage) \in Nat
  OBVIOUS
<1>3. QED
  BY <1>1, <1>2 DEF EarlierDecisions

LEMMA PathsFollow ==
  ASSUME coverage \in Seq(Decision), SupersedesLatest
  PROVE  Path = PathStep(Path)
<1> DEFINE solves(f, n) == f = [e \in 1 .. n |-> PathAt(f, e)]
           Bad == {n \in 0 .. Len(coverage) : ~ \E f : solves(f, n)}
<1>1. DOMAIN coverage = 1 .. Len(coverage) /\ Len(coverage) \in Nat
  OBVIOUS
<1>2. ASSUME Bad # {} PROVE FALSE
  <2>1. Bad \in SUBSET Nat
    BY <1>1
  <2>2. PICK n \in Bad : \A x \in Bad : n <= x
    BY <1>2, <2>1, LeastNumber
  <2>3. n \in 0 .. Len(coverage) /\ ~ \E f : solves(f, n)
    OBVIOUS
  <2>4. CASE n = 0
    <3> DEFINE f == [e \in 1 .. 0 |-> 0]
    <3>1. 1 .. 0 = {}
      OBVIOUS
    <3>2. solves(f, 0)
      BY <3>1
    <3>3. QED
      BY <2>3, <2>4, <3>2
  <2>5. CASE n # 0
    <3>1. n - 1 \in 0 .. Len(coverage) /\ n - 1 < n /\ n \in 1 .. Len(coverage)
      BY <1>1, <2>3, <2>5
    <3>2. n - 1 \notin Bad
      BY <2>2, <3>1
    <3>3. PICK g : solves(g, n - 1)
      BY <3>1, <3>2
    <3> DEFINE f == [e \in 1 .. n |-> IF e = n THEN PathAt(g, n) ELSE g[e]]
    <3>4. ASSUME NEW e \in 1 .. n PROVE f[e] = PathAt(f, e)
      <4>1. PathAt(f, e) = PathAt(g, e)
        <5>1. CASE coverage[e].supersedes = 0
          BY <5>1 DEF PathAt
        <5>2. CASE coverage[e].supersedes # 0
          <6>1. e \in DOMAIN coverage
            BY <1>1, <2>3, <3>4
          <6>2. coverage[e].supersedes \in 1 .. e - 1
            BY <5>2, <6>1, PointsBackward
          <6>3. coverage[e].supersedes \in 1 .. n /\ coverage[e].supersedes # n
            BY <2>3, <3>4, <6>2
          <6>4. f[coverage[e].supersedes] = g[coverage[e].supersedes]
            BY <6>3
          <6> HIDE DEF f
          <6>5. QED
            BY <6>4 DEF PathAt
        <5>3. QED
          BY <5>1, <5>2
      <4>2. CASE e = n
        BY <3>4, <4>1, <4>2
      <4>3. CASE e # n
        <5>1. e \in 1 .. n - 1
          BY <2>3, <3>4, <4>3
        <5>2. g[e] = PathAt(g, e)
          BY <3>3, <5>1
        <5>3. f[e] = g[e]
          BY <3>4, <4>3
        <5>4. QED
          BY <4>1, <5>2, <5>3
      <4>4. QED
        BY <4>2, <4>3
    <3>5. f = [e \in 1 .. n |-> f[e]]
      OBVIOUS
    <3> HIDE DEF f
    <3>6. solves(f, n)
      BY <3>4, <3>5
    <3>7. QED
      BY <2>3, <3>6
  <2>6. QED
    BY <2>4, <2>5
<1>3. \E f : solves(f, Len(coverage))
  BY <1>1, <1>2
<1>4. \E f : f = PathStep(f)
  BY <1>1, <1>3 DEF PathStep
<1>5. QED
  BY <1>4 DEF Path, PathStep, PathAt

LEMMA UptoIsFinite ==
  ASSUME NEW e \in Nat
  PROVE  IsFiniteSet(Upto(e)) /\ Cardinality(Upto(e)) \in Nat
<1>1. IsFiniteSet(1 .. e) /\ Upto(e) \subseteq 1 .. e
  BY FS_Interval DEF Upto
<1>2. QED
  BY <1>1, FS_Subset, FS_CardinalityType

\* A path lists one date for each decision about the member so far.
LEMMA PathsCount ==
  ASSUME coverage \in Seq(Decision), SupersedesLatest, NEW e \in DOMAIN coverage
  PROVE  Path[e] \in Seq(Dates) /\ Len(Path[e]) = Cardinality(Upto(e))
<1> DEFINE good(x) == Path[x] \in Seq(Dates) /\ Len(Path[x]) = Cardinality(Upto(x))
           Bad == {x \in 1 .. Len(coverage) : ~ good(x)}
<1>1. DOMAIN coverage = 1 .. Len(coverage) /\ Len(coverage) \in Nat
  OBVIOUS
<1>2. SUFFICES ASSUME Bad # {} PROVE FALSE
  BY <1>1
<1>3. Bad \in SUBSET Nat
  BY <1>1
<1>4. PICK x \in Bad : \A y \in Bad : x <= y
  BY <1>2, <1>3, LeastNumber
<1>5. x \in DOMAIN coverage /\ x \in 1 .. Len(coverage) /\ ~ good(x)
  BY <1>1
<1>6. Path[x] = PathAt(Path, x)
  BY <1>5, PathsFollow DEF PathStep
<1>7. coverage[x].paid \in Dates
  <2>1. coverage[x] \in Decision
    BY <1>5
  <2>2. QED
    BY <2>1 DEF Decision
<1>8. CASE coverage[x].supersedes = 0
  <2>1. Path[x] = <<coverage[x].paid>>
    BY <1>6, <1>8 DEF PathAt
  <2>2. EarlierDecisions(x) = {}
    <3>1. EarlierDecisions(x) # {} => coverage[x].supersedes \in EarlierDecisions(x)
      BY <1>5 DEF SupersedesLatest
    <3>2. 0 \notin EarlierDecisions(x)
      BY <1>5 DEF EarlierDecisions
    <3>3. QED
      BY <1>8, <3>1, <3>2
  <2>3. Upto(x) = {x}
    BY <1>1, <1>5, <2>2 DEF Upto, EarlierDecisions
  <2>4. Cardinality(Upto(x)) = 1
    BY <2>3, FS_Singleton
  <2>5. QED
    BY <1>5, <1>7, <2>1, <2>4
<1>9. CASE coverage[x].supersedes # 0
  <2>1. PICK y : y = coverage[x].supersedes
    OBVIOUS
  <2>2. /\ y \in 1 .. x - 1 /\ y \in DOMAIN coverage
        /\ coverage[y].member = coverage[x].member
        /\ \A f \in EarlierDecisions(x) : f <= y
    BY <1>5, <1>9, <2>1, PointsBackward
  <2>3. good(y)
    BY <1>1, <1>4, <1>5, <2>2
  <2>4. Path[x] = Append(Path[y], coverage[x].paid)
    BY <1>6, <1>9, <2>1 DEF PathAt
  <2>5. Path[x] \in Seq(Dates) /\ Len(Path[x]) = Len(Path[y]) + 1
    BY <1>7, <2>3, <2>4, AppendProperties
  <2>6. Upto(x) = Upto(y) \cup {x} /\ x \notin Upto(y)
    <3>1. \A f \in 1 .. x : f = x \/ f \in 1 .. x - 1
      BY <1>1, <1>5
    <3>2. \A f \in Upto(x) : f = x \/ f \in EarlierDecisions(x)
      BY <3>1 DEF Upto, EarlierDecisions
    <3>3. \A f \in EarlierDecisions(x) : f \in Upto(y)
      BY <1>1, <1>5, <2>2 DEF Upto, EarlierDecisions
    <3>4. Upto(y) \subseteq Upto(x) /\ x \notin Upto(y) /\ x \in Upto(x)
      BY <1>1, <1>5, <2>2 DEF Upto
    <3>5. QED
      BY <3>2, <3>3, <3>4
  <2>7. IsFiniteSet(Upto(y))
    BY <2>2, UptoIsFinite
  <2>8. Cardinality(Upto(x)) = Cardinality(Upto(y)) + 1
    BY <2>6, <2>7, FS_AddElement
  <2>9. QED
    BY <1>5, <2>3, <2>5, <2>8
<1>10. QED
  BY <1>8, <1>9

\* What a state says about the history of a member: its head is the latest
\* decision, and the list that is read from there has a date for each decision.
HistoryShows(m) ==
  /\ DecisionsOf(m) = {} => Heads(m) = {}
  /\ DecisionsOf(m) # {} =>
       /\ Heads(m) # {} /\ EffectiveCoverage(m) \in DecisionsOf(m)
       /\ \A f \in DecisionsOf(m) : f <= EffectiveCoverage(m)
  /\ BookHistories[m] \in Seq(Dates)
  /\ IsFiniteSet(DecisionsOf(m))
  /\ Len(BookHistories[m]) = Cardinality(DecisionsOf(m))

HistoriesShow ==
  /\ \A m \in Members : HistoryShows(m)
  /\ \A e \in DOMAIN coverage : Path[e] = PathAt(Path, e) /\ Path[e] \in Seq(Dates)

LEMMA HistoriesShowHolds == Spec => []HistoriesShow
<1>1. TypeOK /\ SupersedesLatest => HistoriesShow
  <2>1. SUFFICES ASSUME TypeOK, SupersedesLatest PROVE HistoriesShow
    OBVIOUS
  <2>2. coverage \in Seq(Decision) /\ DOMAIN coverage = 1 .. Len(coverage)
        /\ Len(coverage) \in Nat
    BY <2>1 DEF TypeOK
  <2>3. \A e \in DOMAIN coverage : Path[e] = PathAt(Path, e) /\ Path[e] \in Seq(Dates)
    BY <2>1, <2>2, PathsFollow, PathsCount DEF PathStep
  <2>4. ASSUME NEW m \in Members PROVE HistoryShows(m)
    <3>1. DecisionsOf(m) = {} => Heads(m) = {}
      BY DEF DecisionsOf, Heads
    <3>2. IsFiniteSet(DecisionsOf(m))
      <4>1. IsFiniteSet(1 .. Len(coverage)) /\ DecisionsOf(m) \subseteq 1 .. Len(coverage)
        BY <2>2, FS_Interval DEF DecisionsOf
      <4>2. QED
        BY <4>1, FS_Subset
    <3>3. CASE DecisionsOf(m) = {}
      <4>1. BookHistories[m] = <<>>
        BY <3>1, <3>3 DEF BookHistories
      <4>2. Cardinality(DecisionsOf(m)) = 0
        BY <3>3, FS_EmptySet
      <4>3. QED
        BY <3>1, <3>2, <3>3, <4>1, <4>2 DEF HistoryShows
    <3>4. CASE DecisionsOf(m) # {}
      <4>1. Heads(m) # {}
        <5>1. PICK e \in DOMAIN coverage : coverage[e].member = m
          BY <3>4 DEF DecisionsOf
        <5>2. QED
          BY <2>1, <2>2, <5>1, LatestIsAHead
      <4>2. PICK h : h = EffectiveCoverage(m)
        OBVIOUS
      <4>3. h \in Heads(m)
        BY <4>1, <4>2 DEF EffectiveCoverage
      <4>4. h \in DecisionsOf(m)
        BY <4>3 DEF Heads, DecisionsOf
      <4>5. \A f \in DecisionsOf(m) : f <= h
        BY <2>1, <2>2, <4>3, HeadIsLatest DEF DecisionsOf
      <4>6. BookHistories[m] = Path[h]
        BY <4>1, <4>2 DEF BookHistories
      <4>7. Upto(h) = DecisionsOf(m)
        <5>1. h \in 1 .. Len(coverage) /\ coverage[h].member = m
          BY <2>2, <4>4 DEF DecisionsOf
        <5>2. \A f \in 1 .. h : f \in 1 .. Len(coverage)
          BY <2>2, <5>1
        <5>3. \A f \in DecisionsOf(m) : f \in 1 .. h
          BY <2>2, <4>5, <5>1 DEF DecisionsOf
        <5>4. QED
          BY <2>2, <5>1, <5>2, <5>3 DEF Upto, DecisionsOf
      <4>8. h \in DOMAIN coverage
        BY <4>4 DEF DecisionsOf
      <4>9. BookHistories[m] \in Seq(Dates) /\ Len(BookHistories[m]) = Cardinality(DecisionsOf(m))
        BY <2>1, <2>2, <4>6, <4>7, <4>8, PathsCount
      <4>10. QED
        BY <3>2, <3>4, <4>1, <4>2, <4>4, <4>5, <4>9 DEF HistoryShows
    <3>5. QED
      BY <3>3, <3>4
  <2>5. QED
    BY <2>3, <2>4 DEF HistoriesShow
<1>2. QED
  BY <1>1, TypeCorrect, LatestIsSuperseded, PTL

LEMMA PrefixIsPointwise ==
  ASSUME NEW S, NEW s \in Seq(S), NEW t \in Seq(S)
  PROVE  IsPrefix(s, t) <=>
           Len(s) <= Len(t) /\ \A i \in 1 .. Len(s) : s[i] = t[i]
<1>1. Len(s) \in Nat /\ Len(t) \in Nat
  OBVIOUS
<1>2. /\ SubSeq(s, 1, Len(s)) \in Seq(S) /\ Len(SubSeq(s, 1, Len(s))) = Len(s)
      /\ \A i \in 1 .. Len(s) : SubSeq(s, 1, Len(s))[i] = s[i]
  BY <1>1, SubSeqProperties
<1>3. CASE Len(s) <= Len(t)
  <2>1. \A i \in 1 .. Len(s) : i \in 1 .. Len(t)
    BY <1>1, <1>3
  <2>2. /\ SubSeq(t, 1, Len(s)) \in Seq(S) /\ Len(SubSeq(t, 1, Len(s))) = Len(s)
        /\ \A i \in 1 .. Len(s) : SubSeq(t, 1, Len(s))[i] = t[i]
    BY <1>1, <1>3, <2>1, SubSeqProperties
  <2>3. SubSeq(s, 1, Len(s)) = SubSeq(t, 1, Len(s)) <=>
          \A i \in 1 .. Len(s) : s[i] = t[i]
    <3>1. PICK a \in Seq(S), z \in Seq(S) :
            a = SubSeq(s, 1, Len(s)) /\ z = SubSeq(t, 1, Len(s))
      BY <1>2, <2>2
    <3>2. /\ Len(a) = Len(s) /\ Len(z) = Len(s)
          /\ \A i \in 1 .. Len(s) : a[i] = s[i] /\ z[i] = t[i]
      BY <1>2, <2>2, <3>1
    <3>3. a = z <=> \A i \in 1 .. Len(a) : a[i] = z[i]
      BY <3>2, SeqEqual
    <3>4. QED
      BY <3>1, <3>2, <3>3
  <2>4. QED
    BY <1>3, <2>3 DEF IsPrefix
<1>4. CASE ~ (Len(s) <= Len(t))
  BY <1>4 DEF IsPrefix
<1>5. QED
  BY <1>3, <1>4

LEMMA EmptyPrefix ==
  ASSUME NEW S, NEW t \in Seq(S)
  PROVE  IsPrefix(<<>>, t)
<1>1. <<>> \in Seq(S) /\ Len(<<>>) = 0 /\ Len(t) \in Nat
  OBVIOUS
<1>2. 1 .. 0 = {} /\ 0 <= Len(t)
  BY <1>1
<1>3. QED
  BY <1>1, <1>2, PrefixIsPointwise

LEMMA SelfPrefix ==
  ASSUME NEW S, NEW t \in Seq(S)
  PROVE  IsPrefix(t, t)
<1>1. Len(t) \in Nat
  OBVIOUS
<1>2. QED
  BY <1>1, PrefixIsPointwise

LEMMA AppendedPrefix ==
  ASSUME NEW S, NEW s \in Seq(S), NEW t \in Seq(S), NEW x \in S, IsPrefix(s, t)
  PROVE  IsPrefix(s, Append(t, x))
<1>1. Len(s) <= Len(t) /\ \A i \in 1 .. Len(s) : s[i] = t[i]
  BY PrefixIsPointwise
<1>2. /\ Append(t, x) \in Seq(S) /\ Len(Append(t, x)) = Len(t) + 1
      /\ \A i \in 1 .. Len(t) : Append(t, x)[i] = t[i]
  BY AppendProperties
<1>3. Len(s) \in Nat /\ Len(t) \in Nat
  OBVIOUS
<1>4. \A i \in 1 .. Len(s) : i \in 1 .. Len(t)
  BY <1>1, <1>3
<1>5. PICK u : u = Append(t, x)
  OBVIOUS
<1>6. u \in Seq(S) /\ Len(s) <= Len(u) /\ \A i \in 1 .. Len(s) : s[i] = u[i]
  BY <1>1, <1>2, <1>3, <1>4, <1>5
<1>7. QED
  BY <1>5, <1>6, PrefixIsPointwise

\* Old decisions keep their path.
LEMMA PathsStay ==
  ASSUME TypeOK, TypeOK', HistoriesShow, HistoriesShow', SupersedesLatest,
         ExtendsHistory, NEW e \in DOMAIN coverage
  PROVE  Path'[e] = Path[e]
<1> DEFINE Bad == {x \in 1 .. Len(coverage) : Path'[x] # Path[x]}
<1>1. /\ DOMAIN coverage = 1 .. Len(coverage) /\ Len(coverage) \in Nat
      /\ DOMAIN coverage' = 1 .. Len(coverage') /\ Len(coverage') \in Nat
      /\ coverage \in Seq(Decision)
  BY DEF TypeOK
<1>2. SUFFICES ASSUME Bad # {} PROVE FALSE
  BY <1>1
<1>3. Bad \in SUBSET Nat
  BY <1>1
<1>4. PICK x \in Bad : \A y \in Bad : x <= y
  BY <1>2, <1>3, LeastNumber
<1>5. x \in 1 .. Len(coverage) /\ Path'[x] # Path[x]
  OBVIOUS
<1>6. x \in DOMAIN coverage /\ x \in DOMAIN coverage' /\ coverage'[x] = coverage[x]
  BY <1>1, <1>5 DEF ExtendsHistory
<1>7. Path[x] = PathAt(Path, x) /\ Path'[x] = PathAt(Path, x)'
  BY <1>6 DEF HistoriesShow
<1>8. CASE coverage[x].supersedes = 0
  BY <1>5, <1>6, <1>7, <1>8 DEF PathAt
<1>9. CASE coverage[x].supersedes # 0
  <2>1. PICK y : y = coverage[x].supersedes
    OBVIOUS
  <2>2. y \in 1 .. x - 1
    BY <1>1, <1>6, <1>9, <2>1, PointsBackward
  <2>3. Path'[y] = Path[y]
    BY <1>1, <1>4, <1>5, <2>2
  <2>4. QED
    BY <1>5, <1>6, <1>7, <1>9, <2>1, <2>3 DEF PathAt
<1>10. QED
  BY <1>8, <1>9

\* The path to a new decision starts with the history as it was.
LEMMA NewPathsExtend ==
  ASSUME TypeOK, TypeOK', HistoriesShow, HistoriesShow', SupersedesLatest,
         ExtendsHistory, NEW m \in Members, NEW e \in DOMAIN coverage',
         e \notin DOMAIN coverage, coverage'[e].member = m
  PROVE  IsPrefix(BookHistories[m], Path'[e])
<1> DEFINE n == Len(coverage)
           fresh(x) == /\ x \in DOMAIN coverage' /\ x > Len(coverage)
                       /\ coverage'[x].member = m
           Bad == {x \in 1 .. Len(coverage') :
                     fresh(x) /\ ~ IsPrefix(BookHistories[m], Path'[x])}
<1>1. /\ DOMAIN coverage = 1 .. Len(coverage) /\ Len(coverage) \in Nat
      /\ DOMAIN coverage' = 1 .. Len(coverage') /\ Len(coverage') \in Nat
      /\ coverage' \in Seq(Decision)
  BY DEF TypeOK
<1>2. SUFFICES ASSUME Bad # {} PROVE FALSE
  BY <1>1
<1>3. Bad \in SUBSET Nat
  BY <1>1
<1>4. PICK x \in Bad : \A y \in Bad : x <= y
  BY <1>2, <1>3, LeastNumber
<1>5. fresh(x) /\ ~ IsPrefix(BookHistories[m], Path'[x]) /\ x \in 1 .. Len(coverage')
  OBVIOUS
<1>6. Path'[x] = PathAt(Path, x)' /\ Path'[x] \in Seq(Dates)
  BY <1>5 DEF HistoriesShow
<1>7. coverage'[x].paid \in Dates
  <2>1. coverage'[x] \in Decision
    BY <1>1, <1>5
  <2>2. QED
    BY <2>1 DEF Decision
<1>8. BookHistories[m] \in Seq(Dates) /\ HistoryShows(m)
  BY DEF HistoriesShow, HistoryShows
<1>9. /\ coverage'[x].supersedes = 0 => Path'[x] = <<coverage'[x].paid>>
      /\ coverage'[x].supersedes # 0 =>
           Path'[x] = Append(Path'[coverage'[x].supersedes], coverage'[x].paid)
  BY <1>6 DEF PathAt
<1>10. CASE NewRows(x) # {}
  <2>1. PICK y : y = coverage'[x].supersedes
    OBVIOUS
  <2>2. y \in NewRows(x)
    BY <1>1, <1>5, <1>10, <2>1 DEF ExtendsHistory
  <2>3. y < x /\ fresh(y) /\ y # 0
    BY <1>1, <1>5, <2>2 DEF NewRows
  <2>4. IsPrefix(BookHistories[m], Path'[y])
    BY <1>1, <1>4, <2>3
  <2>5. Path'[y] \in Seq(Dates)
    BY <2>3 DEF HistoriesShow
  <2>6. Path'[x] = Append(Path'[y], coverage'[x].paid)
    BY <1>9, <2>1, <2>3
  <2>7. QED
    BY <1>5, <1>7, <1>8, <2>4, <2>5, <2>6, AppendedPrefix
<1>11. CASE NewRows(x) = {}
  <2>1. PICK y : y = EffectiveCoverage(m)
    OBVIOUS
  <2>2. coverage'[x].supersedes = y
    BY <1>1, <1>5, <1>11, <2>1 DEF ExtendsHistory
  <2>3. CASE Heads(m) = {}
    <3>1. BookHistories[m] = <<>>
      BY <2>3 DEF BookHistories
    <3>2. QED
      BY <1>5, <1>6, <3>1, EmptyPrefix
  <2>4. CASE Heads(m) # {}
    <3>1. y \in DOMAIN coverage /\ y # 0
      BY <1>1, <1>8, <2>1, <2>4 DEF HistoryShows, DecisionsOf
    <3>2. Path'[y] = Path[y]
      BY <3>1, PathsStay
    <3>3. BookHistories[m] = Path[y]
      BY <2>1, <2>4 DEF BookHistories
    <3>4. Path'[x] = Append(BookHistories[m], coverage'[x].paid)
      BY <1>9, <2>2, <3>1, <3>2, <3>3
    <3>5. IsPrefix(BookHistories[m], BookHistories[m])
      BY <1>8, SelfPrefix
    <3>6. QED
      BY <1>5, <1>7, <1>8, <3>4, <3>5, AppendedPrefix
  <2>5. QED
    BY <2>3, <2>4
<1>12. QED
  BY <1>10, <1>11

LEMMA HistoriesExtend ==
  ASSUME TypeOK, TypeOK', HistoriesShow, HistoriesShow', SupersedesLatest,
         ExtendsHistory, NEW m \in Members
  PROVE  IsPrefix(BookHistories[m], BookHistories'[m])
<1>1. /\ DOMAIN coverage = 1 .. Len(coverage) /\ Len(coverage) \in Nat
      /\ DOMAIN coverage' = 1 .. Len(coverage') /\ Len(coverage') \in Nat
      /\ \A e \in DOMAIN coverage : e \in DOMAIN coverage' /\ coverage'[e] = coverage[e]
  <2>1. /\ DOMAIN coverage = 1 .. Len(coverage) /\ Len(coverage) \in Nat
        /\ DOMAIN coverage' = 1 .. Len(coverage') /\ Len(coverage') \in Nat
    BY DEF TypeOK
  <2>2. /\ Len(coverage') >= Len(coverage)
        /\ \A e \in 1 .. Len(coverage) : coverage'[e] = coverage[e]
    BY DEF ExtendsHistory
  <2>3. QED
    BY <2>1, <2>2
<1>2. HistoryShows(m) /\ HistoryShows(m)'
  BY DEF HistoriesShow
<1>3. DecisionsOf(m) \subseteq DecisionsOf(m)'
  BY <1>1 DEF DecisionsOf
<1>4. BookHistories[m] \in Seq(Dates) /\ BookHistories'[m] \in Seq(Dates)
  BY <1>2 DEF HistoryShows
<1>5. CASE DecisionsOf(m) = {}
  <2>1. BookHistories[m] = <<>>
    BY <1>2, <1>5 DEF HistoryShows, BookHistories
  <2>2. QED
    BY <1>4, <2>1, EmptyPrefix
<1>6. CASE DecisionsOf(m) # {}
  <2>1. PICK h, k : h = EffectiveCoverage(m) /\ k = EffectiveCoverage(m)'
    OBVIOUS
  <2>2. /\ Heads(m) # {} /\ h \in DecisionsOf(m)
        /\ \A f \in DecisionsOf(m) : f <= h
    BY <1>2, <1>6, <2>1 DEF HistoryShows
  <2>3. /\ Heads(m)' # {} /\ k \in DecisionsOf(m)'
        /\ \A f \in DecisionsOf(m)' : f <= k
    BY <1>2, <1>3, <1>6, <2>1 DEF HistoryShows
  <2>4. BookHistories[m] = Path[h] /\ BookHistories'[m] = Path'[k]
    BY <2>1, <2>2, <2>3 DEF BookHistories
  <2>5. CASE k \in DOMAIN coverage
    <3>1. k \in DecisionsOf(m) /\ h \in DecisionsOf(m)'
      BY <1>1, <1>3, <2>2, <2>3, <2>5 DEF DecisionsOf
    <3>2. k <= h /\ h <= k /\ h \in Nat /\ k \in Nat
      BY <1>1, <2>2, <2>3, <3>1 DEF DecisionsOf
    <3>3. h = k
      BY <3>2
    <3>4. Path'[k] = Path[k]
      BY <2>5, PathsStay
    <3>5. BookHistories'[m] = BookHistories[m]
      BY <2>4, <3>3, <3>4
    <3>6. QED
      BY <1>4, <3>5, SelfPrefix
  <2>6. CASE k \notin DOMAIN coverage
    <3>1. k \in DOMAIN coverage' /\ coverage'[k].member = m
      BY <2>3 DEF DecisionsOf
    <3>2. QED
      BY <2>4, <2>6, <3>1, NewPathsExtend
  <2>7. QED
    BY <2>5, <2>6
<1>7. QED
  BY <1>5, <1>6

\* One decision more makes the history of its member one date longer.
LEMMA DecisionAdds ==
  ASSUME HistoriesShow, HistoriesShow', NEW m \in Members, NEW n,
         n \notin DOMAIN coverage, DOMAIN coverage' = DOMAIN coverage \cup {n},
         \A e \in DOMAIN coverage : coverage'[e] = coverage[e],
         coverage'[n].member = m, NEW x \in Members
  PROVE  Len(BookHistories'[x]) - Len(BookHistories[x]) = IF x = m THEN 1 ELSE 0
<1>1. HistoryShows(x) /\ HistoryShows(x)'
  BY DEF HistoriesShow
<1>2. /\ Len(BookHistories[x]) = Cardinality(DecisionsOf(x))
      /\ Len(BookHistories'[x]) = Cardinality(DecisionsOf(x)')
      /\ IsFiniteSet(DecisionsOf(x))
  BY <1>1 DEF HistoryShows
<1>3. Cardinality(DecisionsOf(x)) \in Nat
  BY <1>2, FS_CardinalityType
<1>4. CASE x = m
  <2>1. DecisionsOf(x)' = DecisionsOf(x) \cup {n} /\ n \notin DecisionsOf(x)
    BY <1>4 DEF DecisionsOf
  <2>2. Cardinality(DecisionsOf(x)') = Cardinality(DecisionsOf(x)) + 1
    BY <1>2, <2>1, FS_AddElement
  <2>3. QED
    BY <1>2, <1>3, <1>4, <2>2
<1>5. CASE x # m
  <2>1. DecisionsOf(x)' = DecisionsOf(x)
    BY <1>5 DEF DecisionsOf
  <2>2. QED
    BY <1>2, <1>3, <1>5, <2>1
<1>6. QED
  BY <1>4, <1>5

RowsOf(rows, m) == {i \in 1 .. Len(rows) : rows[i].member = m}

\* A posting makes the history of a member longer by the rows about them.
LEMMA GrantsAdd ==
  ASSUME TypeOK, TypeOK', HistoriesShow, HistoriesShow', NEW rows \in Seq(Entry),
         Len(coverage') = Len(coverage) + Len(rows),
         \A e \in 1 .. Len(coverage) : coverage'[e] = coverage[e],
         \A i \in 1 .. Len(rows) : coverage'[Len(coverage) + i].member = rows[i].member,
         NEW m \in Members
  PROVE  Len(BookHistories'[m]) - Len(BookHistories[m]) = Cardinality(RowsOf(rows, m))
<1> DEFINE new == {Len(coverage) + i : i \in RowsOf(rows, m)}
<1>1. HistoryShows(m) /\ HistoryShows(m)'
  BY DEF HistoriesShow
<1>2. /\ Len(BookHistories[m]) = Cardinality(DecisionsOf(m))
      /\ Len(BookHistories'[m]) = Cardinality(DecisionsOf(m)')
      /\ IsFiniteSet(DecisionsOf(m))
  BY <1>1 DEF HistoryShows
<1>3. /\ DOMAIN coverage = 1 .. Len(coverage) /\ Len(coverage) \in Nat
      /\ DOMAIN coverage' = 1 .. Len(coverage') /\ Len(rows) \in Nat
  BY DEF TypeOK
<1>4. IsFiniteSet(RowsOf(rows, m))
  <2>1. IsFiniteSet(1 .. Len(rows)) /\ RowsOf(rows, m) \subseteq 1 .. Len(rows)
    BY <1>3, FS_Interval DEF RowsOf
  <2>2. QED
    BY <2>1, FS_Subset
<1>5. IsFiniteSet(new) /\ Cardinality(new) = Cardinality(RowsOf(rows, m))
  <2> DEFINE f == [i \in RowsOf(rows, m) |-> Len(coverage) + i]
  <2>1. \A i \in RowsOf(rows, m) : i \in Nat
    BY <1>3 DEF RowsOf
  <2>2. f \in [RowsOf(rows, m) -> new]
    OBVIOUS
  <2>3. \A i, j \in RowsOf(rows, m) : f[i] = f[j] => i = j
    BY <1>3, <2>1
  <2>4. \A y \in new : \E i \in RowsOf(rows, m) : f[i] = y
    OBVIOUS
  <2> HIDE DEF f, new
  <2>5. f \in Injection(RowsOf(rows, m), new) /\ f \in Surjection(RowsOf(rows, m), new)
    BY <2>2, <2>3, <2>4 DEF Injection, IsInjective, Surjection
  <2>6. ExistsBijection(RowsOf(rows, m), new)
    BY <2>5 DEF ExistsBijection, Bijection
  <2>7. QED
    BY <1>4, <2>6, FS_Bijection
<1>6. DecisionsOf(m)' = DecisionsOf(m) \cup new
  <2>1. \A e \in DOMAIN coverage' : e \in DOMAIN coverage \/ e - Len(coverage) \in 1 .. Len(rows)
    BY <1>3
  <2>2. \A e \in DOMAIN coverage' : e = Len(coverage) + (e - Len(coverage))
    BY <1>3
  <2>3. \A i \in 1 .. Len(rows) : Len(coverage) + i \in DOMAIN coverage'
    BY <1>3
  <2>4. DOMAIN coverage \subseteq DOMAIN coverage'
    BY <1>3
  <2>5. ASSUME NEW e \in DecisionsOf(m)' PROVE e \in DecisionsOf(m) \cup new
    <3>1. e \in DOMAIN coverage' /\ coverage'[e].member = m
      BY <2>5 DEF DecisionsOf
    <3>2. CASE e \in DOMAIN coverage
      BY <1>3, <3>1, <3>2 DEF DecisionsOf
    <3>3. CASE e \notin DOMAIN coverage
      <4>1. PICK i \in 1 .. Len(rows) : e = Len(coverage) + i
        BY <2>1, <2>2, <3>1, <3>3
      <4>2. i \in RowsOf(rows, m)
        BY <3>1, <4>1 DEF RowsOf
      <4>3. QED
        BY <4>1, <4>2
    <3>4. QED
      BY <3>2, <3>3
  <2>6. ASSUME NEW e \in DecisionsOf(m) PROVE e \in DecisionsOf(m)'
    BY <1>3, <2>4, <2>6 DEF DecisionsOf
  <2>7. ASSUME NEW i \in RowsOf(rows, m) PROVE Len(coverage) + i \in DecisionsOf(m)'
    BY <2>3, <2>7 DEF DecisionsOf, RowsOf
  <2>8. QED
    BY <2>5, <2>6, <2>7
<1>7. DecisionsOf(m) \cap new = {}
  <2>1. \A e \in DecisionsOf(m) : e <= Len(coverage)
    BY <1>3 DEF DecisionsOf
  <2>2. \A i \in RowsOf(rows, m) : i \in Nat /\ i > 0
    BY <1>3 DEF RowsOf
  <2>3. QED
    BY <1>3, <2>1, <2>2
<1>8. Cardinality(DecisionsOf(m)') = Cardinality(DecisionsOf(m)) + Cardinality(RowsOf(rows, m))
  <2>1. Cardinality(DecisionsOf(m) \cap new) = 0
    BY <1>7, FS_EmptySet
  <2>2. /\ Cardinality(DecisionsOf(m)) \in Nat /\ Cardinality(new) \in Nat
    BY <1>2, <1>5, FS_CardinalityType
  <2> HIDE DEF new
  <2>3. Cardinality(DecisionsOf(m) \cup new) =
          Cardinality(DecisionsOf(m)) + Cardinality(new) - Cardinality(DecisionsOf(m) \cap new)
    BY <1>2, <1>5, FS_Union
  <2>4. QED
    BY <1>5, <1>6, <2>1, <2>2, <2>3
<1>9. Cardinality(DecisionsOf(m)) \in Nat /\ Cardinality(RowsOf(rows, m)) \in Nat
  BY <1>2, <1>4, FS_CardinalityType
<1>10. QED
  BY <1>2, <1>8, <1>9

-----------------------------------------------------------------------------
(* BookLines.  A line shows the member of its receipt number and the amount of  *)
(* the payment in force.                                                    *)

LinesShow ==
  \A p, q \in DOMAIN payments :
    q \in InForce(p) =>
      BookLines[Number(p)] = [member |-> payments[p].member, amount |-> payments[q].amount]

LEMMA NumbersAreChains ==
  ASSUME NEW p, NEW q
  PROVE  Number(p) = Number(q) <=> SameChain(p, q)
BY DEF Number, SameChain

LEMMA LinesShowHolds == Spec => []LinesShow
<1>1. TypeOK /\ CorrectionsAreLinked /\ ReceiptInv /\ ChainInv => LinesShow
  <2>1. SUFFICES ASSUME TypeOK, CorrectionsAreLinked, ReceiptInv, ChainInv,
                        NEW p \in DOMAIN payments, NEW q \in DOMAIN payments,
                        q \in InForce(p)
                 PROVE  BookLines[Number(p)] = [member |-> payments[p].member,
                                            amount |-> payments[q].amount]
    BY DEF LinesShow
  <2> DEFINE first(o) == Number(o) = Number(p) /\ payments[o].kind = "original"
  <2>2. \E o \in DOMAIN payments : first(o)
    <3>1. PICK o \in DOMAIN payments : SameChain(p, o) /\ payments[o].kind = "original"
      BY <2>1 DEF ChainInv, ChainHolds
    <3>2. QED
      BY <3>1, NumbersAreChains
  <2>3. PICK o : o = CHOOSE x \in DOMAIN payments : first(x)
    OBVIOUS
  <2>4. o \in DOMAIN payments /\ first(o)
    BY <2>2, <2>3
  <2>5. SameChain(p, o)
    BY <2>4, NumbersAreChains
  <2>6. payments[o].member = payments[p].member
    BY <2>1, <2>4, <2>5 DEF ChainInv, ChainHolds
  <2>7. InForce(p) = {Forward[o]}
    BY <2>1, <2>4, <2>5, ForwardFinds, InForceOfAChain
  <2>8. q = Forward[o]
    BY <2>1, <2>7
  <2>9. Line(Number(p)) = [member |-> payments[o].member, amount |-> payments[q].amount]
    BY <2>3, <2>8 DEF Line
  <2>10. Number(p) \in Numbers
    BY <2>1 DEF Numbers
  <2>11. QED
    BY <2>6, <2>9, <2>10 DEF BookLines
<1>2. QED
  BY <1>1, TypeCorrect, CorrectionsLinked, ReceiptInvHolds, ChainInvHolds, PTL

\* A line stays while nothing of its chain is newly corrected.
LEMMA LineStays ==
  ASSUME ChainInv, LinesShow, LinesShow', NEW p \in DOMAIN payments,
         DOMAIN payments \subseteq DOMAIN payments',
         \A q \in DOMAIN payments : payments'[q] = payments[q],
         \A q \in DOMAIN payments :
           SameChain(p, q) /\ ~ Superseded(q) => ~ Superseded(q)'
  PROVE  /\ Number(p)' = Number(p)
         /\ BookLines'[Number(p)] = BookLines[Number(p)]
<1>1. PICK q \in DOMAIN payments : InForce(p) = {q}
  BY DEF ChainInv, ChainHolds
<1>2. SameChain(p, q) /\ payments[q].kind # "reversal" /\ ~ Superseded(q)
  BY <1>1 DEF InForce
<1>3. SameChain(p, q)' /\ payments'[q].kind # "reversal" /\ ~ Superseded(q)'
  BY <1>2 DEF SameChain
<1>4. q \in InForce(p)'
  BY <1>3 DEF InForce
<1>5. Number(p)' = Number(p)
  BY DEF Number
<1>6. BookLines[Number(p)] = [member |-> payments[p].member, amount |-> payments[q].amount]
  BY <1>1 DEF LinesShow
<1>7. BookLines'[Number(p)'] = [member |-> payments'[p].member, amount |-> payments'[q].amount]
  BY <1>4 DEF LinesShow
<1>8. QED
  BY <1>5, <1>6, <1>7

-----------------------------------------------------------------------------
(* Every step of the ledger is a step of the books, or none.               *)

OneDecisionAbout(m) ==
  /\ DOMAIN coverage' = DOMAIN coverage \cup {Len(coverage) + 1}
  /\ \A e \in DOMAIN coverage : coverage'[e] = coverage[e]
  /\ coverage'[Len(coverage) + 1].member = m

OneDecisionPerRow(rows) ==
  /\ Len(coverage') = Len(coverage) + Len(rows)
  /\ \A e \in 1 .. Len(coverage) : coverage'[e] = coverage[e]
  /\ \A i \in 1 .. Len(rows) : coverage'[Len(coverage) + i].member = rows[i].member

LEMMA DecideIsOneDecision ==
  ASSUME TypeOK, NEW m \in Members, NEW paid \in Dates, NEW reason \in Reasons,
         NEW payment \in Nat, (reason \in {"payment", "correction"}) = (payment # 0),
         coverage' = Decide(m, paid, reason, payment)
  PROVE  OneDecisionAbout(m)
<1> DEFINE new == [member |-> m, paid |-> paid, reason |-> reason,
                   payment |-> payment, supersedes |-> EffectiveCoverage(m)]
<1>1. coverage \in Seq(Decision) /\ Len(coverage) \in Nat
  BY DEF TypeOK
<1>2. coverage' = Append(coverage, new)
  BY DEF Decide
<1>3. new \in Decision
  BY <1>1, EffectiveCoverageIsAnId DEF Decision
<1>4. new.member = m
  OBVIOUS
<1> HIDE DEF new
<1>5. /\ DOMAIN coverage' = 1 .. Len(coverage) + 1
      /\ \A e \in 1 .. Len(coverage) : coverage'[e] = coverage[e]
      /\ coverage'[Len(coverage) + 1] = new
  BY <1>1, <1>2, <1>3, AppendProperties
<1>6. DOMAIN coverage = 1 .. Len(coverage)
  BY <1>1
<1>7. QED
  BY <1>1, <1>4, <1>5, <1>6 DEF OneDecisionAbout

LEMMA PostRowsDecidePerRow ==
  ASSUME coverage \in Seq(Decision), NEW b, NEW rows \in Seq(Entry), PostRows(b, rows)
  PROVE  OneDecisionPerRow(rows)
<1> DEFINE gs == [i \in DOMAIN rows |-> Grant(rows, i)]
<1>1. Len(coverage) \in Nat /\ Len(rows) \in Nat /\ DOMAIN rows = 1 .. Len(rows)
  OBVIOUS
<1>2. coverage' = coverage \o gs /\ Len(gs) = Len(rows)
  BY <1>1 DEF PostRows
<1>3. /\ Len(coverage') = Len(coverage) + Len(rows)
      /\ \A e \in 1 .. Len(coverage) : coverage'[e] = coverage[e]
      /\ \A i \in 1 .. Len(rows) : coverage'[Len(coverage) + i] = Grant(rows, i)
  BY <1>1, <1>2
<1>4. ASSUME NEW i \in 1 .. Len(rows)
      PROVE  coverage'[Len(coverage) + i].member = rows[i].member
  <2>1. coverage'[Len(coverage) + i] = Grant(rows, i)
    BY <1>3
  <2>2. Grant(rows, i).member = rows[i].member
    BY DEF Grant
  <2>3. QED
    BY <2>1, <2>2
<1>5. QED
  BY <1>3, <1>4 DEF OneDecisionPerRow

\* A batch of at least one row is posted.
PostsRows(b) ==
  /\ PostsBatch(b)
  /\ entries'[b] \in Seq(Entry) /\ entries'[b] # <<>>
  /\ OneDecisionPerRow(entries'[b])

\* A payment is corrected, and its member may get a new date.
CorrectsLine(p, n, amount) ==
  /\ CorrectsPayment(p, n, amount)
  /\ UNCHANGED coverage \/ OneDecisionAbout(payments[p].member)

LEMMA BookStepCases ==
  ASSUME TypeOK, [Next]_vars
  PROVE  \/ UNCHANGED <<payments, corrections, coverage>>
         \/ /\ UNCHANGED <<payments, corrections>>
            /\ \E m \in Members : OneDecisionAbout(m)
         \/ \E b \in Nat : PostsRows(b)
         \/ \E p \in DOMAIN payments, n \in Nat, amount \in Amounts :
              CorrectsLine(p, n, amount)
<1>1. CASE UNCHANGED vars
  BY <1>1 DEF vars
<1>2. CASE DraftStep
  <2>1. \A a, k : OpenBatch(a, k) => UNCHANGED <<payments, corrections, coverage>>
    BY DEF OpenBatch
  <2>2. \A b, expected :
          UpdateBatch(b, expected) => UNCHANGED <<payments, corrections, coverage>>
    BY DEF UpdateBatch
  <2>3. \A b, expected :
          AbandonBatch(b, expected) => UNCHANGED <<payments, corrections, coverage>>
    BY DEF AbandonBatch
  <2>4. \A a, k, b, id, m, amount, paid :
          AddEntry(a, k, b, id, m, amount, paid) =>
            UNCHANGED <<payments, corrections, coverage>>
    BY DEF AddEntry
  <2>5. \A b, i, expected, m, amount, paid :
          UpdateEntry(b, i, expected, m, amount, paid) =>
            UNCHANGED <<payments, corrections, coverage>>
    BY DEF UpdateEntry
  <2>6. \A b, i, expected :
          DeleteEntry(b, i, expected) => UNCHANGED <<payments, corrections, coverage>>
    BY DEF DeleteEntry
  <2>7. QED
    BY <1>2, <2>1, <2>2, <2>3, <2>4, <2>5, <2>6 DEF DraftStep
<1>3. CASE PostingStep
  <2>1. ASSUME NEW a, NEW k, NEW b \in DOMAIN batches, NEW expected,
               Post(a, k, b, expected)
        PROVE  \E c \in Nat : PostsRows(c)
    <3>1. b \in Nat /\ entries[b] \in Seq(Entry) /\ entries' = entries
      BY <2>1 DEF TypeOK, Post
    <3>2. OneDecisionPerRow(entries[b])
      BY <2>1, <3>1, PostRowsDecidePerRow DEF Post, TypeOK
    <3>3. PostsBatch(b) /\ entries[b] # <<>>
      BY <2>1, PostPostsBatch DEF Post
    <3>4. QED
      BY <3>1, <3>2, <3>3 DEF PostsRows
  <2>2. ASSUME NEW a, NEW k, NEW id \in 1 .. EntryIdLimit, NEW m \in Members,
               NEW amount \in Amounts, NEW paid \in Dates,
               PostSingle(a, k, id, m, amount, paid)
        PROVE  \E c \in Nat : PostsRows(c)
    <3>1. PICK b, rows : /\ b = Len(batches) + 1
                         /\ rows = <<[id |-> id, seq |-> 1, member |-> m,
                                      amount |-> amount, paid |-> paid,
                                      version |-> 1]>>
      OBVIOUS
    <3>2. rows \in Seq(Entry) /\ Len(rows) = 1 /\ b \in Nat
      BY <3>1, LimitsAreNumbers DEF Entry, TypeOK
    <3>3. PostRows(b, rows) /\ entries' = Append(entries, rows)
      BY <2>2, <3>1 DEF PostSingle
    <3>4. entries'[b] = rows
      BY <3>1, <3>2, <3>3 DEF TypeOK
    <3>5. OneDecisionPerRow(rows)
      BY <3>2, <3>3, PostRowsDecidePerRow DEF TypeOK
    <3>6. PostsBatch(b)
      BY <2>2, <3>1, PostSinglePostsBatch
    <3>7. rows # <<>>
      BY <3>2
    <3>8. QED
      BY <3>2, <3>4, <3>5, <3>6, <3>7 DEF PostsRows
  <2>3. ASSUME NEW a, NEW k, NEW p \in DOMAIN payments,
               NEW expected \in 0 .. CorrectionLimit, NEW amount \in Amounts,
               NEW paid \in Dates, Correct(a, k, p, expected, amount, paid)
        PROVE  \E q \in DOMAIN payments, n \in Nat, cents \in Amounts :
                 CorrectsLine(q, n, cents)
    <3>1. expected + 1 \in Nat
      BY LimitsAreNumbers
    <3>2. CorrectsPayment(p, expected + 1, amount)
      BY <2>3, CorrectCorrectsPayment
    <3>3. PICK r : r = Len(payments) + 2
      OBVIOUS
    <3>4. r \in Nat /\ r # 0
      BY <3>3 DEF TypeOK
    <3>5. \/ UNCHANGED coverage
          \/ coverage' = Decide(payments[p].member, paid, "correction", r)
      BY <2>3, <3>3 DEF Correct, RestateCoverage
    <3>6. payments[p].member \in Members
      BY PaymentFields
    <3>7. "correction" \in Reasons
      BY DEF Reasons
    <3>8. UNCHANGED coverage \/ OneDecisionAbout(payments[p].member)
      BY <3>4, <3>5, <3>6, <3>7, DecideIsOneDecision
    <3>9. QED
      BY <3>1, <3>2, <3>8 DEF CorrectsLine
  <2>4. QED
    BY <1>3, <2>1, <2>2, <2>3 DEF PostingStep
<1>4. CASE DecisionStep
  <2>1. PICK m \in Members, paid \in Dates :
          AdjustCoverage(m, paid) \/ ImportCoverage(m, paid)
    BY <1>4 DEF DecisionStep
  <2>2. PICK reason \in {"adjustment", "import"} : coverage' = Decide(m, paid, reason, 0)
    BY <2>1 DEF AdjustCoverage, ImportCoverage
  <2>3. reason \in Reasons /\ (reason \in {"payment", "correction"}) = (0 # 0)
    BY <2>2 DEF Reasons
  <2>4. OneDecisionAbout(m)
    BY <2>2, <2>3, DecideIsOneDecision
  <2>5. UNCHANGED <<payments, corrections>>
    BY <2>1 DEF AdjustCoverage, ImportCoverage
  <2>6. QED
    BY <2>4, <2>5
<1>5. QED
  BY <1>1, <1>2, <1>3, <1>4 DEF Next

LEMMA StepExtendsHistory ==
  ASSUME TypeOK, [Next]_vars
  PROVE  ExtendsHistory
<1>1. CASE UNCHANGED vars
  <2>1. Len(coverage) \in Nat /\ coverage' = coverage
    BY <1>1 DEF vars, TypeOK
  <2>2. Len(coverage) + 1 .. Len(coverage) = {}
    BY <2>1
  <2>3. QED
    BY <2>1, <2>2 DEF ExtendsHistory
<1>2. QED
  BY <1>1, NextExtendsHistory

\* The operators of the books, read by the ledger's mapping.
LEMMA BooksOperators ==
  /\ \A S : B!Cardinality(S) = Cardinality(S)
  /\ \A s, t : B!IsPrefix(s, t) = IsPrefix(s, t)
  /\ \A m : B!Added(m) = Len(BookHistories'[m]) - Len(BookHistories[m])
  /\ B!NewLines = DOMAIN BookLines' \ DOMAIN BookLines
BY DEF B!Cardinality, Cardinality, B!IsPrefix, IsPrefix, B!Added, B!NewLines

LEMMA HistoryGrows ==
  ASSUME TypeOK, TypeOK', HistoriesShow, HistoriesShow', SupersedesLatest, [Next]_vars
  PROVE  B!HistoryOnlyGrows
<1>1. ExtendsHistory
  BY StepExtendsHistory
<1>2. DOMAIN BookHistories' = Members
  BY DEF BookHistories
<1>3. \A m \in Members : IsPrefix(BookHistories[m], BookHistories'[m])
  BY <1>1, HistoriesExtend
<1>4. QED
  BY <1>2, <1>3, BooksOperators DEF B!HistoryOnlyGrows

LEMMA HistoryStays ==
  ASSUME HistoriesShow, HistoriesShow', UNCHANGED coverage, NEW m \in Members
  PROVE  Len(BookHistories'[m]) - Len(BookHistories[m]) = 0
<1>1. HistoryShows(m) /\ HistoryShows(m)'
  BY DEF HistoriesShow
<1>2. /\ Len(BookHistories[m]) = Cardinality(DecisionsOf(m))
      /\ Len(BookHistories'[m]) = Cardinality(DecisionsOf(m)')
      /\ IsFiniteSet(DecisionsOf(m))
  BY <1>1 DEF HistoryShows
<1>3. DecisionsOf(m)' = DecisionsOf(m)
  BY DEF DecisionsOf
<1>4. Cardinality(DecisionsOf(m)) \in Nat
  BY <1>2, FS_CardinalityType
<1>5. QED
  BY <1>2, <1>3, <1>4

LEMMA HistoriesUnchanged ==
  ASSUME TypeOK, TypeOK', HistoriesShow, HistoriesShow', SupersedesLatest,
         [Next]_vars, UNCHANGED coverage
  PROVE  BookHistories' = BookHistories
<1>1. ASSUME NEW m \in Members
      PROVE  BookHistories'[m] = BookHistories[m]
  <2>1. PICK s, t : s = BookHistories[m] /\ t = BookHistories'[m]
    OBVIOUS
  <2>2. s \in Seq(Dates) /\ t \in Seq(Dates)
    BY <2>1 DEF HistoriesShow, HistoryShows
  <2>3. IsPrefix(s, t)
    BY <2>1, StepExtendsHistory, HistoriesExtend
  <2>4. Len(t) - Len(s) = 0 /\ Len(s) \in Nat /\ Len(t) \in Nat
    BY <2>1, <2>2, HistoryStays
  <2>5. Len(t) = Len(s)
    BY <2>4
  <2>6. \A i \in 1 .. Len(s) : s[i] = t[i]
    BY <2>2, <2>3, PrefixIsPointwise
  <2>7. s = t
    BY <2>2, <2>5, <2>6, SeqEqual
  <2>8. QED
    BY <2>1, <2>7
<1>2. /\ BookHistories = [m \in Members |-> BookHistories[m]]
      /\ BookHistories' = [m \in Members |-> BookHistories'[m]]
  BY DEF BookHistories
<1>3. [m \in Members |-> BookHistories'[m]] = [m \in Members |-> BookHistories[m]]
  BY <1>1
<1>4. QED
  BY <1>2, <1>3

LEMMA LinesUnchanged ==
  ASSUME ChainInv, LinesShow, LinesShow', UNCHANGED <<payments, corrections>>
  PROVE  BookLines' = BookLines
<1>1. Numbers' = Numbers
  BY DEF Numbers, Number
<1>2. \A q : Superseded(q)' = Superseded(q)
  BY DEF Superseded
<1>3. ASSUME NEW r \in Numbers
      PROVE  BookLines'[r] = BookLines[r]
  <2>1. PICK p \in DOMAIN payments : r = Number(p)
    BY DEF Numbers
  <2>2. BookLines'[Number(p)] = BookLines[Number(p)]
    BY <1>2, LineStays
  <2>3. QED
    BY <2>1, <2>2
<1>4. /\ BookLines = [r \in Numbers |-> BookLines[r]]
      /\ BookLines' = [r \in Numbers' |-> BookLines'[r]]
  BY DEF BookLines
<1>5. [r \in Numbers |-> BookLines'[r]] = [r \in Numbers |-> BookLines[r]]
  BY <1>3
<1>6. QED
  BY <1>1, <1>4, <1>5

-----------------------------------------------------------------------------
(* A posting adds one line for each of its rows.                           *)

RowNumber(b, rows, i) == <<b, rows[i].seq>>

RowNumbers(b, rows) == {RowNumber(b, rows, i) : i \in 1 .. Len(rows)}

LEMMA RowNumbersDiffer ==
  ASSUME NEW b, NEW rows \in Seq(Entry), InOrder(rows),
         NEW i \in 1 .. Len(rows), NEW j \in 1 .. Len(rows), i # j
  PROVE  RowNumber(b, rows, i) # RowNumber(b, rows, j)
<1>1. i \in DOMAIN rows /\ j \in DOMAIN rows /\ i \in Nat /\ j \in Nat
  OBVIOUS
<1>2. rows[i].seq \in Nat /\ rows[j].seq \in Nat
  <2>1. rows[i] \in Entry /\ rows[j] \in Entry
    BY <1>1
  <2>2. QED
    BY <2>1 DEF Entry
<1>3. i < j \/ j < i
  BY <1>1
<1>4. rows[i].seq < rows[j].seq \/ rows[j].seq < rows[i].seq
  BY <1>1, <1>3 DEF InOrder
<1>5. rows[i].seq # rows[j].seq
  BY <1>2, <1>4
<1>6. QED
  BY <1>5 DEF RowNumber

LEMMA PostedNumbers ==
  ASSUME TypeOK, TypeOK', ReceiptInv, [Next]_vars, NEW b \in Nat, PostsRows(b),
         NEW rows, rows = entries'[b]
  PROVE  /\ rows \in Seq(Entry) /\ 1 \in 1 .. Len(rows)
         /\ \A i \in 1 .. Len(rows) :
              \E p \in DOMAIN payments' :
                /\ p = Len(payments) + i
                /\ payments'[p] = Original(b, rows[i])
                /\ Number(p)' = RowNumber(b, rows, i)
         /\ Numbers \subseteq Numbers'
         /\ Numbers' \ Numbers = RowNumbers(b, rows)
<1>1. /\ PostsBatch(b) /\ rows \in Seq(Entry) /\ rows # <<>>
  BY DEF PostsRows
<1>2. /\ DOMAIN payments \subseteq DOMAIN payments'
      /\ \A q \in DOMAIN payments : payments'[q] = payments[q]
  BY PaymentsGrow
<1>3. /\ Len(payments) \in Nat /\ Len(rows) \in Nat
      /\ DOMAIN payments' = 1 .. Len(payments')
      /\ Len(payments') = Len(payments) + Len(rows)
  <2>1. payments \in Seq(Payment) /\ payments' \in Seq(Payment)
    BY DEF TypeOK
  <2>2. Len(payments') = Len(payments) + Len(rows)
    BY <1>1 DEF PostsBatch
  <2>3. QED
    BY <1>1, <2>1, <2>2
<1>4. 1 \in 1 .. Len(rows)
  BY <1>1, <1>3, EmptySeq
<1>5. ASSUME NEW i \in 1 .. Len(rows)
      PROVE  \E p \in DOMAIN payments' :
               /\ p = Len(payments) + i
               /\ payments'[p] = Original(b, rows[i])
               /\ Number(p)' = RowNumber(b, rows, i)
  <2>1. PICK p \in DOMAIN payments' : p = Len(payments) + i
    BY <1>3
  <2>2. payments'[p] = Original(b, rows[i])
    BY <1>1, <2>1 DEF PostsBatch
  <2>4. /\ payments'[p].receipt.batch = b /\ payments'[p].receipt.seq = rows[i].seq
    BY <2>2 DEF Original
  <2>5. Number(p)' = RowNumber(b, rows, i)
    BY <2>4 DEF Number, RowNumber
  <2>6. QED
    BY <2>1, <2>2, <2>5
<1>6. \A q \in DOMAIN payments : Number(q)' = Number(q)
  BY <1>2 DEF Number
<1>7. Numbers \subseteq Numbers'
  BY <1>2, <1>6 DEF Numbers
<1>8. \A q \in DOMAIN payments : Number(q)[1] # b
  BY <1>1 DEF ReceiptInv, PaymentsArePosted, PostsBatch, Number
<1>9. ASSUME NEW i \in 1 .. Len(rows)
      PROVE  RowNumber(b, rows, i) \in Numbers' \ Numbers
  <2>1. RowNumber(b, rows, i) \in Numbers'
    <3>1. PICK p \in DOMAIN payments' : Number(p)' = RowNumber(b, rows, i)
      BY <1>5
    <3>2. QED
      BY <3>1 DEF Numbers
  <2>2. RowNumber(b, rows, i)[1] = b
    BY DEF RowNumber
  <2>3. QED
    BY <1>8, <2>1, <2>2 DEF Numbers
<1>10. ASSUME NEW r \in Numbers', r \notin Numbers
       PROVE  r \in RowNumbers(b, rows)
  <2>1. PICK p \in DOMAIN payments' : r = Number(p)'
    BY <1>10 DEF Numbers
  <2>2. p \notin DOMAIN payments
    BY <1>6, <1>10, <2>1 DEF Numbers
  <2>3. PICK i \in DOMAIN rows : p = Len(payments) + i
    BY <1>1, <2>1, <2>2, PostedRows
  <2>4. i \in 1 .. Len(rows)
    BY <1>1, <2>3
  <2>5. PICK q \in DOMAIN payments' :
          q = Len(payments) + i /\ Number(q)' = RowNumber(b, rows, i)
    BY <1>5, <2>4
  <2>6. p = q
    BY <2>3, <2>5
  <2>7. QED
    BY <2>1, <2>4, <2>5, <2>6 DEF RowNumbers
<1>11. Numbers' \ Numbers = RowNumbers(b, rows)
  BY <1>9, <1>10 DEF RowNumbers
<1>12. QED
  BY <1>1, <1>4, <1>5, <1>7, <1>11

LEMMA PostedLine ==
  ASSUME ChainInv', LinesShow', NEW p \in DOMAIN payments'
  PROVE  BookLines'[Number(p)'].member = payments'[p].member
<1>1. PICK q \in DOMAIN payments' : InForce(p)' = {q}
  BY DEF ChainInv, ChainHolds
<1>2. q \in InForce(p)'
  BY <1>1
<1>3. BookLines'[Number(p)'] = [member |-> payments'[p].member, amount |-> payments'[q].amount]
  BY <1>2 DEF LinesShow
<1>4. QED
  BY <1>3

LEMMA PostingIsPostBatch ==
  ASSUME TypeOK, TypeOK', ReceiptInv, RowsInOrder', ChainInv, ChainInv',
         LinesShow, LinesShow', HistoriesShow, HistoriesShow', SupersedesLatest,
         [Next]_vars, NEW b \in Nat, PostsRows(b)
  PROVE  B!PostBatch
<1>1. PICK rows : rows = entries'[b]
  OBVIOUS
<1>2. /\ rows \in Seq(Entry) /\ 1 \in 1 .. Len(rows)
      /\ \A i \in 1 .. Len(rows) :
           \E p \in DOMAIN payments' :
             /\ p = Len(payments) + i
             /\ payments'[p] = Original(b, rows[i])
             /\ Number(p)' = RowNumber(b, rows, i)
      /\ Numbers \subseteq Numbers'
      /\ Numbers' \ Numbers = RowNumbers(b, rows)
  BY <1>1, PostedNumbers
<1>3. DOMAIN BookLines = Numbers /\ DOMAIN BookLines' = Numbers'
  BY DEF BookLines
<1>4. B!NewLines = RowNumbers(b, rows)
  BY <1>2, <1>3, BooksOperators
<1>5. B!NewLines # {}
  BY <1>2, <1>4 DEF RowNumbers
<1>6. B!NewLines \subseteq Nat \X Nat
  <2>1. \A i \in 1 .. Len(rows) : rows[i].seq \in Nat
    <3>1. \A i \in 1 .. Len(rows) : rows[i] \in Entry
      BY <1>2
    <3>2. QED
      BY <3>1 DEF Entry
  <2>2. QED
    BY <1>4, <2>1 DEF RowNumbers, RowNumber
<1>7. \A r \in DOMAIN BookLines : BookLines'[r] = BookLines[r]
  <2>1. /\ DOMAIN payments \subseteq DOMAIN payments'
        /\ \A q \in DOMAIN payments : payments'[q] = payments[q]
        /\ corrections' = corrections
    BY PaymentsGrow DEF PostsRows, PostsBatch
  <2>2. \A q : Superseded(q)' = Superseded(q)
    BY <2>1 DEF Superseded
  <2>3. \A p \in DOMAIN payments : BookLines'[Number(p)] = BookLines[Number(p)]
    BY <2>1, <2>2, LineStays
  <2>4. QED
    BY <1>3, <2>3 DEF Numbers
<1>8. \A i \in 1 .. Len(rows) : BookLines'[RowNumber(b, rows, i)].member = rows[i].member
  <2>1. SUFFICES ASSUME NEW i \in 1 .. Len(rows)
                 PROVE  BookLines'[RowNumber(b, rows, i)].member = rows[i].member
    OBVIOUS
  <2>2. PICK p \in DOMAIN payments' :
          /\ payments'[p] = Original(b, rows[i])
          /\ Number(p)' = RowNumber(b, rows, i)
    BY <1>2
  <2>3. BookLines'[Number(p)'].member = payments'[p].member
    BY PostedLine
  <2>4. payments'[p].member = rows[i].member
    BY <2>2 DEF Original
  <2>5. QED
    BY <2>2, <2>3, <2>4
<1>9. ASSUME NEW m \in Members
      PROVE  B!Added(m) = B!Cardinality({r \in B!NewLines : BookLines'[r].member = m})
  <2> DEFINE new == {r \in B!NewLines : BookLines'[r].member = m}
             f == [i \in RowsOf(rows, m) |-> RowNumber(b, rows, i)]
  <2>1. OneDecisionPerRow(rows)
    BY <1>1 DEF PostsRows
  <2>2. Len(BookHistories'[m]) - Len(BookHistories[m]) = Cardinality(RowsOf(rows, m))
    BY <1>2, <2>1, GrantsAdd DEF OneDecisionPerRow
  <2>3. IsFiniteSet(RowsOf(rows, m))
    <3>1. Len(rows) \in Nat /\ RowsOf(rows, m) \subseteq 1 .. Len(rows)
      BY <1>2 DEF RowsOf
    <3>2. IsFiniteSet(1 .. Len(rows))
      BY <3>1, FS_Interval
    <3>3. QED
      BY <3>1, <3>2, FS_Subset
  <2>4. f \in [RowsOf(rows, m) -> new]
    BY <1>4, <1>8 DEF RowsOf, RowNumbers
  <2>5. \A i, j \in RowsOf(rows, m) : f[i] = f[j] => i = j
    <3>1. b \in DOMAIN entries'
      BY DEF PostsRows, PostsBatch, TypeOK
    <3>2. InOrder(rows)
      BY <1>1, <3>1 DEF RowsInOrder, InOrder
    <3>3. QED
      BY <1>2, <3>2, RowNumbersDiffer DEF RowsOf
  <2>6. \A y \in new : \E i \in RowsOf(rows, m) : f[i] = y
    BY <1>4, <1>8 DEF RowsOf, RowNumbers
  <2>7. QED
    <3>1. PICK g, lines : g = f /\ lines = new
      OBVIOUS
    <3>2. /\ g \in [RowsOf(rows, m) -> lines]
          /\ \A i, j \in RowsOf(rows, m) : g[i] = g[j] => i = j
          /\ \A y \in lines : \E i \in RowsOf(rows, m) : g[i] = y
      BY <2>4, <2>5, <2>6, <3>1
    <3>3. g \in Injection(RowsOf(rows, m), lines) /\ g \in Surjection(RowsOf(rows, m), lines)
      BY <3>2 DEF Injection, IsInjective, Surjection
    <3>4. ExistsBijection(RowsOf(rows, m), lines)
      BY <3>3 DEF ExistsBijection, Bijection
    <3>5. Cardinality(lines) = Cardinality(RowsOf(rows, m))
      BY <2>3, <3>4, FS_Bijection
    <3>6. QED
      BY <2>2, <3>1, <3>5, BooksOperators
<1>10. B!HistoryOnlyGrows
  BY HistoryGrows
<1>11. QED
  BY <1>2, <1>3, <1>5, <1>6, <1>7, <1>9, <1>10 DEF B!PostBatch

-----------------------------------------------------------------------------
(* A correction restates the line of its receipt number.                   *)

LEMMA CorrectingKeepsNumbers ==
  ASSUME TypeOK, TypeOK', NEW p \in DOMAIN payments, NEW n \in Nat,
         NEW amount \in Amounts, CorrectsPayment(p, n, amount), [Next]_vars
  PROVE  Numbers' = Numbers
<1>1. PICK r, s : r = Len(payments) + 1 /\ s = Len(payments) + 2
  OBVIOUS
<1>2. /\ DOMAIN payments \subseteq DOMAIN payments'
      /\ \A q \in DOMAIN payments : payments'[q] = payments[q]
  BY PaymentsGrow
<1>3. DOMAIN payments' = DOMAIN payments \cup {r, s}
  <2>1. /\ DOMAIN payments = 1 .. Len(payments) /\ Len(payments) \in Nat
        /\ DOMAIN payments' = 1 .. Len(payments')
    BY DEF TypeOK
  <2>2. Len(payments') = s
    BY <1>1, CorrectionRows
  <2>3. QED
    BY <1>1, <2>1, <2>2
<1>4. /\ payments'[r].receipt = Marked(payments[p].receipt, "R", n)
      /\ payments'[s].receipt = Marked(payments[p].receipt, "C", n)
  BY <1>1, CorrectionRows
<1>5. payments[p].receipt \in Receipt
  BY PaymentFields
<1>6. Number(r)' = Number(p) /\ Number(s)' = Number(p)
  BY <1>4, <1>5, MarkedKeepsNumber DEF Number
<1>7. \A q \in DOMAIN payments : Number(q)' = Number(q)
  BY <1>2 DEF Number
<1>8. QED
  BY <1>3, <1>6, <1>7 DEF Numbers

LEMMA CorrectingIsRestate ==
  ASSUME TypeOK, TypeOK', CorrectionsAreLinked, ChainInv, ChainInv',
         LinesShow, LinesShow', HistoriesShow, HistoriesShow', SupersedesLatest,
         [Next]_vars, NEW p \in DOMAIN payments, NEW n \in Nat,
         NEW amount \in Amounts, CorrectsLine(p, n, amount)
  PROVE  Number(p) \in DOMAIN BookLines /\ B!Restate(Number(p))
<1>1. CorrectsPayment(p, n, amount)
  BY DEF CorrectsLine
<1>2. /\ DOMAIN payments \subseteq DOMAIN payments'
      /\ \A q \in DOMAIN payments : payments'[q] = payments[q]
  BY PaymentsGrow
<1>3. /\ DOMAIN BookLines' = DOMAIN BookLines /\ DOMAIN BookLines = Numbers
      /\ Number(p) \in DOMAIN BookLines
  BY <1>1, CorrectingKeepsNumbers DEF BookLines, Numbers
<1>4. \A q : Superseded(q)' <=> Superseded(q) \/ q = p
  BY <1>1, CorrectingSupersedes
<1>5. ASSUME NEW s \in DOMAIN BookLines \ {Number(p)}
      PROVE  BookLines'[s] = BookLines[s]
  <2>1. PICK q \in DOMAIN payments : s = Number(q)
    BY <1>3 DEF Numbers
  <2>2. ~ SameChain(q, p)
    BY <2>1, NumbersAreChains
  <2>3. \A x \in DOMAIN payments :
          SameChain(q, x) /\ ~ Superseded(x) => ~ Superseded(x)'
    BY <1>4, <2>2
  <2>4. BookLines'[Number(q)] = BookLines[Number(q)]
    BY <1>2, <2>3, LineStays
  <2>5. QED
    BY <2>1, <2>4
<1>6. BookLines[Number(p)].member = payments[p].member
  <2>1. PICK q \in DOMAIN payments : InForce(p) = {q}
    BY DEF ChainInv, ChainHolds
  <2>2. q \in InForce(p)
    BY <2>1
  <2>3. BookLines[Number(p)] = [member |-> payments[p].member, amount |-> payments[q].amount]
    BY <2>2 DEF LinesShow
  <2>4. QED
    BY <2>3
<1>7. BookLines'[Number(p)].member = BookLines[Number(p)].member
  <2>1. BookLines'[Number(p)'].member = payments'[p].member
    BY <1>2, PostedLine
  <2>2. Number(p)' = Number(p) /\ payments'[p] = payments[p]
    BY <1>2 DEF Number
  <2>3. QED
    BY <1>6, <2>1, <2>2
<1>8. B!HistoryOnlyGrows
  BY HistoryGrows
<1>9. ASSUME NEW m \in Members
      PROVE  B!Added(m) \in IF m = BookLines[Number(p)].member THEN {0, 1} ELSE {0}
  <2>1. CASE UNCHANGED coverage
    <3>1. B!Added(m) = 0
      BY <2>1, HistoryStays, BooksOperators
    <3>2. QED
      BY <3>1
  <2>2. CASE OneDecisionAbout(payments[p].member)
    <3>1. PICK o, k : o = payments[p].member /\ k = Len(coverage) + 1
      OBVIOUS
    <3>2. o \in Members /\ k \notin DOMAIN coverage
      BY <3>1, PaymentFields DEF TypeOK
    <3>3. /\ DOMAIN coverage' = DOMAIN coverage \cup {k}
          /\ \A e \in DOMAIN coverage : coverage'[e] = coverage[e]
          /\ coverage'[k].member = o
      BY <2>2, <3>1 DEF OneDecisionAbout
    <3>4. B!Added(m) = IF m = o THEN 1 ELSE 0
      BY <3>2, <3>3, DecisionAdds, BooksOperators
    <3>5. QED
      BY <1>6, <3>1, <3>4
  <2>3. QED
    BY <2>1, <2>2 DEF CorrectsLine
<1>10. QED
  BY <1>3, <1>5, <1>7, <1>8, <1>9 DEF B!Restate

LEMMA DecidingIsDecide ==
  ASSUME TypeOK, TypeOK', ChainInv, LinesShow, LinesShow', HistoriesShow,
         HistoriesShow', SupersedesLatest, [Next]_vars,
         UNCHANGED <<payments, corrections>>, NEW m \in Members, OneDecisionAbout(m)
  PROVE  B!Decide(m)
<1>1. PICK k : k = Len(coverage) + 1
  OBVIOUS
<1>2. k \notin DOMAIN coverage
  BY <1>1 DEF TypeOK
<1>3. /\ DOMAIN coverage' = DOMAIN coverage \cup {k}
      /\ \A e \in DOMAIN coverage : coverage'[e] = coverage[e]
      /\ coverage'[k].member = m
  BY <1>1 DEF OneDecisionAbout
<1>4. \A x \in Members : B!Added(x) = IF x = m THEN 1 ELSE 0
  BY <1>2, <1>3, DecisionAdds, BooksOperators
<1>5. BookLines' = BookLines
  BY LinesUnchanged
<1>6. QED
  BY <1>4, <1>5, HistoryGrows DEF B!Decide

LEMMA InitIsInit ==
  ASSUME Init
  PROVE  B!Init
<1>1. payments = <<>> /\ coverage = <<>>
  BY DEF Init
<1>2. DOMAIN payments = {} /\ DOMAIN coverage = {}
  BY <1>1
<1>3. Numbers = {}
  BY <1>2 DEF Numbers
<1>4. BookLines = <<>>
  <2>1. BookLines = [r \in {} |-> Line(r)]
    BY <1>3 DEF BookLines
  <2>2. \A x : x \in 1 .. 0 => FALSE
    OBVIOUS
  <2>3. 1 .. 0 = {}
    BY <2>2
  <2>4. BookLines = [r \in 1 .. 0 |-> 0]
    BY <2>1, <2>3
  <2>5. [r \in 1 .. 0 |-> 0] \in Seq(Nat) /\ Len([r \in 1 .. 0 |-> 0]) = 0
    OBVIOUS
  <2>6. QED
    BY <2>4, <2>5, EmptySeq
<1>5. BookHistories = [m \in Members |-> <<>>]
  BY <1>2 DEF BookHistories, Heads
<1>6. QED
  BY <1>4, <1>5 DEF B!Init

\* Books.tla, in the reader's view of this ledger.  Whatever posts, corrects,
\* adjusts or imports, in whatever order and for any number of members, amounts
\* and dates: the member and the number of a line are never rewritten, a posting
\* adds one line and one date for each of its rows, a correction restates exactly
\* one line, and nobody's earlier date disappears or moves.
THEOREM BooksImplemented == Spec => ImplementsBooks
<1>1. Init => B!Init
  BY InitIsInit
<1>2. /\ TypeOK /\ TypeOK' /\ SupersedesLatest /\ CorrectionsAreLinked /\ ReceiptInv
      /\ RowsInOrder' /\ ChainInv /\ ChainInv' /\ LinesShow /\ LinesShow'
      /\ HistoriesShow /\ HistoriesShow' /\ [Next]_vars
      => [B!Next]_(B!vars)
  <2>1. SUFFICES ASSUME TypeOK, TypeOK', SupersedesLatest, CorrectionsAreLinked,
                        ReceiptInv, RowsInOrder', ChainInv, ChainInv', LinesShow,
                        LinesShow', HistoriesShow, HistoriesShow', [Next]_vars
                 PROVE  [B!Next]_(B!vars)
    OBVIOUS
  <2>2. CASE UNCHANGED <<payments, corrections, coverage>>
    <3>1. BookLines' = BookLines /\ BookHistories' = BookHistories
      BY <2>1, <2>2, LinesUnchanged, HistoriesUnchanged
    <3>2. QED
      BY <3>1 DEF B!vars
  <2>3. CASE /\ UNCHANGED <<payments, corrections>>
             /\ \E m \in Members : OneDecisionAbout(m)
    <3>1. PICK m \in Members : OneDecisionAbout(m)
      BY <2>3
    <3>2. B!Decide(m)
      BY <2>1, <2>3, <3>1, DecidingIsDecide
    <3>3. QED
      BY <3>2 DEF B!Next
  <2>4. CASE \E b \in Nat : PostsRows(b)
    <3>1. PICK b \in Nat : PostsRows(b)
      BY <2>4
    <3>2. B!PostBatch
      BY <2>1, <3>1, PostingIsPostBatch
    <3>3. QED
      BY <3>2 DEF B!Next
  <2>5. CASE \E p \in DOMAIN payments, n \in Nat, amount \in Amounts :
               CorrectsLine(p, n, amount)
    <3>1. PICK p \in DOMAIN payments, n \in Nat, amount \in Amounts :
            CorrectsLine(p, n, amount)
      BY <2>5
    <3>2. Number(p) \in DOMAIN BookLines /\ B!Restate(Number(p))
      BY <2>1, <3>1, CorrectingIsRestate
    <3>3. QED
      BY <3>2 DEF B!Next
  <2>6. QED
    BY <2>1, <2>2, <2>3, <2>4, <2>5, BookStepCases
<1>3. QED
  BY <1>1, <1>2, TypeCorrect, LatestIsSuperseded, CorrectionsLinked, ReceiptInvHolds,
     RowsOrdered, ChainInvHolds, LinesShowHolds, HistoriesShowHolds,
     PTL DEF Spec, ImplementsBooks, B!Spec

-----------------------------------------------------------------------------
(* Sums over sets of payments.  MapThenSumSet takes the elements out one by *)
(* one, in an order nobody knows; the result is the same in any order.      *)

Total(f, S) ==
  LET iter[s \in SUBSET S] ==
        IF s = {} THEN 0
        ELSE LET x == CHOOSE y \in s : TRUE IN f[x].amount + iter[s \ {x}]
  IN  iter[S]

Chosen(s) == CHOOSE y \in s : TRUE

Adding(f, g, s) ==
  IF s = {} THEN 0 ELSE f[Chosen(s)].amount + g[s \ {Chosen(s)}]

Table(f, S) == CHOOSE g : g = [s \in SUBSET S |-> Adding(f, g, s)]

LEMMA TablesExist ==
  ASSUME NEW f, NEW S, IsFiniteSet(S)
  PROVE  \E g : g = [s \in SUBSET S |-> Adding(f, g, s)]
<1> DEFINE small(n) == {s \in SUBSET S : Cardinality(s) <= n}
           solves(g, n) == g = [s \in small(n) |-> Adding(f, g, s)]
           Bad == {n \in 0 .. Cardinality(S) : ~ \E g : solves(g, n)}
<1>1. /\ Cardinality(S) \in Nat
      /\ \A s \in SUBSET S : IsFiniteSet(s) /\ Cardinality(s) \in Nat
                             /\ Cardinality(s) <= Cardinality(S)
  BY FS_Subset, FS_CardinalityType
<1>2. ASSUME Bad # {} PROVE FALSE
  <2>1. Bad \in SUBSET Nat
    BY <1>1
  <2>2. PICK n \in Bad : \A x \in Bad : n <= x
    BY <1>2, <2>1, LeastNumber
  <2>3. n \in 0 .. Cardinality(S) /\ ~ \E g : solves(g, n)
    OBVIOUS
  <2>4. CASE n = 0
    <3> DEFINE g == [s \in small(n) |-> 0]
    <3>1. \A s \in small(n) : s = {}
      <4>1. \A s \in small(n) : Cardinality(s) = 0 /\ IsFiniteSet(s)
        BY <1>1, <2>4
      <4>2. QED
        BY <4>1, FS_EmptySet
    <3>2. [s \in small(n) |-> Adding(f, g, s)] = [s \in small(n) |-> 0]
      BY <3>1 DEF Adding
    <3>3. solves(g, n)
      BY <3>2
    <3>4. QED
      BY <2>3, <3>3
  <2>5. CASE n # 0
    <3>1. n - 1 \in 0 .. Cardinality(S) /\ n - 1 < n /\ n \in Nat
      BY <1>1, <2>3, <2>5
    <3>2. PICK k : k = n - 1
      OBVIOUS
    <3>3. ~ (n <= k) /\ k \in 0 .. Cardinality(S)
      BY <3>1, <3>2
    <3>4. k \notin Bad
      <4> HIDE DEF Bad
      <4>1. QED
        BY <2>2, <3>3
    <3>5. PICK g : solves(g, k)
      BY <3>3, <3>4
    <3> DEFINE h == [s \in small(n) |-> Adding(f, g, s)]
    <3>6. ASSUME NEW s \in small(n), s # {}
          PROVE  h[s \ {Chosen(s)}] = g[s \ {Chosen(s)}]
      <4>1. PICK t : t = s \ {Chosen(s)}
        OBVIOUS
      <4>2. Chosen(s) \in s
        BY <3>6 DEF Chosen
      <4>3. Cardinality(t) = Cardinality(s) - 1
        BY <1>1, <4>1, <4>2, FS_RemoveElement
      <4>4. Cardinality(s) \in Nat /\ Cardinality(s) <= n /\ t \in SUBSET S
        BY <1>1, <4>1
      <4>5. t \in small(k) /\ t \in small(n)
        BY <3>1, <3>2, <4>3, <4>4
      <4>6. g[t] = Adding(f, g, t)
        BY <3>5, <4>5
      <4>7. h[t] = Adding(f, g, t)
        BY <4>5
      <4>8. QED
        BY <4>1, <4>6, <4>7
    <3>7. h = [s \in small(n) |-> Adding(f, g, s)]
      OBVIOUS
    <3> HIDE DEF h
    <3>8. \A s \in small(n) : Adding(f, g, s) = Adding(f, h, s)
      BY <3>6 DEF Adding
    <3> HIDE DEF small
    <3>9. [s \in small(n) |-> Adding(f, g, s)] = [s \in small(n) |-> Adding(f, h, s)]
      BY <3>8
    <3>10. solves(h, n)
      BY <3>7, <3>9
    <3>11. QED
      BY <2>3, <3>10
  <2>6. QED
    BY <2>4, <2>5
<1>3. \E g : solves(g, Cardinality(S))
  <2>1. Cardinality(S) \in 0 .. Cardinality(S)
    BY <1>1
  <2>2. Cardinality(S) \notin Bad
    BY <1>2
  <2>3. QED
    BY <2>1, <2>2
<1>4. small(Cardinality(S)) = SUBSET S
  BY <1>1
<1>5. QED
  BY <1>3, <1>4

LEMMA TableAdds ==
  ASSUME NEW f, NEW S, IsFiniteSet(S)
  PROVE  \A s \in SUBSET S : Table(f, S)[s] = Adding(f, Table(f, S), s)
<1>1. PICK g : g = Table(f, S)
  OBVIOUS
<1>2. g = [s \in SUBSET S |-> Adding(f, g, s)]
  BY <1>1, TablesExist DEF Table
<1>3. \A s \in SUBSET S : g[s] = Adding(f, g, s)
  BY <1>2
<1>4. QED
  BY <1>1, <1>3

LEMMA TotalIsInTheTable ==
  ASSUME NEW f, NEW S
  PROVE  Total(f, S) = Table(f, S)[S]
BY DEF Total, Table, Adding, Chosen

LEMMA ChosenIsIn ==
  ASSUME NEW s, s # {}
  PROVE  Chosen(s) \in s
BY DEF Chosen

LEMMA TablesAgree ==
  ASSUME NEW f, NEW S, IsFiniteSet(S), NEW s \in SUBSET S
  PROVE  Table(f, S)[s] = Total(f, s)
<1>1. PICK g, h : g = Table(f, S) /\ h = Table(f, s)
  OBVIOUS
<1>2. IsFiniteSet(s)
  BY FS_Subset
<1>3. \A t \in SUBSET s : g[t] = Adding(f, g, t) /\ h[t] = Adding(f, h, t)
  BY <1>1, <1>2, TableAdds
<1> DEFINE Bad == {t \in SUBSET s : g[t] # h[t]}
<1>4. ASSUME Bad # {} PROVE FALSE
  <2>1. PICK t \in Bad : \A x \in t : t \ {x} \notin Bad
    BY <1>2, <1>4, MinimalSubset
  <2>2. t # {}
    BY <1>3 DEF Adding
  <2>3. Chosen(t) \in t /\ t \ {Chosen(t)} \in SUBSET s
    BY <2>2, ChosenIsIn
  <2>4. g[t \ {Chosen(t)}] = h[t \ {Chosen(t)}]
    BY <2>1, <2>3
  <2>5. g[t] = h[t]
    BY <1>3, <2>2, <2>4 DEF Adding
  <2>6. QED
    BY <2>5
<1>5. g[s] = h[s]
  BY <1>4
<1>6. QED
  BY <1>1, <1>5, TotalIsInTheTable

LEMMA TotalUnfolds ==
  ASSUME NEW f, NEW S, IsFiniteSet(S)
  PROVE  Total(f, S) = IF S = {} THEN 0
                       ELSE f[Chosen(S)].amount + Total(f, S \ {Chosen(S)})
<1>1. Total(f, S) = Adding(f, Table(f, S), S)
  BY TableAdds, TotalIsInTheTable
<1>2. Table(f, S)[S \ {Chosen(S)}] = Total(f, S \ {Chosen(S)})
  BY TablesAgree
<1>3. QED
  BY <1>1, <1>2 DEF Adding

LEMMA TotalIsANumber ==
  ASSUME NEW f, NEW S, IsFiniteSet(S), \A x \in S : f[x].amount \in Int
  PROVE  Total(f, S) \in Int
<1> DEFINE Bad == {t \in SUBSET S : Total(f, t) \notin Int}
<1>1. ASSUME Bad # {} PROVE FALSE
  <2>1. PICK t \in Bad : \A x \in t : t \ {x} \notin Bad
    BY <1>1, MinimalSubset
  <2>2. IsFiniteSet(t) /\ t \in SUBSET S
    BY FS_Subset
  <2>3. Total(f, t) = IF t = {} THEN 0
                      ELSE f[Chosen(t)].amount + Total(f, t \ {Chosen(t)})
    BY <2>2, TotalUnfolds
  <2>4. t # {}
    BY <2>3
  <2>5. Chosen(t) \in t
    BY <2>4, ChosenIsIn
  <2>6. Total(f, t \ {Chosen(t)}) \in Int
    BY <2>1, <2>2, <2>5
  <2>7. f[Chosen(t)].amount \in Int
    BY <2>2, <2>5
  <2>8. QED
    BY <2>3, <2>4, <2>6, <2>7
<1>2. QED
  BY <1>1

\* Any element may be taken out first.
LEMMA TotalTakesOut ==
  ASSUME NEW f, NEW S, IsFiniteSet(S), \A y \in S : f[y].amount \in Int,
         NEW x \in S
  PROVE  Total(f, S) = f[x].amount + Total(f, S \ {x})
<1> DEFINE wrong(t, y) == Total(f, t) # f[y].amount + Total(f, t \ {y})
           Bad == {t \in SUBSET S : \E y \in t : wrong(t, y)}
<1>1. ASSUME Bad # {} PROVE FALSE
  <2>1. PICK t \in Bad : \A y \in t : t \ {y} \notin Bad
    BY <1>1, MinimalSubset
  <2>2. PICK y \in t : wrong(t, y)
    BY <2>1
  <2>3. t \in SUBSET S /\ t # {} /\ Chosen(t) \in t
    BY <2>1, <2>2, ChosenIsIn
  <2>4. PICK c : c = Chosen(t)
    OBVIOUS
  <2>5. /\ f[c].amount \in Int /\ f[y].amount \in Int
        /\ IsFiniteSet(t) /\ IsFiniteSet(t \ {c, y})
    BY <2>2, <2>3, <2>4, FS_Subset
  <2>6. Total(f, t) = f[c].amount + Total(f, t \ {c})
    BY <2>3, <2>4, <2>5, TotalUnfolds
  <2>7. c # y
    BY <2>2, <2>6
  <2>8. t \ {c} \notin Bad /\ t \ {y} \notin Bad
    BY <2>1, <2>2, <2>3, <2>4
  <2>9. t \ {c} \in SUBSET S /\ t \ {y} \in SUBSET S /\ y \in t \ {c} /\ c \in t \ {y}
    BY <2>2, <2>3, <2>4, <2>7
  <2>10. ~ wrong(t \ {c}, y) /\ ~ wrong(t \ {y}, c)
    BY <2>8, <2>9
  <2>11. (t \ {c}) \ {y} = t \ {c, y} /\ (t \ {y}) \ {c} = t \ {c, y}
    OBVIOUS
  <2>12. /\ Total(f, t \ {c}) = f[y].amount + Total(f, t \ {c, y})
         /\ Total(f, t \ {y}) = f[c].amount + Total(f, t \ {c, y})
    BY <2>10, <2>11
  <2>13. Total(f, t \ {c, y}) \in Int
    BY <2>3, <2>5, TotalIsANumber
  <2>14. QED
    BY <2>2, <2>5, <2>6, <2>12, <2>13
<1>2. QED
  BY <1>1

LEMMA TotalAdds ==
  ASSUME NEW f, NEW S, IsFiniteSet(S), NEW x, x \notin S,
         \A y \in S \cup {x} : f[y].amount \in Int
  PROVE  Total(f, S \cup {x}) = f[x].amount + Total(f, S)
<1>1. IsFiniteSet(S \cup {x}) /\ (S \cup {x}) \ {x} = S /\ x \in S \cup {x}
  BY FS_AddElement
<1>2. QED
  BY <1>1, TotalTakesOut

LEMMA TotalsOfTheSame ==
  ASSUME NEW f, NEW g, NEW S, IsFiniteSet(S), \A x \in S : f[x] = g[x]
  PROVE  Total(f, S) = Total(g, S)
<1> DEFINE Bad == {t \in SUBSET S : Total(f, t) # Total(g, t)}
<1>1. ASSUME Bad # {} PROVE FALSE
  <2>1. PICK t \in Bad : \A x \in t : t \ {x} \notin Bad
    BY <1>1, MinimalSubset
  <2>2. IsFiniteSet(t) /\ t \in SUBSET S
    BY FS_Subset
  <2>3. /\ Total(f, t) = IF t = {} THEN 0
                         ELSE f[Chosen(t)].amount + Total(f, t \ {Chosen(t)})
        /\ Total(g, t) = IF t = {} THEN 0
                         ELSE g[Chosen(t)].amount + Total(g, t \ {Chosen(t)})
    BY <2>2, TotalUnfolds
  <2>4. t # {}
    BY <2>3
  <2>5. Chosen(t) \in t
    BY <2>4, ChosenIsIn
  <2>6. Total(f, t \ {Chosen(t)}) = Total(g, t \ {Chosen(t)})
    BY <2>1, <2>2, <2>5
  <2>7. f[Chosen(t)] = g[Chosen(t)]
    BY <2>2, <2>5
  <2>8. QED
    BY <2>3, <2>4, <2>6, <2>7
<1>2. QED
  BY <1>1

LEMMA SumsAreTotals == \A S : MapThenSumSet(Amount, S) = Total(payments, S)
BY DEF MapThenSumSet, MapThenFoldSet, Total, Amount

-----------------------------------------------------------------------------
(* The two ways of summing a batch agree.                                  *)

BalanceInv ==
  \A b \in Nat : Total(payments, BatchPayments(b)) = Total(payments, Held(b))

LEMMA PaymentsAreFinite ==
  ASSUME TypeOK, NEW b
  PROVE  /\ IsFiniteSet(BatchPayments(b)) /\ IsFiniteSet(Held(b))
         /\ Held(b) \subseteq BatchPayments(b)
         /\ BatchPayments(b) \subseteq DOMAIN payments
         /\ \A p \in BatchPayments(b) : payments[p].amount \in Int
<1>1. DOMAIN payments = 1 .. Len(payments) /\ Len(payments) \in Nat
  BY DEF TypeOK
<1>2. BatchPayments(b) \subseteq DOMAIN payments /\ Held(b) \subseteq BatchPayments(b)
  BY DEF BatchPayments, Held
<1>3. IsFiniteSet(DOMAIN payments)
  BY <1>1, FS_Interval
<1>4. IsFiniteSet(BatchPayments(b))
  BY <1>2, <1>3, FS_Subset
<1>5. IsFiniteSet(Held(b))
  BY <1>2, <1>4, FS_Subset
<1>6. \A p \in DOMAIN payments : payments[p].amount \in Int
  <2>1. \A p \in DOMAIN payments : payments[p] \in Payment
    BY DEF TypeOK
  <2>2. QED
    BY <2>1 DEF Payment
<1>7. QED
  BY <1>2, <1>4, <1>5, <1>6

\* A batch whose payments are what they were balances as it did.
LEMMA UntouchedBalances ==
  ASSUME TypeOK, BalanceInv, NEW b \in Nat,
         \A q \in DOMAIN payments : payments'[q] = payments[q],
         BatchPayments(b)' = BatchPayments(b), Held(b)' = Held(b)
  PROVE  Total(payments', BatchPayments(b)') = Total(payments', Held(b)')
<1>1. PICK all, held : all = BatchPayments(b) /\ held = Held(b)
  OBVIOUS
<1>2. /\ IsFiniteSet(all) /\ IsFiniteSet(held)
      /\ all \subseteq DOMAIN payments /\ held \subseteq DOMAIN payments
  BY <1>1, PaymentsAreFinite
<1>3. /\ Total(payments, all) = Total(payments', all)
      /\ Total(payments, held) = Total(payments', held)
  BY <1>2, TotalsOfTheSame
<1>4. Total(payments, all) = Total(payments, held)
  BY <1>1 DEF BalanceInv
<1>5. QED
  BY <1>1, <1>3, <1>4

LEMMA PostingBalances ==
  ASSUME TypeOK, TypeOK', CorrectionsAreLinked, ReceiptInv, BalanceInv,
         NEW b \in Nat, PostsBatch(b), [Next]_vars, NEW c \in Nat
  PROVE  Total(payments', BatchPayments(c)') = Total(payments', Held(c)')
<1>1. /\ DOMAIN payments \subseteq DOMAIN payments'
      /\ \A q \in DOMAIN payments : payments'[q] = payments[q]
      /\ \A q : Superseded(q)' = Superseded(q)
  BY PaymentsGrow DEF PostsBatch, Superseded
<1>2. ASSUME NEW p \in DOMAIN payments', p \notin DOMAIN payments
      PROVE  /\ payments'[p].batch = b /\ payments'[p].kind = "original"
             /\ ~ Superseded(p)'
  <2>1. PICK i \in DOMAIN entries'[b] : payments'[p] = Original(b, entries'[b][i])
    BY <1>2, PostedRows
  <2>2. payments'[p].batch = b /\ payments'[p].kind = "original"
    BY <2>1 DEF Original
  <2>3. QED
    BY <1>1, <1>2, <2>2, SupersededArePayments
<1>3. \A p \in DOMAIN payments : payments[p].batch # b
  BY DEF ReceiptInv, PaymentsArePosted, PostsBatch
<1>4. CASE c = b
  <2>1. BatchPayments(c)' = Held(c)'
    BY <1>1, <1>2, <1>3, <1>4 DEF BatchPayments, Held
  <2>2. QED
    BY <2>1
<1>5. CASE c # b
  <2>1. BatchPayments(c)' = BatchPayments(c)
    BY <1>1, <1>2, <1>5 DEF BatchPayments
  <2>2. Held(c)' = Held(c)
    BY <1>1, <2>1 DEF Held, BatchPayments
  <2>3. QED
    BY <1>1, <2>1, <2>2, UntouchedBalances
<1>6. QED
  BY <1>4, <1>5

\* A reversal takes out what it cancels, its replacement is held in its place.
LEMMA CorrectingBalances ==
  ASSUME TypeOK, TypeOK', CorrectionsAreLinked, BalanceInv,
         NEW p \in DOMAIN payments, NEW n \in Nat, NEW amount \in Amounts,
         CorrectsPayment(p, n, amount), [Next]_vars, NEW c \in Nat
  PROVE  Total(payments', BatchPayments(c)') = Total(payments', Held(c)')
<1>1. PICK r, s : r = Len(payments) + 1 /\ s = Len(payments) + 2
  OBVIOUS
<1>2. /\ DOMAIN payments \subseteq DOMAIN payments'
      /\ \A q \in DOMAIN payments : payments'[q] = payments[q]
  BY PaymentsGrow
<1>3. /\ DOMAIN payments' = DOMAIN payments \cup {r, s} /\ r # s
      /\ r \notin DOMAIN payments /\ s \notin DOMAIN payments
  <2>1. /\ DOMAIN payments = 1 .. Len(payments) /\ Len(payments) \in Nat
        /\ DOMAIN payments' = 1 .. Len(payments')
    BY DEF TypeOK
  <2>2. Len(payments') = s
    BY <1>1, CorrectionRows
  <2>3. QED
    BY <1>1, <2>1, <2>2
<1>4. /\ payments'[r].kind = "reversal" /\ payments'[s].kind = "replacement"
      /\ payments'[r].amount = -payments[p].amount
      /\ payments'[r].batch = payments[p].batch
      /\ payments'[s].batch = payments[p].batch
  BY <1>1, CorrectionRows
<1>5. \A q : Superseded(q)' <=> Superseded(q) \/ q = p
  BY CorrectingSupersedes
<1>6. payments[p].kind # "reversal" /\ ~ Superseded(p)
  BY DEF CorrectsPayment
<1>7. CASE c # payments[p].batch
  <2>1. BatchPayments(c)' = BatchPayments(c)
    BY <1>2, <1>3, <1>4, <1>7 DEF BatchPayments
  <2>2. Held(c)' = Held(c)
    BY <1>2, <1>5, <1>7, <2>1 DEF Held, BatchPayments
  <2>3. QED
    BY <1>2, <2>1, <2>2, UntouchedBalances
<1>8. CASE c = payments[p].batch
  <2>1. PICK all, held, kept : /\ all = BatchPayments(c) /\ held = Held(c)
                               /\ kept = held \ {p}
    OBVIOUS
  <2>2. /\ IsFiniteSet(all) /\ IsFiniteSet(held) /\ held \subseteq all
        /\ all \subseteq DOMAIN payments
        /\ \A q \in all : payments[q].amount \in Int
    BY <2>1, PaymentsAreFinite
  <2>3. p \in held
    BY <1>6, <1>8, <2>1 DEF Held, BatchPayments
  <2>4. BatchPayments(c)' = (all \cup {r}) \cup {s}
    BY <1>2, <1>3, <1>4, <1>8, <2>1 DEF BatchPayments
  <2>5. Held(c)' = kept \cup {s}
    <3>1. ~ Superseded(s)'
      BY <1>3, <1>5, SupersededArePayments
    <3>2. \A q \in DOMAIN payments :
            q \in Held(c)' <=> q \in kept
      BY <1>2, <1>3, <1>5, <2>1 DEF Held, BatchPayments
    <3>3. r \notin Held(c)' /\ s \in Held(c)'
      BY <1>3, <1>4, <1>8, <3>1 DEF Held, BatchPayments
    <3>4. \A q \in Held(c)' : q \in DOMAIN payments'
      BY DEF Held, BatchPayments
    <3>5. kept \subseteq DOMAIN payments
      BY <2>1, <2>2
    <3>6. QED
      BY <1>3, <3>2, <3>3, <3>4, <3>5
  <2>6. PICK new : new = payments'
    OBVIOUS
  <2>7. \A q \in DOMAIN payments' : new[q].amount \in Int
    <3>1. \A q \in DOMAIN payments' : payments'[q] \in Payment
      BY DEF TypeOK
    <3>2. QED
      BY <2>6, <3>1 DEF Payment
  <2>8. \A q \in all : new[q] = payments[q] /\ new[q].amount \in Int
    BY <1>2, <2>2, <2>6, <2>7
  <2>9. /\ new[r].amount \in Int /\ new[s].amount \in Int
        /\ new[r].amount = -payments[p].amount
        /\ payments[p].amount \in Int
    BY <1>3, <1>4, <2>2, <2>3, <2>6, <2>7
  <2>10. r \notin all /\ s \notin all \cup {r} /\ s \notin kept
    BY <1>3, <2>1, <2>2
  <2>11. IsFiniteSet(all \cup {r}) /\ IsFiniteSet(kept)
    BY <2>1, <2>2, FS_AddElement, FS_RemoveElement
  <2>12. Total(new, all \cup {r}) = new[r].amount + Total(new, all)
    BY <2>2, <2>8, <2>9, <2>10, TotalAdds
  <2>13. Total(new, (all \cup {r}) \cup {s}) = new[s].amount + Total(new, all \cup {r})
    BY <2>8, <2>9, <2>10, <2>11, TotalAdds
  <2>14. Total(new, kept \cup {s}) = new[s].amount + Total(new, kept)
    BY <2>1, <2>2, <2>8, <2>9, <2>10, <2>11, TotalAdds
  <2>15. Total(payments, held) = payments[p].amount + Total(payments, kept)
    BY <2>1, <2>2, <2>3, TotalTakesOut
  <2>16. Total(payments, all) = Total(new, all)
    BY <2>2, <2>8, TotalsOfTheSame
  <2>17. Total(payments, kept) = Total(new, kept)
    BY <2>1, <2>2, <2>8, <2>11, TotalsOfTheSame
  <2>18. Total(payments, all) = Total(payments, held)
    BY <2>1 DEF BalanceInv
  <2>19. Total(new, all) \in Int /\ Total(new, kept) \in Int
    BY <2>1, <2>2, <2>8, <2>11, TotalIsANumber
  <2>20. Total(new, (all \cup {r}) \cup {s}) = Total(new, kept \cup {s})
    BY <2>9, <2>12, <2>13, <2>14, <2>15, <2>16, <2>17, <2>18, <2>19
  <2>21. QED
    BY <2>4, <2>5, <2>6, <2>20
<1>9. QED
  BY <1>7, <1>8

\* GetBatchLedgerTotals and the books view, for any number of payments, of any
\* amounts, corrected any number of times: what all rows of a batch add up to is
\* what is held.
THEOREM Balanced == Spec => []BooksBalance
<1>1. Init => BalanceInv
  <2>1. SUFFICES ASSUME Init, NEW b \in Nat
                 PROVE  Total(payments, BatchPayments(b)) = Total(payments, Held(b))
    BY DEF BalanceInv
  <2>2. DOMAIN payments = {}
    BY <2>1 DEF Init
  <2>3. BatchPayments(b) = Held(b)
    BY <2>2 DEF BatchPayments, Held
  <2>4. QED
    BY <2>3
<1>2. TypeOK /\ TypeOK' /\ CorrectionsAreLinked /\ ReceiptInv /\ BalanceInv /\ [Next]_vars
        => BalanceInv'
  <2>1. SUFFICES ASSUME TypeOK, TypeOK', CorrectionsAreLinked, ReceiptInv, BalanceInv,
                        [Next]_vars, NEW c \in Nat
                 PROVE  Total(payments', BatchPayments(c)') = Total(payments', Held(c)')
    BY DEF BalanceInv
  <2>2. CASE LeavesPayments
    <3>1. payments' = payments /\ \A q : Superseded(q)' = Superseded(q)
      BY <2>2 DEF LeavesPayments, Superseded
    <3>2. BatchPayments(c)' = BatchPayments(c)
      BY <3>1 DEF BatchPayments
    <3>3. Held(c)' = Held(c)
      BY <3>1, <3>2 DEF Held, BatchPayments
    <3>4. QED
      BY <2>1, <3>1, <3>2, <3>3, UntouchedBalances
  <2>3. CASE \E b \in Nat : PostsBatch(b)
    BY <2>1, <2>3, PostingBalances
  <2>4. CASE \E p \in DOMAIN payments, n \in Nat, amount \in Amounts :
               CorrectsPayment(p, n, amount)
    BY <2>1, <2>4, CorrectingBalances
  <2>5. QED
    BY <2>1, <2>2, <2>3, <2>4, StepCases
<1>3. TypeOK /\ BalanceInv => BooksBalance
  <2>1. SUFFICES ASSUME TypeOK, BalanceInv, NEW b \in DOMAIN batches
                 PROVE  MapThenSumSet(Amount, BatchPayments(b)) =
                          MapThenSumSet(Amount, Held(b))
    BY DEF BooksBalance
  <2>2. b \in Nat
    BY <2>1 DEF TypeOK
  <2>3. Total(payments, BatchPayments(b)) = Total(payments, Held(b))
    BY <2>1, <2>2 DEF BalanceInv
  <2>4. QED
    BY <2>3, SumsAreTotals
<1>4. QED
  BY <1>1, <1>2, <1>3, TypeCorrect, CorrectionsLinked, ReceiptInvHolds, PTL DEF Spec

-----------------------------------------------------------------------------
(* Sequences that only grow.                                               *)

\* A sequence of whatever it holds.
Grows(s) == s \in Seq(Range(s))

LEMMA AppendedGrows ==
  ASSUME NEW s, NEW e, Grows(s)
  PROVE  /\ Grows(Append(s, e))
         /\ Len(Append(s, e)) = Len(s) + 1
         /\ DOMAIN Append(s, e) = DOMAIN s \cup {Len(s) + 1}
         /\ \A i \in DOMAIN s : Append(s, e)[i] = s[i]
         /\ Append(s, e)[Len(s) + 1] = e
         /\ Len(s) \in Nat /\ DOMAIN s = 1 .. Len(s)
<1> DEFINE S == Range(s) \cup {e}
           t == Append(s, e)
<1>1. s \in Seq(S)
  BY DEF Grows
<1>2. /\ t \in Seq(S) /\ Len(t) = Len(s) + 1
      /\ \A i \in 1 .. Len(s) : t[i] = s[i]
      /\ t[Len(s) + 1] = e
      /\ Len(s) \in Nat /\ DOMAIN s = 1 .. Len(s) /\ DOMAIN t = 1 .. Len(t)
  BY <1>1, AppendProperties, LenProperties
<1> HIDE DEF t, S
<1>3. t \in Seq(Range(t))
  BY <1>2 DEF Range
<1>4. DOMAIN t = DOMAIN s \cup {Len(s) + 1}
  BY <1>2
<1>5. QED
  BY <1>2, <1>3, <1>4 DEF Grows, t

-----------------------------------------------------------------------------
(* The ledger stays typed under the sheets.                                *)

LEMMA HandoffIsTyped ==
  ASSUME TypeOK, NEW a \in Actors, NEW k \in Keys \cup {NoKey}, NEW r,
         OpenBatchForRun(a, k, r)
  PROVE  TypeOK'
<1> USE DEF TypeOK
<1>1. NewBatch \in Batch
  BY DEF NewBatch, Batch, States
<1>2. /\ batches' \in Seq(Batch) /\ Len(batches') = Len(batches) + 1
      /\ Len(batches) + 1 \in Nat
  BY <1>1, AppendProperties DEF OpenBatchForRun
<1>3. entries' \in Seq(Seq(Entry)) /\ Len(entries') = Len(entries) + 1
  BY AppendProperties DEF OpenBatchForRun
<1>4. (claims \subseteq Claim)'
  BY <1>2, CompleteIsTyped DEF OpenBatchForRun, Operations
<1>5. QED
  BY <1>2, <1>3, <1>4 DEF OpenBatchForRun

\* What the making of a sheet may touch: the sheets in the making and, when
\* one is stored, the sheets.
LEMMA SheetStepLeaves ==
  ASSUME SheetStep
  PROVE  /\ UNCHANGED vars /\ UNCHANGED <<entered, links, clock, ended, linking>>
         /\ UNCHANGED runs \/ \E call \in making : CreateStores(call)
<1>1. ASSUME NEW filter, NEW source, NEW order, NEW asOf, NEW label,
             Create(filter, source, order, asOf, label)
      PROVE  UNCHANGED <<vars, entered, links, clock, ended, runs, linking>>
  <2>1. CASE CreateSelects(filter, order, asOf, label)
    BY <2>1 DEF CreateSelects
  <2>2. CASE CreateFollowsUp(source, order, asOf, label)
    BY <2>2 DEF CreateFollowsUp
  <2>3. QED
    BY <1>1, <2>1, <2>2 DEF Create
<1>2. \A filter, source, order, typed, label :
        WorksheetCreate(filter, source, order, typed, label) =>
          UNCHANGED <<vars, entered, links, clock, ended, runs, linking>>
  BY <1>1 DEF WorksheetCreate
<1>3. \A filter, source, asOf, label :
        WorksheetCreateOverApi(filter, source, asOf, label) =>
          UNCHANGED <<vars, entered, links, clock, ended, runs, linking>>
  BY <1>1 DEF WorksheetCreateOverApi
<1>4. \A call : CreateReadsStanding(call) =>
        UNCHANGED <<vars, entered, links, clock, ended, runs, linking>>
  BY DEF CreateReadsStanding
<1>5. \A call : CreateStores(call) =>
        UNCHANGED <<vars, entered, links, clock, ended, linking>>
  BY DEF CreateStores
<1>6. \A call : CreateStops(call) =>
        UNCHANGED <<vars, entered, links, clock, ended, runs, linking>>
  BY DEF CreateStops
<1>7. QED
  BY <1>2, <1>3, <1>4, <1>5, <1>6 DEF SheetStep

LEMMA LedgerTyped == SheetSpec => []TypeOK
<1>1. SheetInit => TypeOK
  BY DEF SheetInit, Init, TypeOK
<1>2. TypeOK /\ [SheetNext]_deskVars => TypeOK'
  <2>1. SUFFICES ASSUME TypeOK, [SheetNext]_deskVars PROVE TypeOK'
    OBVIOUS
  <2>2. CASE UNCHANGED vars
    BY <2>1, <2>2 DEF TypeOK, vars
  <2>3. CASE Next
    BY <2>1, <2>3, DraftStepIsTyped, PostingStepIsTyped, DecisionStepIsTyped DEF Next
  <2>4. CASE SheetStep
    BY <2>2, <2>4, SheetStepLeaves
  <2>5. CASE HandoffStep
    <3>1. ASSUME NEW r \in RunIds, NEW a \in Actors, NEW k \in Keys \cup {NoKey},
                 OpenBatchForRun(a, k, r)
          PROVE  TypeOK'
      BY <2>1, <3>1, HandoffIsTyped
    <3>2. \A r, b : LinkChecks(r, b) => UNCHANGED vars
      BY DEF LinkChecks
    <3>3. \A call : LinkWrites(call) \/ LinkStops(call) => UNCHANGED vars
      BY DEF LinkWrites, LinkStops
    <3>4. QED
      BY <2>2, <2>5, <3>1, <3>2, <3>3 DEF HandoffStep
  <2>6. CASE Tick \/ \E m \in Members : EndMembership(m)
    BY <2>2, <2>6 DEF Tick, EndMembership
  <2>7. QED
    BY <2>1, <2>2, <2>3, <2>4, <2>5, <2>6 DEF SheetNext, LedgerStep, deskVars
<1>3. QED
  BY <1>1, <1>2, PTL DEF SheetSpec

-----------------------------------------------------------------------------
(* A sheet handed to a batch.                                              *)

\* Beside the batches runs one link each; a link being written was checked
\* against a sheet and a batch that exist, and neither is ever deleted.
LinksAreKept ==
  /\ Grows(runs)
  /\ links \in Seq(Nat) /\ Len(links) = Len(batches)
  /\ \A call \in linking : call.run \in RunIds /\ call.batch \in DOMAIN links

HandoffInv == LinksAreKept /\ HandoffIsWhole

\* The ledger's own steps stamp no record of the operation that hands over.
LEMMA LedgerHandsNothingOver ==
  ASSUME TypeOK, Next
  PROVE  HandedOff' = HandedOff
<1>1. ASSUME NEW op, NEW id, Claims(op, id), op # "worksheet-batch-open"
      PROVE  HandedOff' = HandedOff
  <2>1. PICK new : claims' = claims \cup {new} /\ new.op = op
    BY <1>1, ClaimedWork
  <2>2. QED
    BY <1>1, <2>1 DEF HandedOff
<1>2. UNCHANGED claims => HandedOff' = HandedOff
  BY DEF HandedOff
<1>3. \A op \in PostingOps : op # "worksheet-batch-open"
  BY DEF PostingOps
<1>4. QED
  BY <1>1, <1>2, <1>3, KeyStepCases

LEMMA LedgerKeepsLinks ==
  ASSUME TypeOK, TypeOK', HandoffInv, LedgerStep
  PROVE  HandoffInv'
<1>1. Next /\ LinkNone /\ UNCHANGED <<runs, linking>>
  BY DEF LedgerStep, sheetVars
<1> DEFINE more == Len(batches') - Len(batches)
           new == [b \in 1 .. more |-> None]
<1>2. /\ links \in Seq(Nat) /\ Len(links) = Len(batches)
      /\ Len(batches) \in Nat /\ Len(batches') \in Nat
      /\ DOMAIN batches = 1 .. Len(batches) /\ DOMAIN batches' = 1 .. Len(batches')
  BY DEF HandoffInv, LinksAreKept, TypeOK
<1>3. DOMAIN batches \subseteq DOMAIN batches'
  BY <1>1, StepCases DEF LeavesPayments, PostsBatch, CorrectsPayment
<1>4. more \in Nat
  <2>1. Len(batches) = 0 \/ Len(batches) \in DOMAIN batches
    BY <1>2
  <2>2. QED
    BY <1>2, <1>3, <2>1
<1>5. new \in Seq(Nat) /\ Len(new) = more
  BY <1>4 DEF None
<1>6. links' = links \o new
  BY <1>1 DEF LinkNone
<1> HIDE DEF new
<1>7. /\ links' \in Seq(Nat) /\ Len(links') = Len(batches')
      /\ \A b \in 1 .. Len(links) : links'[b] = links[b]
  <2>1. /\ links' \in Seq(Nat) /\ Len(links') = Len(links) + Len(new)
        /\ \A b \in 1 .. Len(links) : links'[b] = links[b]
    <3>1. /\ links \o new \in Seq(Nat) /\ Len(links \o new) = Len(links) + Len(new)
          /\ \A b \in 1 .. Len(links) + Len(new) :
               (links \o new)[b] = IF b <= Len(links) THEN links[b]
                                  ELSE new[b - Len(links)]
      BY <1>2, <1>5, ConcatProperties
    <3>2. Len(links) \in Nat /\ Len(new) \in Nat
      BY <1>2, <1>4, <1>5
    <3>3. QED
      BY <1>6, <3>1, <3>2
  <2>2. QED
    BY <1>2, <1>4, <1>5, <2>1
<1>8. DOMAIN links \subseteq DOMAIN links' /\ \A b \in DOMAIN links : links'[b] = links[b]
  <2>1. DOMAIN links = 1 .. Len(links) /\ DOMAIN links' = 1 .. Len(links')
    BY <1>2, <1>7
  <2>2. QED
    BY <1>2, <1>3, <1>7, <2>1
<1>9. LinksAreKept'
  BY <1>1, <1>7, <1>8 DEF HandoffInv, LinksAreKept, RunIds, Grows
<1>10. HandoffIsWhole'
  BY <1>1, <1>8, LedgerHandsNothingOver DEF HandoffInv, HandoffIsWhole, RunIds
<1>11. QED
  BY <1>9, <1>10 DEF HandoffInv

LEMMA HandingOverLinks ==
  ASSUME TypeOK, HandoffInv, NEW a \in Actors, NEW k \in Keys \cup {NoKey},
         NEW r \in RunIds, OpenBatchForRun(a, k, r)
  PROVE  HandoffInv'
<1>1. /\ links \in Seq(Nat) /\ Len(links) = Len(batches) /\ Len(batches) \in Nat
      /\ r \in Nat
  BY DEF HandoffInv, LinksAreKept, TypeOK, Grows, RunIds
<1>2. links' = Append(links, r) /\ UNCHANGED <<runs, linking>>
  BY DEF OpenBatchForRun, sheetVars
<1>3. batches' = Append(batches, NewBatch) /\ batches \in Seq(Batch)
  BY DEF OpenBatchForRun, TypeOK
<1>4. Len(batches') = Len(batches) + 1
  BY <1>3
<1>5. /\ links' \in Seq(Nat) /\ Len(links') = Len(links) + 1
      /\ \A b \in 1 .. Len(links) : links'[b] = links[b]
      /\ links'[Len(links) + 1] = r
  BY <1>1, <1>2, AppendProperties
<1>6. /\ DOMAIN links = 1 .. Len(links) /\ DOMAIN links' = 1 .. Len(links) + 1
  BY <1>1, <1>5
<1>7. LinksAreKept'
  <2>1. DOMAIN links \subseteq DOMAIN links'
    BY <1>1, <1>6
  <2>2. QED
    BY <1>1, <1>2, <1>4, <1>5, <2>1 DEF HandoffInv, LinksAreKept, RunIds, Grows
<1>8. HandoffIsWhole'
  <2>1. SUFFICES ASSUME NEW c \in claims', c.op = "worksheet-batch-open"
                 PROVE  c.id \in DOMAIN links' /\ links'[c.id] \in RunIds'
    BY DEF HandoffIsWhole, HandedOff
  <2>2. RunIds' = RunIds
    BY <1>2 DEF RunIds
  <2>3. CASE c \in claims
    <3>1. c.id \in DOMAIN links /\ links[c.id] \in RunIds
      BY <2>1, <2>3 DEF HandoffInv, HandoffIsWhole, HandedOff
    <3>2. QED
      BY <1>1, <1>5, <1>6, <2>2, <3>1
  <2>4. CASE c \notin claims
    <3>1. c.id = Len(links) + 1
      BY <1>1, <2>1, <2>4 DEF OpenBatchForRun, Complete
    <3>2. QED
      BY <1>1, <1>5, <1>6, <2>2, <3>1
  <2>5. QED
    BY <2>3, <2>4
<1>9. QED
  BY <1>7, <1>8 DEF HandoffInv

LEMMA WritingALinkLinks ==
  ASSUME TypeOK, HandoffInv, NEW call \in linking, LinkWrites(call)
  PROVE  HandoffInv'
<1>1. /\ links \in Seq(Nat) /\ call.run \in RunIds /\ call.batch \in DOMAIN links
      /\ call.run \in Nat
  BY DEF HandoffInv, LinksAreKept, Grows, RunIds
<1>2. /\ links' = [links EXCEPT ![call.batch] = call.run]
      /\ linking' = linking \ {call} /\ UNCHANGED <<vars, runs>>
  BY DEF LinkWrites
<1>3. links' \in Seq(Nat) /\ Len(links') = Len(links) /\ DOMAIN links' = DOMAIN links
  BY <1>1, <1>2, ExceptSeq
<1>4. \A b \in DOMAIN links : links'[b] = IF b = call.batch THEN call.run ELSE links[b]
  BY <1>1, <1>2
<1>5. QED
  BY <1>1, <1>2, <1>3, <1>4
     DEF HandoffInv, LinksAreKept, HandoffIsWhole, HandedOff, RunIds, Grows, vars

\* "a link that failed after the batch was created left an orphan": a key that
\* opened a batch for a sheet names a batch that is linked to a sheet, however
\* the links written over the API cross it and however often they are rewritten.
THEOREM HandedOverWhole == SheetSpec => []HandoffIsWhole
<1>1. SheetInit => HandoffInv
  <2>1. SUFFICES ASSUME SheetInit PROVE HandoffInv
    OBVIOUS
  <2>2. runs = <<>> /\ links = <<>> /\ batches = <<>> /\ linking = {} /\ claims = {}
    BY <2>1 DEF SheetInit, Init
  <2>3. Grows(runs)
    BY <2>2 DEF Grows
  <2>4. QED
    BY <2>2, <2>3 DEF HandoffInv, LinksAreKept, HandoffIsWhole, HandedOff
<1>2. TypeOK /\ TypeOK' /\ HandoffInv /\ [SheetNext]_deskVars => HandoffInv'
  <2>1. SUFFICES ASSUME TypeOK, TypeOK', HandoffInv, [SheetNext]_deskVars
                 PROVE  HandoffInv'
    OBVIOUS
  <2>2. ASSUME UNCHANGED <<batches, claims, links>>, linking' \subseteq linking,
               Grows(runs'), RunIds \subseteq RunIds'
        PROVE  HandoffInv'
    BY <2>1, <2>2 DEF HandoffInv, LinksAreKept, HandoffIsWhole, HandedOff
  <2>3. UNCHANGED runs => Grows(runs') /\ RunIds \subseteq RunIds'
    BY <2>1 DEF HandoffInv, LinksAreKept, RunIds, Grows
  <2>4. CASE UNCHANGED deskVars
    BY <2>2, <2>3, <2>4 DEF deskVars, sheetVars, vars
  <2>5. CASE SheetStep
    <3>1. ASSUME NEW call \in making, CreateStores(call)
          PROVE  Grows(runs') /\ RunIds \subseteq RunIds'
      <4>1. PICK e : runs' = Append(runs, e)
        BY <3>1 DEF CreateStores
      <4>2. Grows(runs)
        BY <2>1 DEF HandoffInv, LinksAreKept
      <4>3. QED
        BY <4>1, <4>2, AppendedGrows DEF RunIds
    <3>2. QED
      BY <2>2, <2>3, <2>5, <3>1, SheetStepLeaves DEF vars
  <2>6. CASE HandoffStep
    <3>1. ASSUME NEW r \in RunIds, NEW b \in DOMAIN batches, LinkChecks(r, b)
          PROVE  HandoffInv'
      <4>1. /\ linking' = linking \cup {[run |-> r, batch |-> b]}
            /\ UNCHANGED <<vars, links, runs>>
        BY <3>1 DEF LinkChecks
      <4>2. b \in DOMAIN links
        BY <2>1 DEF HandoffInv, LinksAreKept, TypeOK
      <4>3. QED
        BY <2>1, <4>1, <4>2
           DEF HandoffInv, LinksAreKept, HandoffIsWhole, HandedOff, RunIds, Grows, vars
    <3>2. \A call : LinkStops(call) => HandoffInv'
      BY <2>2, <2>3 DEF LinkStops, vars
    <3>3. QED
      BY <2>1, <2>6, <3>1, <3>2, HandingOverLinks, WritingALinkLinks DEF HandoffStep
  <2>7. CASE LedgerStep
    BY <2>1, <2>7, LedgerKeepsLinks
  <2>8. CASE Tick \/ \E m \in Members : EndMembership(m)
    BY <2>2, <2>3, <2>8 DEF Tick, EndMembership, vars
  <2>9. QED
    BY <2>1, <2>4, <2>5, <2>6, <2>7, <2>8 DEF SheetNext
<1>3. HandoffInv => HandoffIsWhole
  BY DEF HandoffInv
<1>4. QED
  BY <1>1, <1>2, <1>3, LedgerTyped, PTL DEF SheetSpec

-----------------------------------------------------------------------------
(* The standing and the filter over it.                                    *)

\* The last day a membership is paid through, None before the first decision.
LEMMA PaidThroughIsADay ==
  ASSUME TypeOK, NEW m
  PROVE  PaidThrough(m) \in Nat
<1>1. /\ EffectiveCoverage(m) \in 0 .. Len(coverage) /\ Len(coverage) \in Nat
      /\ coverage \in Seq(Decision)
  BY EffectiveCoverageIsAnId DEF TypeOK
<1>2. EffectiveCoverage(m) # 0 => coverage[EffectiveCoverage(m)] \in Decision
  BY <1>1
<1>3. EffectiveCoverage(m) # 0 => coverage[EffectiveCoverage(m)].paid \in Dates
  BY <1>2 DEF Decision
<1>4. QED
  BY <1>3, DatesAreNumbers DEF PaidThrough, None

\* Whatever a membership is paid through and whoever is waived, exactly one of
\* the five filters finds it, and it is the one it is shown under.
LEMMA FilterFindsStatus ==
  ASSUME NEW m, NEW asOf \in Nat \ {0}, PaidThrough(m) \in Nat, NEW status \in Statuses
  PROVE  HasStatus(m, status, asOf) <=> Status(m, asOf) = status
<1> DEFINE paid == PaidThrough(m)
<1>1. /\ paid \in Nat /\ WarnThrough(asOf) \in Nat /\ asOf < WarnThrough(asOf)
      /\ WarningDays \in Nat
  BY WarningIsPositive DEF WarnThrough
<1>2. /\ paid \in 1 .. asOf - 1 <=> paid # None /\ paid < asOf
      /\ paid \in asOf .. WarnThrough(asOf) <=>
           paid # None /\ paid >= asOf /\ paid <= WarnThrough(asOf)
  BY <1>1 DEF None
<1>3. Status(m, asOf) =
        IF Waived(m, asOf) THEN "honorary_waived"
        ELSE IF paid = None THEN "unknown"
        ELSE IF paid < asOf THEN "expired"
        ELSE IF paid <= WarnThrough(asOf) THEN "expiring" ELSE "current"
  BY <1>1, <1>2 DEF Status, None
<1>4. /\ HasStatus(m, "honorary_waived", asOf) <=> Waived(m, asOf)
      /\ HasStatus(m, "unknown", asOf) <=> ~ Waived(m, asOf) /\ paid = None
      /\ HasStatus(m, "expired", asOf) <=>
           ~ Waived(m, asOf) /\ paid # None /\ paid < asOf
      /\ HasStatus(m, "expiring", asOf) <=>
           ~ Waived(m, asOf) /\ paid >= asOf /\ paid <= WarnThrough(asOf)
      /\ HasStatus(m, "current", asOf) <=>
           ~ Waived(m, asOf) /\ paid > WarnThrough(asOf)
  BY DEF HasStatus
<1>5. QED
  BY <1>1, <1>3, <1>4 DEF Statuses, None

\* The status a page shows and the filter that finds it are two texts of one
\* query: they agree on every membership, on every day, in every ledger.
THEOREM FiltersAgreeAlways == SheetSpec => []FiltersAgree
<1>1. TypeOK => FiltersAgree
  <2>1. SUFFICES ASSUME TypeOK, NEW asOf \in Days, NEW m \in Members,
                        NEW status \in Statuses
                 PROVE  HasStatus(m, status, asOf) <=> Status(m, asOf) = status
    BY DEF FiltersAgree
  <2>2. asOf \in Nat \ {0}
    BY <2>1 DEF Days
  <2>3. PaidThrough(m) \in Nat
    BY <2>1, PaidThroughIsADay
  <2>4. QED
    BY <2>2, <2>3, FilterFindsStatus
<1>2. QED
  BY <1>1, LedgerTyped, PTL

-----------------------------------------------------------------------------
(* Follow-up sheets.  Sheets are never rewritten and marks of payment never *)
(* taken back, so it is enough that a follow-up, while it is made, accounts *)
(* for every line of its source: as a row, as still to be read, or as paid. *)

\* What a step leaves as it was.
SheetsStay ==
  /\ \A r \in RunIds : r \in RunIds' /\ runs'[r] = runs[r]
  /\ \A r \in RunIds : \A m : EnteredSince(r, m) => EnteredSince(r, m)'

\* Beside the payments run their instants.
EnteredInv == entered \in Seq(Int) /\ Len(entered) = Len(payments) /\ clock \in Int

\* The lines of a sheet before they are put in order: one per membership.
OnePerMember(rows) ==
  /\ IsFiniteSet(rows)
  /\ \A row \in rows : row.member \in Members /\ row.paid \in Nat
  /\ \A a, b \in rows : a.member = b.member => a = b

\* And in order.
IsSheet(rows) ==
  /\ \E n \in Nat : DOMAIN rows = 1 .. n
  /\ \A i \in DOMAIN rows : rows[i].member \in Members
  /\ \A i, j \in DOMAIN rows : rows[i].member = rows[j].member => i = j

LEMMA PaymentsOnlyGrow ==
  ASSUME TypeOK, TypeOK', Next
  PROVE  /\ Len(payments) \in Nat /\ Len(payments') \in Nat
         /\ Len(payments) <= Len(payments')
         /\ \A p \in 1 .. Len(payments) : payments'[p] = payments[p]
<1>1. Len(payments) \in Nat /\ Len(payments') \in Nat /\ payments \in Seq(Payment)
  BY DEF TypeOK
<1>2. CASE LeavesPayments
  BY <1>1, <1>2 DEF LeavesPayments
<1>3. ASSUME NEW b \in Nat, PostsBatch(b)
      PROVE  /\ Len(payments) <= Len(payments')
             /\ \A p \in 1 .. Len(payments) : payments'[p] = payments[p]
  <2>1. b \in DOMAIN entries'
    BY <1>3 DEF PostsBatch, TypeOK
  <2>2. entries'[b] \in Seq(Entry)
    BY <2>1 DEF TypeOK
  <2>3. Len(entries'[b]) \in Nat
    BY <2>2
  <2>4. QED
    BY <1>1, <1>3, <2>3 DEF PostsBatch
<1>4. ASSUME NEW p \in DOMAIN payments, NEW n \in Nat, NEW amount \in Amounts,
             CorrectsPayment(p, n, amount)
      PROVE  /\ Len(payments) <= Len(payments')
             /\ \A q \in 1 .. Len(payments) : payments'[q] = payments[q]
  <2>1. PICK a, b : payments' = payments \o <<a, b>>
    BY <1>4 DEF CorrectsPayment
  <2>2. payments \in Seq(Payment \cup {a, b}) /\ <<a, b>> \in Seq(Payment \cup {a, b})
    BY <1>1
  <2>3. QED
    BY <1>1, <2>1, <2>2, ConcatProperties
<1>5. QED
  BY <1>1, <1>2, <1>3, <1>4, StepCases

LEMMA LedgerKeepsMarks ==
  ASSUME TypeOK, TypeOK', EnteredInv, LedgerStep
  PROVE  EnteredInv' /\ SheetsStay
<1>1. PICK at \in {clock - 1, clock} : Stamp(at) /\ Next
  BY DEF LedgerStep
<1>2. runs' = runs /\ clock' = clock
  BY DEF LedgerStep, sheetVars
<1>3. PICK more \in Nat : more = Len(payments') - Len(payments)
  <2>1. /\ Len(payments) \in Nat /\ Len(payments') \in Nat
        /\ Len(payments) <= Len(payments')
    BY <1>1, PaymentsOnlyGrow
  <2>2. Len(payments') - Len(payments) \in Nat
    BY <2>1
  <2>3. QED
    BY <2>2
<1>4. PICK new : new = [p \in 1 .. more |-> at]
  OBVIOUS
<1>5. at \in Int
  BY DEF EnteredInv
<1>6. new \in Seq(Int) /\ Len(new) = more
  BY <1>4, <1>5
<1>7. entered' = entered \o new
  BY <1>1, <1>3, <1>4 DEF Stamp
<1>8. /\ entered' \in Seq(Int) /\ Len(entered') = Len(entered) + more
      /\ \A p \in 1 .. Len(entered) : entered'[p] = entered[p]
  <2>1. entered \in Seq(Int) /\ Len(entered) \in Nat
    BY DEF EnteredInv
  <2>2. /\ entered \o new \in Seq(Int)
        /\ Len(entered \o new) = Len(entered) + Len(new)
        /\ \A p \in 1 .. Len(entered) + Len(new) :
             (entered \o new)[p] = IF p <= Len(entered) THEN entered[p]
                                   ELSE new[p - Len(entered)]
    BY <1>6, <2>1, ConcatProperties
  <2>3. \A p \in 1 .. Len(entered) :
          p \in 1 .. Len(entered) + more /\ p <= Len(entered)
    BY <2>1
  <2>4. QED
    BY <1>6, <1>7, <2>2, <2>3
<1>9. /\ Len(payments) \in Nat /\ Len(payments') \in Nat
      /\ Len(payments) <= Len(payments')
      /\ \A p \in 1 .. Len(payments) : payments'[p] = payments[p]
  BY <1>1, PaymentsOnlyGrow
<1>10. EnteredInv'
  BY <1>2, <1>3, <1>8, <1>9 DEF EnteredInv
<1>11. \A p \in DOMAIN payments :
         /\ p \in DOMAIN payments' /\ payments'[p] = payments[p]
         /\ entered'[p] = entered[p]
  <2>1. Len(entered) = Len(payments)
    BY DEF EnteredInv
  <2>2. DOMAIN payments = 1 .. Len(payments) /\ DOMAIN payments' = 1 .. Len(payments')
    BY DEF TypeOK
  <2>3. QED
    BY <1>8, <1>9, <2>1, <2>2
<1>12. SheetsStay
  BY <1>2, <1>11 DEF SheetsStay, EnteredSince, RunIds
<1>13. QED
  BY <1>10, <1>12

\* The orders of print are total: lines of one key go by membership id.
LEMMA PrintOrderIsTotal ==
  ASSUME NEW rows, NEW order, OnePerMember(rows)
  PROVE  IsOrder({pair \in rows \X rows : Before(order, pair[1], pair[2])}, rows)
<1>1. PICK before : before = {pair \in rows \X rows : Before(order, pair[1], pair[2])}
  OBVIOUS
<1>2. \A a \in rows : SortKey(order, a) \in Int /\ Roll[a.member].id \in Nat
  <2>1. SUFFICES ASSUME NEW a \in rows
                 PROVE  SortKey(order, a) \in Int /\ Roll[a.member].id \in Nat
    OBVIOUS
  <2>2. a.member \in Members /\ a.paid \in Nat
    BY <2>1 DEF OnePerMember
  <2>3. PICK line : line = Roll[a.member]
    OBVIOUS
  <2>4. line.id \in Nat /\ line.name \in Nat /\ line.sign \in 0 .. 999
    BY <2>2, <2>3, RollIsKept
  <2>5. SortKey(order, a) \in Int
    <3>1. CASE order = "call_sign"
      <4>1. SortKey(order, a) = IF line.sign = None THEN 1000 ELSE line.sign
        BY <2>3, <3>1 DEF SortKey
      <4>2. QED
        BY <2>4, <4>1
    <3>2. CASE order = "longest_overdue"
      <4>1. SortKey(order, a) = a.paid
        BY <3>2 DEF SortKey
      <4>2. QED
        BY <2>2, <4>1
    <3>3. CASE order # "call_sign" /\ order # "longest_overdue"
      <4>1. SortKey(order, a) = line.name
        BY <2>3, <3>3 DEF SortKey
      <4>2. QED
        BY <2>4, <4>1
    <3>4. QED
      BY <3>1, <3>2, <3>3
  <2>6. QED
    BY <2>3, <2>4, <2>5
<1>3. PICK key, id : /\ key = [a \in rows |-> SortKey(order, a)]
                     /\ id = [a \in rows |-> Roll[a.member].id]
  OBVIOUS
<1>4. /\ \A a \in rows : key[a] \in Int /\ id[a] \in Nat
      /\ \A a, b \in rows : id[a] = id[b] => a = b
  BY <1>2, <1>3, RollIsKept DEF OnePerMember
<1>5. \A a, b \in rows :
        <<a, b>> \in before <=> key[a] < key[b] \/ (key[a] = key[b] /\ id[a] < id[b])
  BY <1>1, <1>3 DEF Before
<1>6. \A a \in rows : <<a, a>> \notin before
  BY <1>4, <1>5
<1>7. \A a, b \in rows : a = b \/ <<a, b>> \in before \/ <<b, a>> \in before
  <2>1. SUFFICES ASSUME NEW a \in rows, NEW b \in rows, a # b
                 PROVE  <<a, b>> \in before \/ <<b, a>> \in before
    OBVIOUS
  <2>2. id[a] # id[b]
    BY <1>4, <2>1
  <2>3. QED
    BY <1>4, <1>5, <2>2
<1>8. \A a, b, c \in rows :
        <<a, b>> \in before /\ <<b, c>> \in before => <<a, c>> \in before
  <2>1. SUFFICES ASSUME NEW a \in rows, NEW b \in rows, NEW c \in rows,
                        <<a, b>> \in before, <<b, c>> \in before
                 PROVE  <<a, c>> \in before
    OBVIOUS
  <2>2. /\ key[a] < key[b] \/ (key[a] = key[b] /\ id[a] < id[b])
        /\ key[b] < key[c] \/ (key[b] = key[c] /\ id[b] < id[c])
    BY <1>5, <2>1
  <2>3. key[a] < key[c] \/ (key[a] = key[c] /\ id[a] < id[c])
    BY <1>4, <2>2
  <2>4. QED
    BY <1>5, <2>3
<1>9. IsOrder(before, rows)
  BY <1>6, <1>7, <1>8 DEF IsOrder
<1>10. QED
  BY <1>1, <1>9

\* Printing drops no line and doubles none.
LEMMA EveryRowIsPrinted ==
  ASSUME NEW rows, NEW order, OnePerMember(rows)
  PROVE  /\ IsSheet(SortStandings(rows, order))
         /\ \A row \in rows : \E i \in DOMAIN SortStandings(rows, order) :
              SortStandings(rows, order)[i] = row
<1>1. PICK before : before = {pair \in rows \X rows : Before(order, pair[1], pair[2])}
  OBVIOUS
<1>2. IsOrder(before, rows) /\ IsFiniteSet(rows)
  BY <1>1, PrintOrderIsTotal DEF OnePerMember
<1>3. PICK s : s = Ranked(rows, before)
  OBVIOUS
<1>4. /\ s \in Seq(rows)
      /\ \A row \in rows : \E i \in DOMAIN s : s[i] = row
      /\ \A i, j \in DOMAIN s : i < j => <<s[i], s[j]>> \in before
  BY <1>2, <1>3, RankedIsSorted
<1>5. /\ DOMAIN s = 1 .. Len(s) /\ Len(s) \in Nat
      /\ \A i \in DOMAIN s : s[i] \in rows
  BY <1>4
<1>6. ASSUME NEW i \in DOMAIN s, NEW j \in DOMAIN s, s[i].member = s[j].member
      PROVE  i = j
  <2>1. s[i] = s[j]
    BY <1>5, <1>6 DEF OnePerMember
  <2>2. <<s[i], s[j]>> \notin before /\ <<s[j], s[i]>> \notin before
    BY <1>2, <1>5, <2>1 DEF IsOrder
  <2>3. ~ (i < j) /\ ~ (j < i)
    BY <1>4, <2>2
  <2>4. QED
    BY <1>5, <2>3
<1>7. IsSheet(s)
  BY <1>5, <1>6 DEF IsSheet, OnePerMember
<1>8. s = SortStandings(rows, order)
  BY <1>1, <1>3 DEF SortStandings
<1>9. QED
  BY <1>4, <1>7, <1>8

\* A list of memberships, none twice.
IsRota(left) ==
  /\ left \in Seq(Members)
  /\ \A i, j \in DOMAIN left : left[i] = left[j] => i = j

\* Line i of sheet r is somewhere on a follow-up in the making, or paid.
IsAccounted(r, i, rows, left) ==
  \/ \E row \in rows : row.member = runs[r].rows[i].member
  \/ \E k \in DOMAIN left : left[k] = runs[r].rows[i].member
  \/ EnteredSince(r, runs[r].rows[i].member)

CallSound(call) ==
  /\ OnePerMember(call.rows)
  /\ IsRota(call.left)
  /\ \A row \in call.rows : \A k \in DOMAIN call.left : row.member # call.left[k]
  /\ call.asked.source # None =>
       /\ call.asked.source \in RunIds
       /\ \A i \in Lines(call.asked.source) :
            IsAccounted(call.asked.source, i, call.rows, call.left)

RunSound(f) ==
  /\ IsSheet(runs[f].rows)
  /\ runs[f].source # None =>
       /\ runs[f].source \in RunIds
       /\ \A i \in Lines(runs[f].source) :
            \/ runs[runs[f].source].rows[i].member \in OnSheet(f)
            \/ EnteredSince(runs[f].source, runs[runs[f].source].rows[i].member)

\* The inductive invariant.
PaperInv ==
  /\ Grows(runs)
  /\ EnteredInv
  /\ \A f \in RunIds : RunSound(f)
  /\ \A call \in making : CallSound(call)

LEMMA SoundStaysSound ==
  ASSUME SheetsStay
  PROVE  /\ \A f \in RunIds : RunSound(f) => RunSound(f)'
         /\ \A call : CallSound(call) => CallSound(call)'
<1>1. ASSUME NEW r \in RunIds, NEW i, NEW rows, NEW left,
             IsAccounted(r, i, rows, left)
      PROVE  IsAccounted(r, i, rows, left)'
  BY <1>1 DEF SheetsStay, IsAccounted
<1>2. \A r \in RunIds : r \in RunIds' /\ Lines(r)' = Lines(r) /\ OnSheet(r)' = OnSheet(r)
  BY DEF SheetsStay, Lines, OnSheet
<1>3. ASSUME NEW f \in RunIds, RunSound(f) PROVE RunSound(f)'
  <2>1. PICK r : r = runs[f].source
    OBVIOUS
  <2>2. runs'[f] = runs[f] /\ IsSheet(runs'[f].rows)
    BY <1>3 DEF SheetsStay, RunSound
  <2>3. CASE r = None
    BY <2>1, <2>2, <2>3 DEF RunSound
  <2>4. CASE r # None
    <3>1. /\ r \in RunIds
          /\ \A i \in Lines(r) : \/ runs[r].rows[i].member \in OnSheet(f)
                                 \/ EnteredSince(r, runs[r].rows[i].member)
      BY <1>3, <2>1, <2>4 DEF RunSound
    <3>2. /\ r \in RunIds' /\ runs'[r] = runs[r] /\ Lines(r)' = Lines(r)
          /\ OnSheet(f)' = OnSheet(f)
      BY <1>2, <3>1 DEF SheetsStay
    <3>3. \A m : EnteredSince(r, m) => EnteredSince(r, m)'
      BY <3>1 DEF SheetsStay
    <3>4. ASSUME NEW i \in Lines(r)'
          PROVE  \/ runs'[r].rows[i].member \in OnSheet(f)'
                 \/ EnteredSince(r, runs[r].rows[i].member)'
      <4>1. PICK m : m = runs[r].rows[i].member
        OBVIOUS
      <4>2. m \in OnSheet(f)' \/ EnteredSince(r, m)'
        BY <3>1, <3>2, <3>3, <3>4, <4>1
      <4>3. QED
        BY <3>2, <4>1, <4>2 DEF EnteredSince
    <3>5. QED
      BY <2>1, <2>2, <3>2, <3>4 DEF RunSound, EnteredSince, Lines, OnSheet
  <2>5. QED
    BY <2>3, <2>4
<1>4. ASSUME NEW call, CallSound(call) PROVE CallSound(call)'
  <2>1. PICK r : r = call.asked.source
    OBVIOUS
  <2>2. r # None => r \in RunIds /\ \A i \in Lines(r) : IsAccounted(r, i, call.rows, call.left)
    BY <1>4, <2>1 DEF CallSound
  <2>3. r # None =>
          r \in RunIds' /\ \A i \in Lines(r)' : IsAccounted(r, i, call.rows, call.left)'
    BY <1>1, <1>2, <2>2
  <2>4. QED
    BY <1>4, <2>1, <2>3 DEF CallSound
<1>5. QED
  BY <1>3, <1>4

\* The unpaid of a sheet: every line of it that carries no mark, each once.
LEMMA UnpaidAreListed ==
  ASSUME NEW r, IsSheet(runs[r].rows)
  PROVE  /\ IsRota(ListWorksheetMembershipsUnpaidSince(r))
         /\ \A i \in Lines(r) :
              IsAccounted(r, i, {}, ListWorksheetMembershipsUnpaidSince(r))
<1>1. PICK rows : rows = runs[r].rows
  OBVIOUS
<1>2. PICK n \in Nat : DOMAIN rows = 1 .. n
  BY <1>1 DEF IsSheet
<1>3. /\ \A i \in 1 .. n : rows[i].member \in Members
      /\ \A i, j \in 1 .. n : rows[i].member = rows[j].member => i = j
  BY <1>1, <1>2 DEF IsSheet
<1>4. PICK ids : ids = Lines(r) \ EnteredLines(r)
  OBVIOUS
<1>5. Lines(r) = 1 .. n /\ ids \subseteq 1 .. n
  BY <1>1, <1>2, <1>4 DEF Lines
<1>6. ids \in SUBSET Nat /\ IsFiniteSet(ids)
  <2>1. \A k \in Nat : IsFiniteSet(1 .. k)
    BY FS_Interval
  <2>2. IsFiniteSet(1 .. n)
    BY <2>1
  <2>3. IsFiniteSet(ids)
    BY <1>5, <2>2, FS_Subset
  <2>4. QED
    BY <1>5, <2>3
<1>7. PICK s : s = Ascending(ids)
  OBVIOUS
<1>8. /\ s \in Seq(ids)
      /\ \A i \in ids : \E k \in DOMAIN s : s[k] = i
      /\ \A i, j \in DOMAIN s : i < j => s[i] < s[j]
  BY <1>6, <1>7, AscendingIsSorted
<1>9. PICK left : left = [k \in DOMAIN s |-> rows[s[k]].member]
  OBVIOUS
<1>10. left = ListWorksheetMembershipsUnpaidSince(r)
  BY <1>1, <1>4, <1>7, <1>9 DEF ListWorksheetMembershipsUnpaidSince
<1>11. /\ DOMAIN s = 1 .. Len(s) /\ Len(s) \in Nat
       /\ \A k \in DOMAIN s : s[k] \in ids /\ s[k] \in 1 .. n
  <2>1. DOMAIN s = 1 .. Len(s) /\ Len(s) \in Nat
    BY <1>8, LenProperties
  <2>2. ASSUME NEW k \in DOMAIN s PROVE s[k] \in ids
    BY <1>8
  <2>3. QED
    BY <1>5, <2>1, <2>2
<1>12. left \in Seq(Members)
  <2>1. /\ DOMAIN left = 1 .. Len(s)
        /\ \A k \in 1 .. Len(s) : left[k] \in Members
    BY <1>3, <1>9, <1>11
  <2>2. left \in [1 .. Len(s) -> Members]
    BY <1>9, <2>1
  <2>3. QED
    BY <1>11, <2>2, SeqDef
<1>13. ASSUME NEW i \in DOMAIN left, NEW j \in DOMAIN left, left[i] = left[j]
       PROVE  i = j
  <2>1. /\ i \in DOMAIN s /\ j \in DOMAIN s
        /\ rows[s[i]].member = rows[s[j]].member
    BY <1>9, <1>13
  <2>2. s[i] = s[j] /\ s[i] \in Nat
    BY <1>3, <1>11, <2>1
  <2>3. ~ (i < j) /\ ~ (j < i)
    BY <1>8, <2>1, <2>2
  <2>4. i \in Nat /\ j \in Nat
    BY <1>11, <2>1
  <2>5. QED
    BY <2>3, <2>4
<1>14. ASSUME NEW i \in Lines(r)
       PROVE  IsAccounted(r, i, {}, left)
  <2>1. CASE i \in EnteredLines(r)
    BY <2>1 DEF EnteredLines, IsAccounted
  <2>2. CASE i \notin EnteredLines(r)
    <3>1. PICK k \in DOMAIN s : s[k] = i
      BY <1>4, <1>8, <1>14, <2>2
    <3>2. k \in DOMAIN left /\ left[k] = runs[r].rows[i].member
      BY <1>1, <1>9, <3>1
    <3>3. QED
      BY <3>2 DEF IsAccounted
  <2>3. QED
    BY <2>1, <2>2
<1>15. IsRota(left)
  BY <1>12, <1>13 DEF IsRota
<1>16. QED
  BY <1>10, <1>14, <1>15

\* The lines of one query: one per membership it found.
LEMMA SelectedOnePerMember ==
  ASSUME TypeOK, NEW filter, NEW asOf
  PROVE  OnePerMember(Select(filter, asOf))
<1>1. PICK found : found = {n \in Working :
                              filter = "owes" => Status(n, asOf) \in {"expired", "unknown"}}
  OBVIOUS
<1>2. found \subseteq Members /\ IsFiniteSet(found)
  <2>1. found \subseteq Members
    BY <1>1 DEF Working
  <2>2. QED
    BY <2>1, MembersAreFinite, FS_Subset
<1>3. PICK line : line = [m \in found |-> GetStanding(m, asOf)[1]]
  OBVIOUS
<1>4. \A m \in found : line[m].member = m /\ line[m].paid \in Nat
  BY <1>3, PaidThroughIsADay DEF GetStanding
<1>5. PICK rows : rows = {line[m] : m \in found}
  OBVIOUS
<1>6. rows = Select(filter, asOf)
  BY <1>1, <1>3, <1>5 DEF Select
<1>7. IsFiniteSet(rows)
  <2>1. line \in [found -> rows] /\ \A row \in rows : \E m \in found : line[m] = row
    BY <1>3, <1>5
  <2>2. line \in Surjection(found, rows)
    BY <2>1 DEF Surjection
  <2>3. QED
    BY <1>2, <2>2, FS_Surjection
<1>8. QED
  BY <1>2, <1>4, <1>5, <1>6, <1>7 DEF OnePerMember

\* Reading one more of the unpaid moves a membership from the list to the rows.
LEMMA ReadingKeepsSound ==
  ASSUME TypeOK, NEW call, CallSound(call), call.left # <<>>, NEW rows,
         rows = call.rows \cup Range(GetStanding(Head(call.left), call.asked.asOf))
  PROVE  CallSound(Making(call.asked, Tail(call.left), rows))
<1>1. PICK left \in Seq(Members) : left = call.left
  BY DEF CallSound, IsRota
<1>2. PICK m : m = Head(left)
  OBVIOUS
<1>3. PICK row : row = GetStanding(m, call.asked.asOf)[1]
  OBVIOUS
<1>4. row.member = m /\ row.paid \in Nat /\ m \in Members
  <2>1. m \in Members
    BY <1>1, <1>2
  <2>2. QED
    BY <1>3, <2>1, PaidThroughIsADay DEF GetStanding
<1>5. rows = call.rows \cup {row}
  <2>1. Range(GetStanding(m, call.asked.asOf)) = {row}
    <3>1. GetStanding(m, call.asked.asOf) = <<row>>
      BY <1>3 DEF GetStanding
    <3>2. Range(<<row>>) = {row}
      BY DEF Range
    <3>3. QED
      BY <3>1, <3>2
  <2>2. QED
    BY <1>1, <1>2, <2>1
<1>6. PICK tail : tail = Tail(left)
  OBVIOUS
<1>7. /\ tail \in Seq(Members) /\ left[1] = m /\ 1 \in DOMAIN left
      /\ \A k \in DOMAIN tail : k + 1 \in DOMAIN left /\ tail[k] = left[k + 1]
      /\ \A k \in DOMAIN left : k = 1 \/ (k - 1 \in DOMAIN tail /\ tail[k - 1] = left[k])
      /\ DOMAIN left \subseteq Nat \ {0} /\ DOMAIN tail \subseteq Nat \ {0}
  BY <1>1, <1>2, <1>6, HeadTailProperties
<1>8. /\ \A i, j \in DOMAIN left : left[i] = left[j] => i = j
      /\ \A a \in call.rows : \A k \in DOMAIN left : a.member # left[k]
  BY <1>1 DEF CallSound, IsRota
<1>9. IsRota(tail) /\ \A k \in DOMAIN tail : tail[k] # m
  <2>1. ASSUME NEW i \in DOMAIN tail, NEW j \in DOMAIN tail, tail[i] = tail[j]
        PROVE  i = j
    <3>1. i + 1 = j + 1
      BY <1>7, <1>8, <2>1
    <3>2. i \in Nat /\ j \in Nat
      BY <1>7
    <3>3. QED
      BY <3>1, <3>2
  <2>2. ASSUME NEW k \in DOMAIN tail, tail[k] = m PROVE FALSE
    <3>1. k + 1 = 1
      BY <1>7, <1>8, <2>2
    <3>2. k \in Nat \ {0}
      BY <1>7
    <3>3. QED
      BY <3>1, <3>2
  <2>3. QED
    BY <1>7, <2>1, <2>2 DEF IsRota
<1>10. OnePerMember(rows)
  <2>1. /\ IsFiniteSet(call.rows)
        /\ \A a \in call.rows : a.member \in Members /\ a.paid \in Nat
        /\ \A a, b \in call.rows : a.member = b.member => a = b
    BY DEF CallSound, OnePerMember
  <2>2. \A a \in call.rows : a.member # m
    BY <1>7, <1>8
  <2>3. IsFiniteSet(rows)
    BY <1>5, <2>1, FS_AddElement
  <2>4. QED
    BY <1>4, <1>5, <2>1, <2>2, <2>3 DEF OnePerMember
<1>11. \A a \in rows : \A k \in DOMAIN tail : a.member # tail[k]
  BY <1>4, <1>5, <1>7, <1>8, <1>9
<1>12. ASSUME NEW r, NEW i, IsAccounted(r, i, call.rows, left)
       PROVE  IsAccounted(r, i, rows, tail)
  <2>1. CASE \E a \in call.rows : a.member = runs[r].rows[i].member
    BY <1>5, <2>1 DEF IsAccounted
  <2>2. CASE \E k \in DOMAIN left : left[k] = runs[r].rows[i].member
    <3>1. PICK k \in DOMAIN left : left[k] = runs[r].rows[i].member
      BY <2>2
    <3>2. CASE k = 1
      BY <1>4, <1>5, <1>7, <3>1, <3>2 DEF IsAccounted
    <3>3. CASE k # 1
      BY <1>7, <3>1, <3>3 DEF IsAccounted
    <3>4. QED
      BY <3>2, <3>3
  <2>3. CASE EnteredSince(r, runs[r].rows[i].member)
    BY <2>3 DEF IsAccounted
  <2>4. QED
    BY <1>12, <2>1, <2>2, <2>3 DEF IsAccounted
<1>13. PICK new : new = Making(call.asked, tail, rows)
  OBVIOUS
<1>14. new.asked = call.asked /\ new.left = tail /\ new.rows = rows
  BY <1>13 DEF Making
<1>15. CallSound(new)
  BY <1>1, <1>9, <1>10, <1>11, <1>12, <1>14 DEF CallSound
<1>16. QED
  BY <1>1, <1>6, <1>13, <1>15

\* What the selection of a sheet begins with.
LEMMA CreatingIsSound ==
  ASSUME TypeOK, PaperInv, NEW filter, NEW source, NEW order, NEW asOf, NEW label,
         Create(filter, source, order, asOf, label)
  PROVE  \A call \in making' : call \in making \/ CallSound(call)
<1>1. IsRota(<<>>)
  BY DEF IsRota
<1>2. CASE CreateSelects(filter, order, asOf, label)
  <2>1. PICK rows : rows = Select(filter, asOf)
    OBVIOUS
  <2>2. OnePerMember(rows)
    BY <2>1, SelectedOnePerMember
  <2>3. PICK asked : asked = Asked(filter, None, order, asOf, label)
    OBVIOUS
  <2>4. asked.source = None
    BY <2>3 DEF Asked
  <2>5. PICK new : new = Making(asked, <<>>, rows)
    OBVIOUS
  <2>6. new.asked = asked /\ new.left = <<>> /\ new.rows = rows
    BY <2>5 DEF Making
  <2>7. CallSound(new)
    BY <1>1, <2>2, <2>4, <2>6 DEF CallSound
  <2>8. making' = making \cup {new}
    BY <1>2, <2>1, <2>3, <2>5 DEF CreateSelects
  <2>9. QED
    BY <2>7, <2>8
<1>3. CASE source \in RunIds /\ CreateFollowsUp(source, order, asOf, label)
  <2>1. PICK left : left = ListWorksheetMembershipsUnpaidSince(source)
    OBVIOUS
  <2>2. IsSheet(runs[source].rows)
    BY <1>3 DEF PaperInv, RunSound
  <2>3. IsRota(left) /\ \A i \in Lines(source) : IsAccounted(source, i, {}, left)
    BY <2>1, <2>2, UnpaidAreListed
  <2>4. PICK asked : asked = Asked("unpaid_since_run", source, order, asOf, label)
    OBVIOUS
  <2>5. asked.source = source
    BY <2>4 DEF Asked
  <2>6. PICK new : new = Making(asked, left, {})
    OBVIOUS
  <2>7. new.asked = asked /\ new.left = left /\ new.rows = {}
    BY <2>6 DEF Making
  <2>8. OnePerMember({})
    BY FS_EmptySet DEF OnePerMember
  <2>9. CallSound(new)
    BY <1>3, <2>3, <2>5, <2>7, <2>8 DEF CallSound
  <2>10. making' = making \cup {new}
    BY <1>3, <2>1, <2>4, <2>6 DEF CreateFollowsUp
  <2>11. QED
    BY <2>9, <2>10
<1>4. QED
  BY <1>2, <1>3 DEF Create

\* Sheets stay as long as neither they nor the marks are touched.
LEMMA UntouchedStay ==
  ASSUME UNCHANGED <<payments, entered>>,
         \A r \in RunIds : r \in RunIds' /\ runs'[r] = runs[r]
  PROVE  SheetsStay
<1>1. ASSUME NEW r \in RunIds, NEW m, EnteredSince(r, m) PROVE EnteredSince(r, m)'
  <2>1. runs'[r] = runs[r] /\ payments' = payments /\ entered' = entered
    OBVIOUS
  <2>2. QED
    BY <1>1, <2>1 DEF EnteredSince
<1>2. QED
  BY <1>1 DEF SheetsStay

\* The stored sheet accounts for its source as the call did that made it.
LEMMA StoringIsSound ==
  ASSUME PaperInv, NEW call \in making, CreateStores(call)
  PROVE  /\ Grows(runs') /\ SheetsStay
         /\ \A f \in RunIds' : f \in RunIds \/ RunSound(f)'
<1>1. PICK rows : rows = SortStandings(call.rows, call.asked.order)
  OBVIOUS
<1>2. PICK e : /\ runs' = Append(runs, e)
               /\ e.source = call.asked.source /\ e.rows = rows
  BY <1>1 DEF CreateStores
<1>3. Grows(runs)
  BY DEF PaperInv
<1>4. PICK f : f = Len(runs) + 1
  OBVIOUS
<1>5. /\ Grows(runs') /\ RunIds' = RunIds \cup {f} /\ runs'[f] = e
      /\ \A r \in RunIds : runs'[r] = runs[r]
  BY <1>2, <1>3, <1>4, AppendedGrows DEF RunIds
<1>6. SheetsStay
  <2>1. UNCHANGED <<payments, entered>>
    BY DEF CreateStores, vars
  <2>2. QED
    BY <1>5, <2>1, UntouchedStay
<1>7. CallSound(call) /\ call.left = <<>>
  BY DEF PaperInv, CreateStores
<1>8. /\ IsSheet(rows)
      /\ \A row \in call.rows : \E j \in DOMAIN rows : rows[j] = row
  <2>1. OnePerMember(call.rows)
    BY <1>7 DEF CallSound
  <2>2. QED
    BY <1>1, <2>1, EveryRowIsPrinted
<1>9. CASE e.source = None
  <2>1. RunSound(f)'
    BY <1>2, <1>5, <1>8, <1>9 DEF RunSound
  <2>2. QED
    BY <1>5, <1>6, <2>1
<1>10. CASE e.source # None
  <2>1. PICK r : r = e.source
    OBVIOUS
  <2>2. /\ r \in RunIds
        /\ \A i \in Lines(r) : IsAccounted(r, i, call.rows, call.left)
    BY <1>2, <1>7, <1>10, <2>1 DEF CallSound
  <2>3. r \in RunIds' /\ runs'[r] = runs[r] /\ Lines(r)' = Lines(r)
    BY <1>5, <2>2 DEF Lines
  <2>4. OnSheet(f)' = {rows[j].member : j \in DOMAIN rows}
    BY <1>2, <1>5 DEF OnSheet, Lines
  <2>5. ASSUME NEW i \in Lines(r), NEW m, m = runs[r].rows[i].member
        PROVE  m \in OnSheet(f)' \/ EnteredSince(r, m)'
    <3>1. CASE EnteredSince(r, m)
      BY <1>6, <2>2, <3>1 DEF SheetsStay
    <3>2. CASE ~ EnteredSince(r, m)
      <4>1. PICK row \in call.rows : row.member = m
        BY <1>7, <2>2, <2>5, <3>2 DEF IsAccounted
      <4>2. PICK j \in DOMAIN rows : rows[j] = row
        BY <1>8, <4>1
      <4>3. QED
        BY <2>4, <4>1, <4>2
    <3>3. QED
      BY <3>1, <3>2
  <2>6. \A i \in Lines(r)' : \/ runs'[r].rows[i].member \in OnSheet(f)'
                             \/ EnteredSince(r, runs[r].rows[i].member)'
    BY <2>3, <2>5
  <2>7. runs'[f].source = r /\ runs'[f].rows = rows
    BY <1>2, <1>5, <2>1
  <2>8. RunSound(f)'
    BY <1>8, <2>3, <2>6, <2>7 DEF RunSound, EnteredSince
  <2>9. QED
    BY <1>5, <1>6, <2>8
<1>11. QED
  BY <1>9, <1>10

\* What is sound stays so, so a step need only answer for what it adds.
LEMMA PaperIsKept ==
  ASSUME PaperInv, SheetsStay, Grows(runs'), EnteredInv',
         \A f \in RunIds' : f \in RunIds \/ RunSound(f)',
         \A call \in making' : call \in making \/ CallSound(call)
  PROVE  PaperInv'
<1>1. \A f \in RunIds' : RunSound(f)'
  BY SoundStaysSound DEF PaperInv
<1>2. \A call \in making' : CallSound(call)'
  BY SoundStaysSound DEF PaperInv
<1>3. QED
  BY <1>1, <1>2 DEF PaperInv

\* The steps of a sheet in the making.
LEMMA SheetStepIsSound ==
  ASSUME TypeOK, PaperInv, SheetStep
  PROVE  PaperInv'
<1>1. UNCHANGED vars /\ UNCHANGED <<entered, links, clock, ended, linking>>
  BY SheetStepLeaves
<1>2. payments' = payments /\ entered' = entered /\ clock' = clock
  BY <1>1 DEF vars
<1>3. EnteredInv'
  BY <1>2 DEF PaperInv, EnteredInv
<1>4. ASSUME runs' = runs, \A call \in making' : call \in making \/ CallSound(call)
      PROVE  PaperInv'
  <2>1. SheetsStay
    BY <1>2, <1>4, UntouchedStay DEF RunIds
  <2>2. Grows(runs') /\ RunIds' = RunIds
    BY <1>4 DEF PaperInv, RunIds, Grows
  <2>3. QED
    BY <1>3, <1>4, <2>1, <2>2, PaperIsKept
<1>5. ASSUME NEW filter, NEW source, NEW order, NEW asOf, NEW label,
             Create(filter, source, order, asOf, label)
      PROVE  PaperInv'
  <2>1. runs' = runs
    BY <1>5 DEF Create, CreateSelects, CreateFollowsUp
  <2>2. QED
    BY <1>4, <1>5, <2>1, CreatingIsSound
<1>6. \A filter, source, order, typed, label :
        WorksheetCreate(filter, source, order, typed, label) => PaperInv'
  BY <1>5 DEF WorksheetCreate
<1>7. \A filter, source, asOf, label :
        WorksheetCreateOverApi(filter, source, asOf, label) => PaperInv'
  BY <1>5 DEF WorksheetCreateOverApi
<1>8. ASSUME NEW call \in making, CreateReadsStanding(call)
      PROVE  PaperInv'
  <2>1. PICK rows : rows = call.rows \cup
                           Range(GetStanding(Head(call.left), call.asked.asOf))
    OBVIOUS
  <2>2. CallSound(Making(call.asked, Tail(call.left), rows))
    <3>1. CallSound(call) /\ call.left # <<>>
      BY <1>8 DEF PaperInv, CreateReadsStanding
    <3>2. QED
      BY <2>1, <3>1, ReadingKeepsSound
  <2>3. /\ making' = (making \ {call}) \cup {Making(call.asked, Tail(call.left), rows)}
        /\ runs' = runs
    BY <1>8, <2>1 DEF CreateReadsStanding
  <2>4. QED
    BY <1>4, <2>2, <2>3
<1>9. ASSUME NEW call \in making, CreateStores(call)
      PROVE  PaperInv'
  <2>1. making' \subseteq making
    BY <1>9 DEF CreateStores
  <2>2. QED
    BY <1>3, <1>9, <2>1, StoringIsSound, PaperIsKept
<1>10. ASSUME NEW call \in making, CreateStops(call)
       PROVE  PaperInv'
  BY <1>4, <1>10 DEF CreateStops
<1>11. QED
  BY <1>6, <1>7, <1>8, <1>9, <1>10 DEF SheetStep

\* A line leaves the paper trail only by being paid: whoever is on a sheet and
\* not on its follow-up has a payment entered since, whatever postings,
\* corrections and ended memberships fell between the reads of the selection
\* (selectStandings and Create of internal/domain/worksheets/service.go).
THEOREM FollowUpsDropOnlyThePaid == SheetSpec => []FollowUpDropsOnlyThePaid
<1>1. SheetInit => PaperInv
  <2>1. SUFFICES ASSUME SheetInit PROVE PaperInv
    OBVIOUS
  <2>2. /\ runs = <<>> /\ making = {} /\ entered = <<>> /\ payments = <<>>
        /\ clock = 1
    BY <2>1 DEF SheetInit, Init
  <2>3. Grows(runs) /\ RunIds = {}
    BY <2>2 DEF Grows, RunIds
  <2>4. EnteredInv
    BY <2>2 DEF EnteredInv
  <2>5. QED
    BY <2>2, <2>3, <2>4 DEF PaperInv
<1>2. TypeOK /\ TypeOK' /\ PaperInv /\ [SheetNext]_deskVars => PaperInv'
  <2>1. SUFFICES ASSUME TypeOK, TypeOK', PaperInv, [SheetNext]_deskVars
                 PROVE  PaperInv'
    OBVIOUS
  <2>2. ASSUME UNCHANGED <<runs, making>>, EnteredInv', SheetsStay
        PROVE  PaperInv'
    <3>1. Grows(runs') /\ RunIds' = RunIds
      BY <2>1, <2>2 DEF PaperInv, RunIds, Grows
    <3>2. QED
      BY <2>1, <2>2, <3>1, PaperIsKept
  <2>3. ASSUME UNCHANGED <<payments, entered, runs, making>>, clock' \in Int
        PROVE  PaperInv'
    <3>1. EnteredInv'
      BY <2>1, <2>3 DEF PaperInv, EnteredInv
    <3>2. SheetsStay
      BY <2>3, UntouchedStay DEF RunIds
    <3>3. QED
      BY <2>2, <2>3, <3>1, <3>2
  <2>4. clock \in Int
    BY <2>1 DEF PaperInv, EnteredInv
  <2>5. CASE UNCHANGED deskVars
    BY <2>3, <2>4, <2>5 DEF deskVars, sheetVars, vars
  <2>6. CASE SheetStep
    BY <2>1, <2>6, SheetStepIsSound
  <2>7. CASE HandoffStep
    <3>1. \A a, k, r : OpenBatchForRun(a, k, r) =>
            UNCHANGED <<payments, entered, runs, making, clock>>
      BY DEF OpenBatchForRun, sheetVars
    <3>2. \A r, b : LinkChecks(r, b) =>
            UNCHANGED <<payments, entered, runs, making, clock>>
      BY DEF LinkChecks, vars
    <3>3. \A call : LinkWrites(call) \/ LinkStops(call) =>
            UNCHANGED <<payments, entered, runs, making, clock>>
      BY DEF LinkWrites, LinkStops, vars
    <3>4. UNCHANGED <<payments, entered, runs, making, clock>>
      BY <2>7, <3>1, <3>2, <3>3 DEF HandoffStep
    <3>5. QED
      BY <2>3, <2>4, <3>4
  <2>8. CASE LedgerStep
    <3>1. EnteredInv' /\ SheetsStay
      BY <2>1, <2>8, LedgerKeepsMarks DEF PaperInv
    <3>2. UNCHANGED <<runs, making>>
      BY <2>8 DEF LedgerStep, sheetVars
    <3>3. QED
      BY <2>2, <3>1, <3>2
  <2>9. CASE Tick \/ \E m \in Members : EndMembership(m)
    BY <2>3, <2>4, <2>9 DEF Tick, EndMembership, vars
  <2>10. QED
    BY <2>1, <2>5, <2>6, <2>7, <2>8, <2>9 DEF SheetNext
<1>3. PaperInv => FollowUpDropsOnlyThePaid
  <2>1. SUFFICES ASSUME PaperInv,
                        NEW f \in RunIds, NEW r, r = runs[f].source, r # None,
                        NEW i \in Lines(r), ~ (runs[r].rows[i].member \in OnSheet(f))
                 PROVE  i \in EnteredLines(r)
    BY DEF FollowUpDropsOnlyThePaid
  <2>2. EnteredSince(r, runs[r].rows[i].member)
    BY <2>1 DEF PaperInv, RunSound
  <2>3. QED
    BY <2>2 DEF EnteredLines
<1>4. QED
  BY <1>1, <1>2, <1>3, LedgerTyped, PTL DEF SheetSpec

=============================================================================
