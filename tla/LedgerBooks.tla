----------------------------- MODULE LedgerBooks -----------------------------
(***************************************************************************)
(* The ledger implements the books.  The mapping reads the ledger the way  *)
(* the code does, pointer by pointer: forward along corrections for the    *)
(* payment in force, back along supersedes for the decisions of a member.  *)
(***************************************************************************)
EXTENDS Ledger

\* The loops of effectivePayment.
Root[p \in DOMAIN payments] ==
  IF payments[p].corrects = 0 THEN p ELSE Root[payments[p].corrects]

CorrectionOf(p) == CHOOSE c \in DOMAIN corrections : corrections[c].original = p

Forward[p \in DOMAIN payments] ==
  IF Superseded(p) THEN Forward[corrections[CorrectionOf(p)].replacement] ELSE p

Steps[p \in DOMAIN payments] ==
  IF Superseded(p) THEN 1 + Steps[corrections[CorrectionOf(p)].replacement] ELSE 0

\* The decisions that led to event e, oldest first.
Path[e \in DOMAIN coverage] ==
  IF coverage[e].supersedes = 0
  THEN <<coverage[e].paid>>
  ELSE Append(Path[coverage[e].supersedes], coverage[e].paid)

Number(p) == <<payments[p].receipt.batch, payments[p].receipt.seq>>

Numbers == {Number(p) : p \in DOMAIN payments}

Line(r) ==
  LET p == CHOOSE q \in DOMAIN payments :
             Number(q) = r /\ payments[q].kind = "original"
  IN  [member |-> payments[p].member, amount |-> payments[Forward[p]].amount]

BookLines == [r \in Numbers |-> Line(r)]

BookHistories ==
  [m \in Members |-> IF Heads(m) = {} THEN <<>> ELSE Path[EffectiveCoverage(m)]]

B == INSTANCE Books WITH
       Receipts <- Nat \X Nat, lines <- BookLines, history <- BookHistories

\* Every behaviour of the ledger is one of the books: corrections, posting and
\* coverage decisions of batches, dues and importd never lose or rewrite an
\* amount or a decision that a reader of the books has seen.
ImplementsBooks == B!Spec

\* Ledger states what a correction may target with sets (InForce, Revision);
\* effectivePayment in correct.go follows pointers.  They agree.
WalkFindsInForce ==
  \A p \in DOMAIN payments :
    InForce(p) = {Forward[Root[p]]} /\ Revision(p) = Steps[Root[p]]

=============================================================================
