------------------------------- MODULE Books --------------------------------
(***************************************************************************)
(* What the treasury ledger promises to someone who reads only its books   *)
(* view: one line per receipt number with the amount the club holds for    *)
(* it, and for every member the dates they were declared paid through, in  *)
(* the order they were decided.  Reversals, replacements, superseding      *)
(* pointers, drafts and retries do not exist here.                         *)
(***************************************************************************)
EXTENDS Naturals, Sequences, FiniteSets, SequencesExt

CONSTANTS Members, Receipts

VARIABLES
  lines,    \* receipt number -> member and amount held; grows line by line
  history   \* history[m]: the paid-through dates decided for m

vars == <<lines, history>>

Init ==
  /\ lines = <<>>
  /\ history = [m \in Members |-> <<>>]

NewLines == DOMAIN lines' \ DOMAIN lines

Added(m) == Len(history'[m]) - Len(history[m])

\* Nothing recorded earlier is rewritten.
HistoryOnlyGrows ==
  /\ DOMAIN history' = Members
  /\ \A m \in Members : IsPrefix(history[m], history'[m])

\* A batch adds lines, and with every line one date for its member.
PostBatch ==
  /\ DOMAIN lines \subseteq DOMAIN lines' /\ NewLines # {}
  /\ NewLines \subseteq Receipts
  /\ \A r \in DOMAIN lines : lines'[r] = lines[r]
  /\ HistoryOnlyGrows
  /\ \A m \in Members :
       Added(m) = Cardinality({r \in NewLines : lines'[r].member = m})

\* A correction restates the amount of one line, and possibly its member's date.
Restate(r) ==
  /\ DOMAIN lines' = DOMAIN lines
  /\ \A s \in DOMAIN lines \ {r} : lines'[s] = lines[s]
  /\ lines'[r].member = lines[r].member
  /\ HistoryOnlyGrows
  /\ \A m \in Members :
       Added(m) \in IF m = lines[r].member THEN {0, 1} ELSE {0}

\* A decision that no money makes.
Decide(m) ==
  /\ UNCHANGED lines
  /\ HistoryOnlyGrows
  /\ \A n \in Members : Added(n) = IF n = m THEN 1 ELSE 0

Next ==
  \/ PostBatch
  \/ \E r \in DOMAIN lines : Restate(r)
  \/ \E m \in Members : Decide(m)

Spec == Init /\ [][Next]_vars

=============================================================================
