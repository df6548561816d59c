------------------------------- MODULE Ranking -------------------------------
(***************************************************************************)
(* Rows in an order, as ORDER BY returns them: each has the place that the *)
(* number of rows before it gives it.  The order is the set of the pairs   *)
(* of which the first row comes before the second.                         *)
(***************************************************************************)
EXTENDS Integers, FiniteSets

Preceding(order, S, x) == {y \in S : <<y, x>> \in order}

Ranked(S, order) ==
  [i \in 1 .. Cardinality(S) |->
     CHOOSE x \in S : Cardinality(Preceding(order, S, x)) = i - 1]

\* ORDER BY id
Ascending(ids) == Ranked(ids, {pair \in ids \X ids : pair[1] < pair[2]})

=============================================================================
