------------------------------ MODULE MCLedger ------------------------------
(***************************************************************************)
(* Model-checking instance of the ledger.  Members and keys are model      *)
(* values that no definition tells apart, so their permutations are        *)
(* symmetries of the safety runs.                                          *)
(***************************************************************************)
EXTENDS LedgerBooks

Symmetry == Permutations(Members) \cup Permutations(Keys)

=============================================================================
