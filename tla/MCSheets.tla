------------------------------ MODULE MCSheets ------------------------------
(***************************************************************************)
(* Model-checking instance of the worksheets: two members, the second with *)
(* a waiver that is over on day 1 and one that was revoked.                *)
(***************************************************************************)
EXTENDS Worksheets

CONSTANTS m1, m2

Club ==
  [m \in Members |-> IF m = m1
     THEN [id |-> 1, name |-> 2, sign |-> 0, waivers |-> {}]
     ELSE [id |-> 2, name |-> 1, sign |-> 1,
           waivers |-> {[from |-> 1, to |-> 1, revoked |-> FALSE],
                        [from |-> 2, to |-> 0, revoked |-> TRUE]}]]

=============================================================================
