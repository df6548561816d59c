---------------------------- MODULE MCDirectory ----------------------------
(***************************************************************************)
(* Model-checking instance of the member directory.                        *)
(***************************************************************************)
EXTENDS Directory

CONSTANTS m1, a3

\* In the order of the names; the second is first by call sign, the third has none.
SignOf == <<7, 3, 0>>
OwnerOf == [c \in Contacts |-> IF c = m1 THEN 1 ELSE 3]

\* Two full members and an associate.
OnFile == <<[person |-> 1, type |-> "full", current |-> TRUE],
            [person |-> 2, type |-> "full", current |-> TRUE],
            [person |-> 3, type |-> "associate", current |-> TRUE]>>

=============================================================================
