------------------------------ MODULE MCRecords -----------------------------
(***************************************************************************)
(* Model-checking instance of the records: one member with a primary of    *)
(* one kind and a second contact of another.                               *)
(***************************************************************************)
EXTENDS Records

CONSTANTS email, phone, ta

OnePerson ==
  [p \in People |-> [name |-> ta, sign |-> NoText, licence |-> NoText,
                     active |-> TRUE, version |-> 1]]

TwoContacts ==
  << [owner |-> 1, kind |-> email, text |-> ta, primary |-> TRUE,
      archived |-> FALSE, version |-> 1],
     [owner |-> 1, kind |-> phone, text |-> ta, primary |-> FALSE,
      archived |-> FALSE, version |-> 1] >>

=============================================================================
