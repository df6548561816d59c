--------------------------- MODULE MCSuggestions ----------------------------
(***************************************************************************)
(* Model-checking instances of the member's edit form: one member, one     *)
(* e-mail address, and officers who edit the record under the form.        *)
(***************************************************************************)
EXTENDS Suggestions

CONSTANTS email, ta, u1

Enrolled ==
  [p \in People |-> [name |-> ta, sign |-> IF p = 1 THEN ta ELSE NoText, licence |-> ta,
                     active |-> TRUE, version |-> 1]]

OneContact ==
  << [owner |-> 1, kind |-> email, text |-> ta, primary |-> FALSE,
      archived |-> FALSE, version |-> 1] >>

\* The second address is somebody else's.
TwoContacts == Append(OneContact, [OneContact[1] EXCEPT !.owner = 2])

OwnOne == [u \in Users |-> 1]

\* The posted form is the idempotency key.
PostedForms == Form

=============================================================================
