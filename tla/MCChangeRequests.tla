-------------------------- MODULE MCChangeRequests --------------------------
(***************************************************************************)
(* Model-checking instances of review.  One person with one e-mail address *)
(* is enough for two items, or two requests, to meet on one row.           *)
(***************************************************************************)
EXTENDS ChangeRequests

CONSTANTS email, ta

OnePerson ==
  [p \in People |-> [name |-> ta, sign |-> NoText, licence |-> ta,
                     active |-> TRUE, version |-> 1]]

OneContact ==
  << [owner |-> 1, kind |-> email, text |-> ta, primary |-> FALSE,
      archived |-> FALSE, version |-> 1] >>

Propose(op, target) ==
  [op |-> op, target |-> target, declared |-> FALSE, kind |-> email, text |-> ta]

\* A remark beside a new name; an address for a person not yet named; a
\* declared-sensitive archive; a corrected address; a call sign.
Rewrites ==
  { <<Propose("other", 0), Propose("person.display_name.set", 1)>>,
    <<Propose("contact_method.add", 0)>>,
    << [Propose("contact_method.archive", 1) EXCEPT !.declared = TRUE],
       Propose("contact_method.set_primary", 1) >>,
    <<Propose("contact_method.update", 1)>>,
    <<Propose("person.call_sign.set", 1)>> }

Preferences ==
  { <<Propose("contact_method.visibility.set", 1),
      Propose("sharing_pref.acs_ares.set", 1),
      Propose("contact_method.visibility.set", 1)>>,
    <<Propose("contact_method.visibility.set", 1)>> }

Symmetry == Permutations(Users)

=============================================================================
