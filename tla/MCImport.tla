------------------------------ MODULE MCImport ------------------------------
(***************************************************************************)
(* Model-checking instance of the import: two exports of one roster.  One  *)
(* of its rows is a lifetime row whose address two persons share, so that  *)
(* neither its dues nor its person may be guessed; another names a person  *)
(* on file and a call sign an officer may give away meanwhile; a third is  *)
(* confirmed for life and names a person whom an officer has in hand.      *)
(***************************************************************************)
EXTENDS ImportRun

Raw(ext, call, email, type, until) ==
  [ext |-> ext, name |-> "n", call |-> call, email |-> email, phone |-> "short",
   street |-> "", type |-> type, class |-> "", examiner |-> FALSE, until |-> until,
   note |-> {"s"}]

Forever == Raw("e2", "", "m1", "Honorary", FarDate)
Plain == Raw("e3", "k3", "m3", "Full", "2025-12-31")
Known == Raw("e4", "", "m4", "Honorary", FarDate)

CONSTANTS u1, u2

Rosters == (u1 :> <<Forever, Plain, Known>>) @@ (u2 :> <<Plain, Known>>)

RulingsSent ==
  {[action |-> "approve_create", payload |-> "said",
    ruling |-> [base |-> "full", honorary |-> "none", coverage |-> "",
                paid |-> "2025-12-31"]]}

Person == [call |-> "", class |-> "extra", examiner |-> TRUE, active |-> TRUE,
           notes |-> <<>>]
OnFile == <<Person, Person>>
Enrolled ==
  <<[person |-> 1, base |-> "full", lifecycle |-> "active",
     coverage |-> <<[date |-> "2024-12-31", kind |-> "payment"]>>, grants |-> <<>>],
    [person |-> 2, base |-> "associate", lifecycle |-> "active",
     coverage |-> <<>>, grants |-> <<>>]>>
Address(p) == [owner |-> p, kind |-> "email", text |-> "m1", primary |-> TRUE,
               audience |-> "hidden"]
Addresses == <<Address(1), Address(2)>>
OnRoster == {[ext |-> "e3", person |-> 1], [ext |-> "e4", person |-> 2]}

=============================================================================
