---------------------------- MODULE Relationships ----------------------------
(***************************************************************************)
(* Who is recorded as related to whom.  A relationship is informational:   *)
(* it is corrected or archived, never deleted, and its two ends never      *)
(* change.                                                                 *)
(*                                                                         *)
(* Code: internal/domain/relationships, whose writes are transactions, the *)
(* statements of internal/db/sqlc/relationships.sql.go and the operations  *)
(* of internal/httpapi/ops_relationships.go.                               *)
(***************************************************************************)
EXTENDS Integers, FiniteSets, Sequences

CONSTANTS
  People, Kinds

VARIABLE relations   \* person_relationships

Current == {r \in DOMAIN relations : ~relations[r].archived}

\* ux_person_relationship_active, as the row r would be.
IsUnique(r, from, to, kind) ==
  \A q \in Current \ {r} :
    <<relations[q].from, relations[q].to, relations[q].kind>> # <<from, to, kind>>

CreateRelationship(from, to, kind) ==
  /\ from # to /\ IsUnique(0, from, to, kind)
  /\ relations' = Append(relations,
       [from |-> from, to |-> to, kind |-> kind, archived |-> FALSE, version |-> 1])

\* Slip: whether the row is archived is left to the version.
UpdateAnyRelationship(r, version, kind) ==
  /\ relations[r].version = version
  /\ IsUnique(r, relations[r].from, relations[r].to, kind)
  /\ relations' = [relations EXCEPT ![r].kind = kind, ![r].version = @ + 1]

UpdateRelationship(r, version, kind) ==
  /\ r \in Current /\ relations[r].version = version
  /\ IsUnique(r, relations[r].from, relations[r].to, kind)
  /\ relations' = [relations EXCEPT ![r].kind = kind, ![r].version = @ + 1]

ArchiveRelationship(r, version) ==
  /\ r \in Current /\ relations[r].version = version
  /\ relations' = [relations EXCEPT ![r].archived = TRUE, ![r].version = @ + 1]

\* What a person's page lists, and whom each line names.
ListForPerson(p) == {r \in Current : p \in {relations[r].from, relations[r].to}}
History(p) == {r \in DOMAIN relations : p \in {relations[r].from, relations[r].to}}
OtherPerson(r, p) == IF relations[r].from = p THEN relations[r].to ELSE relations[r].from

RelationshipStep ==
  \/ \E from, to \in People, kind \in Kinds : CreateRelationship(from, to, kind)
  \/ \E r \in DOMAIN relations : \E version \in 1 .. relations[r].version :
       \/ \E kind \in Kinds : UpdateRelationship(r, version, kind)
       \/ ArchiveRelationship(r, version)

\* An archived relationship stays as it was recorded, whoever still has it
\* open on a page; a person's history only grows, and a line of it names the
\* same other person for ever.
HouseholdsAreHistory ==
  \A p \in People :
    /\ History(p) \subseteq History(p)'
    /\ \A r \in History(p) : OtherPerson(r, p)' = OtherPerson(r, p)
    /\ \A r \in History(p) \ ListForPerson(p) : relations'[r] = relations[r]

=============================================================================
