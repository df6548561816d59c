------------------------------- MODULE Roster -------------------------------
(***************************************************************************)
(* What one row of an exported roster means: its normal form, the record   *)
(* it matches, the action proposed for it, and what an officer's ruling    *)
(* makes of its dues.                                                      *)
(*                                                                         *)
(* Code: internal/domain/importd/{record,normalize,match,dues}.go.         *)
(*                                                                         *)
(* Names and addresses are atoms; "" is the empty text.  What only changes *)
(* spelling (case, spaces, the digits of a telephone number) is left out.  *)
(***************************************************************************)
EXTENDS Integers, Sequences, SequencesExt, FiniteSets

CONSTANTS
  KnownLifetime,   \* external ids confirmed as lifetime members
  IsoDates         \* the dates a row may carry that parse

\* 01/01/0001 stands for no date and 12/31/2055 for no end.
NullDate == "01/01/0001"
FarDate == "12/31/2055"

RawRecord(Texts, Dates, Sentences) ==
  [ext : Texts, name : Texts, call : Texts, email : Texts,
   phone : {"", "short", "whole"}, street : Texts,
   type : {"Full", "Associate", "Honorary", "Other"},
   class : Texts, examiner : BOOLEAN, until : Dates, note : SUBSET Sentences]

-----------------------------------------------------------------------------
(* Normal form.                                                            *)

BaseType(type) ==
  CASE type = "Full" -> "full"
    [] type = "Associate" -> "associate"
    [] OTHER -> ""

CurrentUntilFlag(raw) ==
  CASE raw.until = NullDate -> "sentinel_null"
    [] raw.until = FarDate /\ raw.ext \in KnownLifetime -> "lifetime_known"
    [] raw.until = FarDate /\ raw.ext \notin KnownLifetime -> "lifetime_unknown"
    [] OTHER -> ""

CurrentUntil(raw) == IF raw.until = NullDate THEN "" ELSE raw.until

\* A number with fewer than seven digits is kept and marked as no number.
PhoneValid(raw) == raw.phone # "short"

Normalize(raw) ==
  LET flag == CurrentUntilFlag(raw)
      base == IF raw.type = "Honorary" /\ flag = "lifetime_known"
              THEN "associate" ELSE BaseType(raw.type)
      reason == CASE flag = "lifetime_unknown" -> "lifetime_like_date"
                  [] raw.type = "Honorary" /\ base = "" -> "honorary_type"
                  [] OTHER -> ""
  IN [ext |-> raw.ext, name |-> raw.name, call |-> raw.call, email |-> raw.email,
      phone |-> raw.phone, phoneValid |-> PhoneValid(raw), street |-> raw.street,
      type |-> raw.type, base |-> base, class |-> raw.class,
      examiner |-> raw.examiner, until |-> CurrentUntil(raw), flag |-> flag,
      note |-> raw.note, manual |-> reason # "", reason |-> reason]

-----------------------------------------------------------------------------
(* Match and proposal, over the records held at the time of the upload.    *)

NoMatch == [person |-> 0, method |-> "none", ambiguous |-> FALSE]

Found(p, by) == [person |-> p, method |-> by, ambiguous |-> FALSE]

\* The external id decides before the call sign, the call sign before e-mail.
Match(norm, linked, bySign, byEmail) ==
  IF norm.ext # "" /\ linked # 0 THEN Found(linked, "external_id")
  ELSE IF norm.call # "" /\ bySign # 0 THEN Found(bySign, "call_sign")
  ELSE CASE norm.email # "" /\ Cardinality(byEmail) = 1 ->
              Found(CHOOSE p \in byEmail : TRUE, "email")
         [] norm.email # "" /\ Cardinality(byEmail) > 1 ->
              [person |-> 0, method |-> "email", ambiguous |-> TRUE]
         [] OTHER -> NoMatch

NeedsOfficer(norm, match) == norm.manual \/ match.ambiguous

\* Slip: only an ambiguous match is left to an officer.
ProposeUnlessAmbiguous(norm, match) ==
  CASE match.ambiguous -> "manual"
    [] ~match.ambiguous /\ match.person > 0 -> "update"
    [] OTHER -> "create"

ProposeAction(norm, match) ==
  CASE NeedsOfficer(norm, match) -> "manual"
    [] ~NeedsOfficer(norm, match) /\ match.person > 0 -> "update"
    [] OTHER -> "create"

-----------------------------------------------------------------------------
(* Rulings.                                                                *)

NoRuling == [base |-> "", honorary |-> "", coverage |-> "", paid |-> ""]

\* The latest ruling that says anything; text that does not parse says nothing.
DecisionFor(decisions) ==
  LET i == SelectLastInSeq(decisions, LAMBDA d : d.payload # "")
  IN IF i = 0 \/ decisions[i].payload = "garbled" THEN NoRuling
     ELSE decisions[i].ruling

BaseTypeFor(norm, ruling) == IF ruling.base # "" THEN ruling.base ELSE norm.base

IsLifetimeHonorary(norm, ruling) ==
  \/ ruling.honorary = "lifetime"
  \/ /\ ruling.honorary # "none"
     /\ norm.type = "Honorary"
     /\ norm.flag = "lifetime_known"

CoverageDateFor(norm, ruling) ==
  IF ruling.coverage = "none" THEN ""
  ELSE IF ruling.paid # "" THEN ruling.paid
  ELSE IF IsLifetimeHonorary(norm, ruling) \/ norm.flag # "" THEN ""
  ELSE norm.until

IsISODate(date) == date \in IsoDates

=============================================================================
