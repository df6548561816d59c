---------------------------- MODULE Suggestions -----------------------------
(***************************************************************************)
(* The member's own edit form: it shows the record, takes it back edited,  *)
(* and files one request with an item per field that differs.              *)
(*                                                                         *)
(* Code: memberSuggestOwnForm and memberSuggestOwnSubmit of                *)
(* internal/web/member.go, over internal/domain/changerequests.            *)
(*                                                                         *)
(* The posted form carries values and no versions: the handler reads the   *)
(* record again and compares what was posted with the record as it is NOW, *)
(* not with the record the member was shown.  The record may move on once  *)
(* more before the request is filed, in a transaction of its own.          *)
(***************************************************************************)
EXTENDS ChangeRequests, Ranking

CONSTANTS
  Own,              \* the record each member account is granted
  NoForm,           \* the member has no form open
  Listable,         \* kinds of contact the directory may list
  Listed, Hidden,   \* the two listing choices, among Texts
  ListedByDefault   \* the directory's answer when no choice is on file

CONSTANT SendLimit   \* bound: submissions under way at once

ASSUME OwnRecords == Own \in [Users -> People]
ASSUME ListingChoices == Listed \in Texts /\ Hidden \in Texts /\ Listed # Hidden
ASSUME DefaultIsAnswer == ListedByDefault \in BOOLEAN
ASSUME SomeKind == Kinds # {}
ASSUME RoomAtFirst == Len(FirstContacts) <= ContactLimit

VARIABLES
  forms,   \* the values each member's open form shows
  sending, \* submissions that have read the record and not filed yet
  told     \* the request each member was last told has been sent, 0 for none

suggestionVars == <<vars, forms, sending, told>>

\* Slip: the posted names are trusted.
AnyContacts(p) == {c \in ContactIds : ~contacts[c].archived}

ActiveContacts(p) ==
  {c \in ContactIds : contacts[c].owner = p /\ ~contacts[c].archived}

Values(ids) == [ids -> Texts]

Form == [name : Texts, sign : Maybe,
         values : UNION {Values(ids) : ids \in SUBSET (1..ContactLimit)},
         shares : UNION {Values(ids) : ids \in SUBSET (1..ContactLimit)},
         note : BOOLEAN]

\* memberEditIdempotencyKey is made of what was posted.
ASSUME FormsAreKeys == Form \subseteq Keys

\* seen holds the version of each item's target as it was read.
Sending == [by : Users, form : Form, intake : Seq(Proposal), seen : Seq(Nat)]

SuggestionTypeOK ==
  /\ forms \in [Users -> Form \cup {NoForm}]
  /\ sending \subseteq Sending
  /\ told \in [Users -> 0..RequestLimit]

SuggestionInit ==
  /\ Init
  /\ forms = [u \in Users |-> NoForm]
  /\ sending = {}
  /\ told = [u \in Users |-> 0]

\* Officers-only and hidden are one answer to a member.
CurrentShare(c) ==
  LET events == {e \in DOMAIN visibility : visibility[e].of = c}
      latest == CHOOSE e \in events : \A f \in events : f <= e
      listed == IF events = {} THEN ListedByDefault
                ELSE visibility[latest].text = Listed
  IN IF listed THEN Listed ELSE Hidden

\* The record as the form shows it.
Profile(p) ==
  [name |-> persons[p].name, sign |-> persons[p].sign,
   values |-> [c \in ActiveContacts(p) |-> contacts[c].text],
   shares |-> [c \in {d \in ActiveContacts(p) : contacts[d].kind \in Listable} |->
                 CurrentShare(c)],
   note |-> FALSE]

OpenForm(u) ==
  /\ forms' = [forms EXCEPT ![u] = Profile(Own[u])]
  /\ told' = [told EXCEPT ![u] = 0]
  /\ UNCHANGED <<vars, sending>>

\* What the member may have made of the form they were shown.
Edits(form) ==
  [name : Texts, sign : Maybe, values : Values(DOMAIN form.values),
   shares : [DOMAIN form.shares -> {Listed, Hidden}], note : BOOLEAN]

\* Only the record's own contacts are read.  A blank is refused: a cleared call
\* sign, or a contact added since, which the posted form lacks.
Readable(form, now) ==
  /\ form.sign = NoText => now.sign = NoText
  /\ DOMAIN now.values \subseteq DOMAIN form.values

\* A choice the posted form lacks is no change.
Share(form, now, c) ==
  IF c \in DOMAIN form.shares THEN form.shares[c] ELSE now.shares[c]

Suggest(op, target, kind, text) ==
  [op |-> op, target |-> target, declared |-> FALSE, kind |-> kind, text |-> text]

AnyKind == CHOOSE kind \in Kinds : TRUE

\* memberEditItems: one item per field that differs from the record.
EditItems(p, form, now) ==
  LET differ == {c \in DOMAIN now.values : form.values[c] # now.values[c]}
      chosen == {c \in DOMAIN now.shares : Share(form, now, c) # now.shares[c]}
      person(op, text, old) ==
        IF text = old THEN <<>> ELSE <<Suggest(op, p, AnyKind, text)>>
  IN person("person.display_name.set", form.name, now.name)
     \o person("person.call_sign.set", form.sign, now.sign)
     \o [i \in DOMAIN Ascending(differ) |->
           LET c == Ascending(differ)[i] IN
           Suggest("contact_method.update", c, contacts[c].kind, form.values[c])]
     \o [i \in DOMAIN Ascending(chosen) |->
           LET c == Ascending(chosen)[i] IN
           Suggest("contact_method.visibility.set", c, contacts[c].kind,
                   form.shares[c])]

\* A note alone travels as words.
Intake(p, form, now) ==
  IF EditItems(p, form, now) = <<>> THEN <<Suggest("other", 0, AnyKind, now.name)>>
  ELSE EditItems(p, form, now)

Versions(intake) == [i \in DOMAIN intake |-> TargetVersion(intake[i])]

\* The record is read again, and becomes what the submission proposes.
SubmitReads(u, form) ==
  LET now == Profile(Own[u])
      intake == Intake(Own[u], form, now) IN
  /\ Cardinality(sending) < SendLimit
  /\ Readable(form, now)
  /\ EditItems(Own[u], form, now) # <<>> \/ form.note
  /\ sending' = sending \cup
       {[by |-> u, form |-> form, intake |-> intake, seen |-> Versions(intake)]}
  /\ UNCHANGED <<vars, forms, told>>

\* createFingerprint: what is stored is the request's own fingerprint, so a key
\* an officer's intake used is no replay of the member's.  (The person is left
\* out: triage may have changed the one on the row.)
SameRequest(call, r) ==
  /\ requests[r].requester = call.by
  /\ Len(items[r]) = Len(call.intake)
  /\ \A i \in DOMAIN call.intake :
       /\ items[r][i].proposal = call.intake[i]
       /\ items[r][i].seen = call.seen[i]

\* The idempotency key is the posted form itself.
Submit(call) ==
  /\ sending' = sending \ {call}
  /\ \/ /\ Create(call.by, call.form, call.by, Own[call.by], call.intake, call.seen)
        /\ told' = [told EXCEPT ![call.by] = Len(requests) + 1]
     \/ \E c \in claims :
          /\ c.actor = call.by /\ c.key = call.form
          /\ SameRequest(call, c.request)
          /\ told' = [told EXCEPT ![call.by] = c.request]
          /\ UNCHANGED vars
  /\ UNCHANGED forms

\* Refused, failed or stopped.
SubmitStops(call) ==
  sending' = sending \ {call} /\ UNCHANGED <<vars, forms, told>>

SuggestionNext ==
  \/ \E u \in Users : OpenForm(u)
  \/ \E u \in Users :
       /\ forms[u] # NoForm
       /\ \E form \in Edits(forms[u]) : SubmitReads(u, form)
  \/ \E call \in sending : Submit(call) \/ SubmitStops(call)
  \/ Next /\ UNCHANGED <<forms, sending, told>>

SuggestionSpec == SuggestionInit /\ [][SuggestionNext]_suggestionVars

-----------------------------------------------------------------------------
(* Properties.                                                             *)

\* "A contact input is read by looking up each contact the record holds": what
\* a member is told was sent is their own request, and each of its items names
\* their record or a contact of it.
SuggestionsStayAtHome ==
  \A u \in Users : told[u] # 0 =>
    /\ requests[told[u]].requester = u
    /\ \A i \in ItemIds(told[u]) :
         LET proposal == items[told[u]][i].proposal IN
         CASE proposal.op \in ContactOps -> contacts[proposal.target].owner = Own[u]
           [] proposal.op \in PersonOps -> proposal.target = Own[u]
           [] OTHER -> proposal.target = 0

=============================================================================
