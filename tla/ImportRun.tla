------------------------------ MODULE ImportRun -----------------------------
(***************************************************************************)
(* An import of the club's roster: a file is uploaded and staged row by    *)
(* row, officers rule on the rows nobody may guess at, and a commit makes  *)
(* persons, contacts, memberships and dues decisions of what was staged.   *)
(*                                                                         *)
(* Code: internal/domain/importd/service.go and dues.go, the statements of *)
(* internal/db/sqlc/imports.sql.go, and the two surfaces over them         *)
(* (internal/httpapi/ops_import.go, internal/web/handler.go).              *)
(*                                                                         *)
(* Only the commit runs in a transaction.  An upload, a ruling, a preview  *)
(* and a discard are statements of their own: a call is a record in        *)
(* "calls" between two of them, other calls run meanwhile, and a call that *)
(* fails or whose process stops is dropped where it stands.                *)
(***************************************************************************)
EXTENDS Roster, Functions

CONSTANTS
  Keys,          \* idempotency keys of uploads
  FileOf,        \* the roster each key is sent with: a sequence of raw rows
  Sent,          \* rulings sent over the API: [action, payload, ruling]
  FirstPersons, FirstMemberships, FirstContacts, FirstLinks,  \* on file already
  InHand,        \* the persons officers work on meanwhile, a bound
  RunLimit, CallLimit, DecisionLimit, PersonLimit, EditLimit  \* bounds

ASSUME ImportBounds == RunLimit \in Nat /\ CallLimit \in Nat
ASSUME FilesAreLists ==
  \A key \in Keys :
    /\ FileOf[key] \in Seq(RawRecord(STRING, STRING, STRING))
    /\ \A i \in DOMAIN FileOf[key] : IsFiniteSet(FileOf[key][i].note)

\* Imports and officers write both notes and honorary grants.
Authors == {"import", "officer"}
Note == [body : STRING, by : Authors, edited : BOOLEAN]
Grant == [by : Authors, lifetime : BOOLEAN, revoked : BOOLEAN]
CoverageEvent == [date : STRING, kind : {"payment", "import"}]

PersonRow ==
  [call : STRING, class : STRING, examiner : BOOLEAN, active : BOOLEAN,
   notes : Seq(Note)]

MembershipRow ==
  [person : Nat, base : STRING, lifecycle : STRING,
   coverage : Seq(CoverageEvent), grants : Seq(Grant)]

\* A lifetime grant that stands: not revoked, and given no end since.
Stands(grant) == grant.lifetime /\ ~grant.revoked

\* What an import looks for before it writes is not there twice: one imported
\* decision per date, no import's grant made while another stood, no import's
\* sentence beside the same sentence (unless an officer rewrote one of the two),
\* one person per external id.  Empty tables are so, and so is what an earlier
\* import left.
CoveredOnce(coverage) ==
  \A i, j \in DOMAIN coverage :
    coverage[i].kind = "import" /\ coverage[i] = coverage[j] => i = j

GrantedOnce(grants) ==
  \A i, j \in DOMAIN grants :
    i < j /\ grants[j].by = "import" => ~Stands(grants[i])

NotedOnce(notes) ==
  \A i, j \in DOMAIN notes :
    i < j /\ notes[j].by = "import" /\ notes[i].body = notes[j].body =>
      notes[i].edited \/ notes[j].edited

NamesOne(found) == \A k, l \in found : k.ext = l.ext => k = l

ASSUME NothingTwiceAtFirst ==
  /\ FirstPersons \in Seq(PersonRow) /\ FirstMemberships \in Seq(MembershipRow)
  /\ \A p \in DOMAIN FirstPersons : NotedOnce(FirstPersons[p].notes)
  /\ \A m \in DOMAIN FirstMemberships :
       /\ CoveredOnce(FirstMemberships[m].coverage)
       /\ GrantedOnce(FirstMemberships[m].grants)
  /\ NamesOne(FirstLinks)

VARIABLES
  runs,         \* import_runs
  rows,         \* staged_import_rows of each run, with their decisions
  calls,        \* the calls between two statements
  persons, contacts, links, memberships,   \* the canonical tables
  landed        \* history: the rows applied by commits that went through

tables == <<persons, contacts, links, memberships>>
importVars == <<runs, rows, calls, persons, contacts, links, memberships, landed>>

Status == {"uploaded", "validated", "previewed", "committed", "discarded"}
Open == {"validated", "previewed"}
Actions == {"create", "update", "skip", "manual"}
Rulings == {"approve_create", "approve_update", "skip"}
NoSummary == [created |-> 0, updated |-> 0, skipped |-> 0]

RunIds == DOMAIN runs
Room == Cardinality(calls) < CallLimit

\* Two officers may ask for the same thing: each call is one of its own.
Same(op, r) == {call \in calls : call.op = op /\ call.run = r}
NewCall(op, r) ==
  [op |-> op, run |-> r, version |-> runs[r].version, nth |-> Cardinality(Same(op, r))]

ImportInit ==
  /\ runs = <<>> /\ rows = <<>> /\ calls = {} /\ landed = <<>>
  /\ persons = FirstPersons /\ contacts = FirstContacts
  /\ links = FirstLinks /\ memberships = FirstMemberships

-----------------------------------------------------------------------------
(* Statements on the import's own tables.                                  *)

GetImportRunByIdempotencyKey(key) == {r \in RunIds : runs[r].key = key}

CreateImportRun(file, key) ==
  [file |-> file, key |-> key, status |-> "uploaded", version |-> 1,
   summary |-> NoSummary]

CreateStagedRow(norm, match) ==
  [norm |-> norm, match |-> match.person, ambiguous |-> match.ambiguous,
   action |-> ProposeAction(norm, match),
   manual |-> NeedsOfficer(norm, match), decisions |-> <<>>]

\* Slip: the version is not compared.
UpdateAnyVersion(call, status) ==
  runs' = [runs EXCEPT ![call.run].status = status, ![call.run].version = @ + 1]

\* Guarded by the version the caller read.
UpdateImportRunStatus(call, status) ==
  /\ runs[call.run].version = call.version
  /\ runs' = [runs EXCEPT ![call.run].status = status, ![call.run].version = @ + 1]

\* Slip: the version is not compared.
CommitAnyVersion(call, summary) ==
  runs' = [runs EXCEPT ![call.run].status = "committed",
                       ![call.run].summary = summary, ![call.run].version = @ + 1]

CommitImportRun(call, summary) ==
  /\ runs[call.run].version = call.version
  /\ runs' = [runs EXCEPT ![call.run].status = "committed",
                          ![call.run].summary = summary,
                          ![call.run].version = @ + 1]

CreateReconciliationDecision(row, call) ==
  [row EXCEPT !.decisions =
     Append(@, [action |-> call.action, payload |-> call.payload,
                ruling |-> call.ruling])]

UpdateStagedRowAction(row, action) == [row EXCEPT !.action = action, !.manual = FALSE]

\* A row any decision names counts as resolved, whatever became of it.
CountUnresolvedManualRows(r) ==
  Cardinality({i \in DOMAIN rows[r] :
                 rows[r][i].manual /\ rows[r][i].decisions = <<>>})

\* The run's page: a decision clears the flag, so the page asks for both.
ImportDetail(row) ==
  CASE row.manual -> "manual"
    [] ~row.manual /\ row.decisions # <<>> -> "decided"
    [] OTHER -> "auto"

CountStagedRowsByAction(r, action) ==
  Cardinality({i \in DOMAIN rows[r] : rows[r][i].action = action})

-----------------------------------------------------------------------------
(* The matcher, over the tables as they are when the row is staged.        *)

MatchByExternalID(ext) ==
  LET found == {l \in links : l.ext = ext}
  IN IF found = {} THEN 0 ELSE (CHOOSE l \in found : TRUE).person

MatchByCallSign(call) ==
  LET found == {p \in DOMAIN persons : persons[p].call = call /\ persons[p].active}
  IN IF found = {} THEN 0 ELSE CHOOSE p \in found : TRUE

MatchByEmail(email) ==
  {p \in DOMAIN persons :
     /\ persons[p].active
     /\ \E c \in DOMAIN contacts :
          /\ contacts[c].owner = p
          /\ contacts[c].kind = "email"
          /\ contacts[c].text = email}

MatchNow(norm) ==
  Match(norm, MatchByExternalID(norm.ext), MatchByCallSign(norm.call),
        MatchByEmail(norm.email))

-----------------------------------------------------------------------------
(* Upload.                                                                 *)

\* The key is looked up, then inserted under a unique index: one winner.
UploadStarts(key) ==
  /\ Len(runs) < RunLimit /\ Room
  /\ GetImportRunByIdempotencyKey(key) = {}
  /\ runs' = Append(runs, CreateImportRun(FileOf[key], key))
  /\ rows' = Append(rows, <<>>)
  /\ calls' = calls \cup {[op |-> "upload", run |-> Len(runs) + 1, version |-> 1]}
  /\ UNCHANGED <<tables, landed>>

UploadStagesRow(call) ==
  LET r == call.run
      i == Len(rows[r]) + 1
      norm == Normalize(runs[r].file[i]) IN
  /\ call.op = "upload"
  /\ i \in DOMAIN runs[r].file
  /\ rows' = [rows EXCEPT ![r] = Append(@, CreateStagedRow(norm, MatchNow(norm)))]
  /\ UNCHANGED <<runs, calls, tables, landed>>

UploadValidates(call) ==
  /\ call.op = "upload"
  /\ Len(rows[call.run]) = Len(runs[call.run].file)
  /\ UpdateImportRunStatus(call, "validated")
  /\ calls' = calls \ {call}
  /\ UNCHANGED <<rows, tables, landed>>

-----------------------------------------------------------------------------
(* Rulings: the decision and the row are two statements.                   *)

DecisionBegins(r, i, action, said) ==
  /\ Room
  /\ runs[r].status \in Open
  /\ rows[r][i].manual
  /\ Len(rows[r][i].decisions) < DecisionLimit
  /\ calls' = calls \cup {[op |-> "decide", run |-> r, row |-> i, action |-> action,
                           payload |-> said.payload, ruling |-> said.ruling]}
  /\ UNCHANGED <<runs, rows, tables, landed>>

\* The officers' page passes on whatever action is posted, none standing for a
\* skip, and sends no payload.
ImportRowDecide(r, i) ==
  \E action \in Rulings \cup {"other"} :
    DecisionBegins(r, i, action, [payload |-> "", ruling |-> NoRuling])

\* The API takes the three rulings, with any payload.
DecideOverApi(r, i) ==
  \E said \in Sent :
    said.action \in Rulings /\ DecisionBegins(r, i, said.action, said)

RecordDecision(call) ==
  /\ call.op = "decide"
  /\ rows' = [rows EXCEPT ![call.run][call.row] = CreateReconciliationDecision(@, call)]
  /\ calls' = (calls \ {call}) \cup {[call EXCEPT !.op = "rule"]}
  /\ UNCHANGED <<runs, tables, landed>>

ActionOf(ruling) ==
  CASE ruling = "approve_create" -> "create"
    [] ruling = "approve_update" -> "update"
    [] ruling = "skip" -> "skip"
    [] OTHER -> "manual"

\* Neither the run's status nor the row is looked at again.  An action that is
\* no ruling is on record and leaves the row waiting.
RuleOnRow(call) ==
  /\ call.op = "rule"
  /\ IF call.action \in Rulings
     THEN rows' = [rows EXCEPT ![call.run][call.row] =
                     UpdateStagedRowAction(@, ActionOf(call.action))]
     ELSE UNCHANGED rows
  /\ calls' = calls \ {call}
  /\ UNCHANGED <<runs, tables, landed>>

-----------------------------------------------------------------------------
(* Preview and discard.                                                    *)

Begin(op, r, from) ==
  /\ Room
  /\ runs[r].status \in from
  /\ calls' = calls \cup {NewCall(op, r)}
  /\ UNCHANGED <<runs, rows, tables, landed>>

PreviewBegins(r) == Begin("preview", r, {"validated"})
DiscardBegins(r) == Begin("discard", r, Open)

\* The run moves on the first preview only; a later one only counts.
Preview(call) ==
  /\ call.op = "preview"
  /\ UpdateImportRunStatus(call, "previewed")
  /\ calls' = calls \ {call}
  /\ UNCHANGED <<rows, tables, landed>>

Discard(call) ==
  /\ call.op = "discard"
  /\ UpdateImportRunStatus(call, "discarded")
  /\ calls' = calls \ {call}
  /\ UNCHANGED <<rows, tables, landed>>

\* A call whose version is stale, or whose process stopped, ends here.
CallEnds(call) ==
  /\ calls' = calls \ {call}
  /\ UNCHANGED <<runs, rows, tables, landed>>

-----------------------------------------------------------------------------
(* The commit's statements, over a copy of the tables: T.ok falls when a   *)
(* unique index refuses a row, and the whole transaction with it.          *)

Refused(T) == [T EXCEPT !.ok = FALSE]

CreatePerson(T, norm) ==
  IF norm.call # "" /\ \E p \in DOMAIN T.persons : T.persons[p].call = norm.call
  THEN Refused(T)
  ELSE [T EXCEPT !.persons =
          Append(@, [call |-> norm.call, class |-> norm.class,
                     examiner |-> norm.examiner, active |-> TRUE, notes |-> <<>>])]

FindExternalID(T, ext) == {l \in T.links : l.ext = ext}

CreateExternalID(T, p, ext) ==
  IF FindExternalID(T, ext) # {} THEN Refused(T)
  ELSE [T EXCEPT !.links = @ \cup {[ext |-> ext, person |-> p]}]

\* The club's default for an imported detail, on record and never absent.
RecordImportVisibility(kind, base) ==
  IF base = "full" /\ kind \in {"email", "phone"} THEN "full_members" ELSE "hidden"

CreateContactMethod(T, p, kind, text, base) ==
  IF text = "" THEN T
  ELSE [T EXCEPT !.contacts =
          Append(@, [owner |-> p, kind |-> kind, text |-> text,
                     primary |-> kind = "email",
                     audience |-> RecordImportVisibility(kind, base)])]

CreateContacts(T, p, norm, base) ==
  LET phone == IF norm.phoneValid THEN norm.phone ELSE ""
      mailed == CreateContactMethod(T, p, "email", norm.email, base)
      called == CreateContactMethod(mailed, p, "phone", phone, base)
  IN CreateContactMethod(called, p, "postal", norm.street, base)

\* Created, approved and the approval recorded, in one step of the transaction.
CreateMembership(T, p, base) ==
  [T EXCEPT !.memberships =
     Append(@, [person |-> p, base |-> base, lifecycle |-> "active",
                coverage |-> <<>>, grants |-> <<>>])]

NewNote(body, author) == [body |-> body, by |-> author, edited |-> FALSE]
NewGrant(author) == [by |-> author, lifetime |-> TRUE, revoked |-> FALSE]

Bodies(notes) == {notes[n].body : n \in DOMAIN notes}

\* A sentence on file is not written again, whoever wrote it.  The newest 1000
\* notes of a person, which is as far as the code reads, are taken to be all.
CreateImportNotes(T, p, note) ==
  LET held == T.persons[p].notes
      new == SetToSeq(note \ Bodies(held))
  IN [T EXCEPT !.persons[p].notes =
        held \o [n \in DOMAIN new |-> NewNote(new[n], "import")]]

\* One that stands will do; one that was revoked or ended does not count.
EnsureLifetimeGrant(T, m) ==
  LET held == T.memberships[m].grants
  IN IF \E g \in DOMAIN held : Stands(held[g]) THEN T
     ELSE [T EXCEPT !.memberships[m].grants = Append(@, NewGrant("import"))]

\* Slip: the decision looked for is a payment's, not an import's.
FindPaymentCoverageEvent(T, m, date) ==
  {e \in DOMAIN T.memberships[m].coverage :
     T.memberships[m].coverage[e] = [date |-> date, kind |-> "payment"]}

FindImportCoverageEvent(T, m, date) ==
  {e \in DOMAIN T.memberships[m].coverage :
     T.memberships[m].coverage[e] = [date |-> date, kind |-> "import"]}

\* The new event supersedes the effective one, the last of the chain.
EnsureImportCoverage(T, m, date) ==
  IF FindImportCoverageEvent(T, m, date) # {} THEN T
  ELSE [T EXCEPT !.memberships[m].coverage = Append(@, [date |-> date, kind |-> "import"])]

ApplyDuesDecisions(T, m, norm, ruling) ==
  LET granted == IF IsLifetimeHonorary(norm, ruling) THEN EnsureLifetimeGrant(T, m) ELSE T
      date == CoverageDateFor(norm, ruling)
  IN IF IsISODate(date) THEN EnsureImportCoverage(granted, m, date) ELSE granted

\* The newest membership that has not ended, 0 for none.
MembershipForPerson(T, p) ==
  SelectLastInSeq(T.memberships, LAMBDA m :
    m.person = p /\ m.lifecycle \notin {"rejected", "resigned", "deceased"})

ApplyCreate(T, row) ==
  LET ruling == DecisionFor(row.decisions)
      base == BaseTypeFor(row.norm, ruling)
      made == CreatePerson(T, row.norm)
      p == Len(made.persons)
      linked == IF row.norm.ext = "" THEN made ELSE CreateExternalID(made, p, row.norm.ext)
      reached == CreateContacts(linked, p, row.norm, base)
      enrolled == CreateMembership(reached, p, base)
      paid == ApplyDuesDecisions(enrolled, Len(enrolled.memberships), row.norm, ruling)
  IN CASE ~linked.ok -> Refused(T)
       [] linked.ok /\ base = "" -> CreateImportNotes(reached, p, row.norm.note)
       [] OTHER -> CreateImportNotes(paid, p, row.norm.note)

\* A blank in the export leaves what is held; the examiner mark has no blank.
UpdatePerson(T, p, norm) ==
  LET held == T.persons[p]
      call == IF norm.call = "" THEN held.call ELSE norm.call
      class == IF norm.class = "" THEN held.class ELSE norm.class
  IN IF \E q \in DOMAIN T.persons \ {p} : call # "" /\ T.persons[q].call = call
     THEN Refused(T)
     ELSE [T EXCEPT !.persons[p] =
             [held EXCEPT !.call = call, !.class = class, !.examiner = norm.examiner]]

\* A row that matched nobody changes nothing and is counted as an update.
ApplyUpdate(T, row) ==
  LET p == row.match
      ruling == DecisionFor(row.decisions)
      base == BaseTypeFor(row.norm, ruling)
      known == UpdatePerson(T, p, row.norm)
      linked == IF row.norm.ext = "" \/ FindExternalID(T, row.norm.ext) # {} THEN known
                ELSE CreateExternalID(known, p, row.norm.ext)
      held == MembershipForPerson(linked, p)
      enrolled == IF held = 0 /\ base # "" THEN CreateMembership(linked, p, base)
                  ELSE linked
      m == MembershipForPerson(enrolled, p)
      paid == IF m = 0 THEN enrolled ELSE ApplyDuesDecisions(enrolled, m, row.norm, ruling)
  IN CASE p = 0 -> T
       [] p # 0 /\ ~linked.ok -> Refused(T)
       [] OTHER -> CreateImportNotes(paid, p, row.norm.note)

ApplyRow(T, row) ==
  CASE ~T.ok -> T
    [] T.ok /\ row.action = "create" -> ApplyCreate(T, row)
    [] T.ok /\ row.action = "update" -> ApplyUpdate(T, row)
    [] OTHER -> T

\* ListStagedRows: in the order of the file, in batches of 500.
ApplyRows(r) ==
  FoldLeft(ApplyRow,
           [persons |-> persons, contacts |-> contacts, links |-> links,
            memberships |-> memberships, ok |-> TRUE],
           rows[r])

Summary(r) ==
  [created |-> CountStagedRowsByAction(r, "create"),
   updated |-> CountStagedRowsByAction(r, "update"),
   skipped |-> CountStagedRowsByAction(r, "skip") + CountStagedRowsByAction(r, "manual")]

\* The rows a commit applies, for the history.
Landing(r) ==
  SetToSeq({[run |-> r, row |-> i, action |-> rows[r][i].action] :
              i \in {j \in DOMAIN rows[r] : rows[r][j].action \in {"create", "update"}}})

\* Checked before the transaction opens.
CommitBegins(r) ==
  /\ CountUnresolvedManualRows(r) = 0
  /\ Begin("commit", r, {"previewed"})

Commit(call) ==
  LET T == ApplyRows(call.run) IN
  /\ call.op = "commit"
  /\ T.ok
  /\ Len(T.persons) <= PersonLimit
  /\ CommitImportRun(call, Summary(call.run))
  /\ persons' = T.persons /\ contacts' = T.contacts
  /\ links' = T.links /\ memberships' = T.memberships
  /\ landed' = landed \o Landing(call.run)
  /\ calls' = calls \ {call}
  /\ UNCHANGED rows

-----------------------------------------------------------------------------
(* Officers work on the same records meanwhile.                            *)

\* With a base type the officer's call goes on to "Apply".
Enrol(call) ==
  LET T == CreatePerson([persons |-> persons, ok |-> TRUE],
                        [call |-> call, class |-> "", examiner |-> FALSE]) IN
  /\ T.ok /\ Len(T.persons) <= PersonLimit
  /\ persons' = T.persons
  /\ UNCHANGED <<runs, rows, calls, contacts, links, memberships, landed>>

\* Bounded: what officers have written or changed in one behaviour.
Edits ==
  Cardinality({p \in DOMAIN persons : ~persons[p].active})
  + Cardinality({m \in DOMAIN memberships : memberships[m].lifecycle # "active"})
  + Cardinality(UNION {{<<m, g>> : g \in {h \in DOMAIN memberships[m].grants :
                          \/ memberships[m].grants[h].by = "officer"
                          \/ ~Stands(memberships[m].grants[h])}}
                         : m \in DOMAIN memberships})
  + Cardinality(UNION {{<<p, n>> : n \in {k \in DOMAIN persons[p].notes :
                          \/ persons[p].notes[k].by = "officer"
                          \/ persons[p].notes[k].edited}}
                         : p \in DOMAIN persons})

OfficerWrites == Edits < EditLimit /\ UNCHANGED <<runs, rows, calls, contacts, links, landed>>

Deactivate(p) ==
  /\ OfficerWrites
  /\ persons[p].active
  /\ persons' = [persons EXCEPT ![p].active = FALSE]
  /\ UNCHANGED memberships

Apply(p, base) ==
  /\ OfficerWrites
  /\ memberships' = Append(memberships, [person |-> p, base |-> base,
                             lifecycle |-> "pending", coverage |-> <<>>, grants |-> <<>>])
  /\ UNCHANGED persons

EndMembership(m) ==
  /\ OfficerWrites
  /\ memberships[m].lifecycle = "active"
  /\ memberships' = [memberships EXCEPT ![m].lifecycle = "resigned"]
  /\ UNCHANGED persons

\* For life: a grant for a term is nothing an import looks at.
CreateHonoraryGrant(m) ==
  /\ OfficerWrites
  /\ memberships' = [memberships EXCEPT ![m].grants = Append(@, NewGrant("officer"))]
  /\ UNCHANGED persons

\* An end date makes any grant a term grant: given today, or by an edit.
ExpireHonoraryGrant(m, g) ==
  /\ OfficerWrites
  /\ memberships' = [memberships EXCEPT ![m].grants[g].lifetime = FALSE]
  /\ UNCHANGED persons

RevokeHonoraryGrant(m, g) ==
  /\ OfficerWrites
  /\ memberships' = [memberships EXCEPT ![m].grants[g].revoked = TRUE]
  /\ UNCHANGED persons

CreateNote(p, body) ==
  /\ OfficerWrites
  /\ persons' = [persons EXCEPT ![p].notes = Append(@, NewNote(body, "officer"))]
  /\ UNCHANGED memberships

UpdateNote(p, n, body) ==
  /\ OfficerWrites
  /\ persons' = [persons EXCEPT ![p].notes[n].body = body,
                                ![p].notes[n].edited = TRUE]
  /\ UNCHANGED memberships

\* What officers write about: the sentences of the rosters.
Sentences == UNION {raw.note : raw \in UNION {ToSet(FileOf[key]) : key \in Keys}}

OfficerEdits ==
  \/ \E p \in InHand \cap DOMAIN persons :
       \/ Deactivate(p) \/ Apply(p, "full")
       \/ \E body \in Sentences :
            \/ CreateNote(p, body)
            \/ \E n \in DOMAIN persons[p].notes : UpdateNote(p, n, body)
  \/ \E m \in {n \in DOMAIN memberships : memberships[n].person \in InHand} :
       \/ EndMembership(m) \/ CreateHonoraryGrant(m)
       \/ \E g \in DOMAIN memberships[m].grants :
            ExpireHonoraryGrant(m, g) \/ RevokeHonoraryGrant(m, g)

Calls == {raw.call : raw \in UNION {ToSet(FileOf[key]) : key \in Keys}} \ {""}

ImportNext ==
  \/ \E key \in Keys : UploadStarts(key)
  \/ \E r \in RunIds : \/ PreviewBegins(r)
                       \/ DiscardBegins(r)
                       \/ CommitBegins(r)
                       \/ \E i \in DOMAIN rows[r] : ImportRowDecide(r, i) \/ DecideOverApi(r, i)
  \/ \E call \in calls : \/ UploadStagesRow(call) \/ UploadValidates(call)
                         \/ RecordDecision(call) \/ RuleOnRow(call)
                         \/ Preview(call) \/ Discard(call) \/ Commit(call)
                         \/ CallEnds(call)
  \/ \E c \in Calls : Enrol(c)
  \/ OfficerEdits

ImportSpec == ImportInit /\ [][ImportNext]_importVars

-----------------------------------------------------------------------------
(* Properties.                                                             *)

ImportTypeOK ==
  /\ Len(runs) <= RunLimit /\ DOMAIN rows = RunIds
  /\ \A r \in RunIds :
       /\ runs[r].status \in Status
       /\ \A i \in DOMAIN rows[r] :
            rows[r][i].action \in Actions /\ rows[r][i].match \in 0..PersonLimit
  /\ \A call \in calls : call.run \in RunIds
  /\ \A c \in DOMAIN contacts : contacts[c].owner \in DOMAIN persons
  /\ \A l \in links : l.person \in DOMAIN persons
  /\ \A m \in DOMAIN memberships : memberships[m].person \in DOMAIN persons

\* Commit: "Applies all staged rows in a single transaction", once.  Whatever
\* calls overlap, no row is applied by two commits, rows of a run land only when
\* it is committed, and the summary kept for a retry counts exactly those.
LandsOnce ==
  /\ IsInjective(landed)
  /\ \A r \in RunIds :
       LET made(action) == {k \in DOMAIN landed :
                              landed[k].run = r /\ landed[k].action = action} IN
       /\ runs[r].summary.created = Cardinality(made("create"))
       /\ runs[r].summary.updated = Cardinality(made("update"))
       /\ made("create") \cup made("update") # {} => runs[r].status = "committed"

\* ADR-0008: rows that "require officer judgement" never reach the members'
\* tables by guess.  A row normalisation or the matcher refused lands only as
\* some officer's recorded decision approved it, and the run's page never calls
\* such a row automatic.
NothingLandsUnruled ==
  /\ \A k \in DOMAIN landed :
       LET row == rows[landed[k].run][landed[k].row] IN
       (row.norm.manual \/ row.ambiguous) =>
         \E d \in DOMAIN row.decisions :
           ActionOf(row.decisions[d].action) = landed[k].action
  /\ \A r \in RunIds : \A i \in DOMAIN rows[r] :
       ImportDetail(rows[r][i]) = "auto" =>
         ~rows[r][i].norm.manual /\ ~rows[r][i].ambiguous

\* dues.go: "re-importing the same roster is harmless".  However many runs carry
\* the same row, and whatever officers write in between, a membership has one
\* imported decision per date, no import grants for life what stands already,
\* no import writes a sentence that is on file, and an external id names one
\* person.  What an officer took back is another matter: an import gives a
\* revoked grant again, and a new membership for one that ended.
NothingIsDoubled ==
  /\ \A m \in DOMAIN memberships :
       CoveredOnce(memberships[m].coverage) /\ GrantedOnce(memberships[m].grants)
  /\ \A p \in DOMAIN persons : NotedOnce(persons[p].notes)
  /\ NamesOne(links)

\* ADR-0008's state machine ends in committed or discarded: a preview or a
\* discard begun before the end of a run does not move it afterwards.
ClosedRunsStayClosed ==
  [][\A r \in RunIds : runs[r].status \in {"committed", "discarded"} =>
       runs'[r] = runs[r]]_importVars

=============================================================================
