---------------------------- MODULE ImportProofs ----------------------------
(***************************************************************************)
(* Theorems about imports of the roster, for any rosters and any number of *)
(* runs, calls and officers: a run that has ended stays as it is, no row   *)
(* lands that an officer had to rule on and did not, a commit lands its    *)
(* rows once, and rows that come again do no harm.                         *)
(***************************************************************************)
EXTENDS ImportRun, RankingProofs, SequenceTheorems, FiniteSetTheorems, TLAPS

-----------------------------------------------------------------------------
(* The inductive invariant: a call that writes a run's status compares the *)
(* version it read, and while that version is the run's the run is not     *)
(* closed.                                                                 *)

Closed == {"committed", "discarded"}
Writing == {"upload", "preview", "discard", "commit"}

IsRun(run) ==
  /\ "status" \in DOMAIN run /\ "version" \in DOMAIN run
  /\ run.version \in Nat

RunsTyped == \E known : runs \in Seq(known)

CallKnowsRun(call) ==
  /\ call.run \in RunIds /\ call.version \in Nat
  /\ call.version <= runs[call.run].version
  /\ call.version = runs[call.run].version => runs[call.run].status \notin Closed

RunsInv ==
  /\ RunsTyped /\ \A r \in RunIds : IsRun(runs[r])
  /\ \A call \in calls :
       "op" \in DOMAIN call /\ (call.op \in Writing => CallKnowsRun(call))

\* What a step may do to the run of a call: write it once more.
Advances(r, row) ==
  /\ r \in RunIds /\ runs[r].status \notin Closed
  /\ runs' = [runs EXCEPT ![r] = row]
  /\ IsRun(row) /\ row.version = runs[r].version + 1

ClosedRunsStand ==
  \A r \in RunIds : runs[r].status \in Closed => runs'[r] = runs[r]

LEMMA AdvancesKeepsInv ==
  ASSUME RunsInv, NEW r, NEW row, Advances(r, row), calls' \subseteq calls
  PROVE  RunsInv' /\ ClosedRunsStand
<1>1. PICK known : runs \in Seq(known)
  BY DEF RunsInv, RunsTyped
<1>2. r \in 1 .. Len(runs) /\ runs \in Seq(known \cup {row})
  BY <1>1 DEF Advances, RunIds
<1>3. RunsTyped'
  BY <1>2, ExceptSeq DEF RunsTyped, Advances
<1>4. /\ DOMAIN runs' = DOMAIN runs /\ r \in DOMAIN runs /\ runs'[r] = row
      /\ \A q \in DOMAIN runs \ {r} : runs'[q] = runs[q]
  BY DEF Advances, RunIds
<1>5. \A q \in RunIds' : IsRun(runs[q])'
  BY <1>4 DEF RunsInv, RunIds, IsRun, Advances
<1>6. ASSUME NEW call \in calls', call.op \in Writing
      PROVE  CallKnowsRun(call)'
  <2>1. CallKnowsRun(call)
    BY <1>6 DEF RunsInv
  <2>2. CASE call.run = r
    <3>1. call.version \in Nat /\ runs[r].version \in Nat /\ call.version <= runs[r].version
      BY <1>4, <2>1, <2>2 DEF RunsInv, CallKnowsRun, RunIds, IsRun
    <3>2. call.version <= row.version /\ call.version # row.version
      BY <3>1 DEF Advances
    <3>3. QED
      BY <1>4, <2>2, <3>1, <3>2 DEF CallKnowsRun, RunIds
  <2>3. CASE call.run # r
    BY <1>4, <2>1, <2>3 DEF CallKnowsRun, RunIds
  <2>4. QED
    BY <2>2, <2>3
<1>7. RunsInv'
  BY <1>3, <1>5, <1>6 DEF RunsInv
<1>8. ClosedRunsStand
  BY <1>4 DEF ClosedRunsStand, Advances, RunIds
<1>9. QED
  BY <1>7, <1>8

\* A call that compares its version finds the run open.
LEMMA StatusWritten ==
  ASSUME RunsInv, NEW call \in calls, call.op \in Writing, NEW status,
         UpdateImportRunStatus(call, status), calls' \subseteq calls
  PROVE  RunsInv' /\ ClosedRunsStand
<1>1. PICK r : r = call.run
  OBVIOUS
<1> DEFINE row == [runs[r] EXCEPT !.status = status, !.version = @ + 1]
<1>2. /\ r \in RunIds /\ runs[r].version = call.version /\ IsRun(runs[r])
      /\ runs[r].status \notin Closed
  BY <1>1 DEF RunsInv, CallKnowsRun, UpdateImportRunStatus
<1>3. runs' = [runs EXCEPT ![r] = row]
  BY <1>1, <1>2 DEF UpdateImportRunStatus, RunIds, IsRun
<1>4. IsRun(row) /\ row.version = runs[r].version + 1
  BY <1>2 DEF IsRun
<1> HIDE DEF row
<1>5. Advances(r, row)
  BY <1>2, <1>3, <1>4 DEF Advances
<1>6. QED
  BY <1>5, AdvancesKeepsInv

LEMMA CommitWritten ==
  ASSUME RunsInv, NEW call \in calls, call.op \in Writing, NEW summary,
         CommitImportRun(call, summary), calls' \subseteq calls
  PROVE  RunsInv' /\ ClosedRunsStand
<1>1. PICK r : r = call.run
  OBVIOUS
<1> DEFINE row == [runs[r] EXCEPT !.status = "committed", !.summary = summary,
                                  !.version = @ + 1]
<1>2. /\ r \in RunIds /\ runs[r].version = call.version /\ IsRun(runs[r])
      /\ runs[r].status \notin Closed
  BY <1>1 DEF RunsInv, CallKnowsRun, CommitImportRun
<1>3. runs' = [runs EXCEPT ![r] = row]
  BY <1>1, <1>2 DEF CommitImportRun, RunIds, IsRun
<1>4. IsRun(row) /\ row.version = runs[r].version + 1
  BY <1>2 DEF IsRun
<1> HIDE DEF row
<1>5. Advances(r, row)
  BY <1>2, <1>3, <1>4 DEF Advances
<1>6. QED
  BY <1>5, AdvancesKeepsInv

\* A call that begins: one that writes has read an open run as it is.
LEMMA CallBegins ==
  ASSUME RunsInv, UNCHANGED runs, NEW call, calls' \subseteq calls \cup {call},
         "op" \in DOMAIN call, call.op \in Writing => CallKnowsRun(call)
  PROVE  RunsInv' /\ ClosedRunsStand
<1>1. RunsTyped' /\ \A r \in RunIds' : IsRun(runs[r])'
  BY DEF RunsInv, RunsTyped, RunIds
<1>2. ASSUME NEW c \in calls'
      PROVE  "op" \in DOMAIN c /\ (c.op \in Writing => CallKnowsRun(c)')
  <2>1. "op" \in DOMAIN c /\ (c.op \in Writing => CallKnowsRun(c))
    BY DEF RunsInv
  <2>2. QED
    BY <2>1 DEF CallKnowsRun, RunIds
<1>3. ClosedRunsStand
  BY DEF ClosedRunsStand
<1>4. QED
  BY <1>1, <1>2, <1>3 DEF RunsInv

LEMMA OthersKeepInv ==
  ASSUME RunsInv, UNCHANGED runs, calls' \subseteq calls
  PROVE  RunsInv' /\ ClosedRunsStand
BY DEF RunsInv, RunsTyped, RunIds, IsRun, CallKnowsRun, ClosedRunsStand

LEMMA UploadStartsKeepsInv ==
  ASSUME RunsInv, NEW key \in Keys, UploadStarts(key)
  PROVE  RunsInv' /\ ClosedRunsStand
<1>1. PICK known : runs \in Seq(known)
  BY DEF RunsInv, RunsTyped
<1>2. PICK row, last : row = CreateImportRun(FileOf[key], key) /\ last = Len(runs) + 1
  OBVIOUS
<1> DEFINE call == [op |-> "upload", run |-> last, version |-> 1]
<1>3. runs' = Append(runs, row) /\ calls' = calls \cup {call}
  BY <1>2 DEF UploadStarts
<1>4. IsRun(row) /\ row.version = 1 /\ row.status \notin Closed
  BY <1>2 DEF CreateImportRun, IsRun, Closed
<1>5. runs \in Seq(known \cup {row}) /\ row \in known \cup {row}
  BY <1>1
<1>6. /\ runs' \in Seq(known \cup {row}) /\ Len(runs') = last
      /\ \A r \in 1 .. Len(runs) : runs'[r] = runs[r]
      /\ runs'[last] = row
  BY <1>2, <1>3, <1>5, AppendProperties
<1>7. /\ DOMAIN runs = 1 .. Len(runs) /\ Len(runs) \in Nat /\ DOMAIN runs' = 1 .. last
  BY <1>5, <1>6, LenProperties
<1>8. RunsTyped' /\ ClosedRunsStand
  BY <1>6, <1>7 DEF RunsTyped, ClosedRunsStand, RunIds
<1>9. \A r \in RunIds' : IsRun(runs[r])'
  BY <1>2, <1>4, <1>6, <1>7 DEF RunsInv, RunIds, IsRun
<1>10. call.op = "upload" /\ call.run = last /\ call.version = 1 /\ "op" \in DOMAIN call
  OBVIOUS
<1> HIDE DEF call
<1>11. CallKnowsRun(call)'
  BY <1>2, <1>4, <1>6, <1>7, <1>10 DEF CallKnowsRun, RunIds
<1>12. ASSUME NEW c \in calls, c.op \in Writing
       PROVE  CallKnowsRun(c)'
  BY <1>2, <1>6, <1>7, <1>12 DEF RunsInv, CallKnowsRun, RunIds
<1>13. \A c \in calls' : "op" \in DOMAIN c /\ (c.op \in Writing => CallKnowsRun(c)')
  BY <1>3, <1>10, <1>11, <1>12 DEF RunsInv
<1>14. QED
  BY <1>8, <1>9, <1>13 DEF RunsInv

LEMMA BeginKeepsInv ==
  ASSUME RunsInv, NEW op, NEW r \in RunIds, NEW from, from \cap Closed = {},
         Begin(op, r, from)
  PROVE  RunsInv' /\ ClosedRunsStand
<1>1. PICK call : call = NewCall(op, r)
  OBVIOUS
<1>2. /\ calls' \subseteq calls \cup {call} /\ UNCHANGED runs
      /\ runs[r].status \notin Closed /\ runs[r].version \in Nat
  BY <1>1 DEF Begin, RunsInv, IsRun
<1>3. /\ "op" \in DOMAIN call /\ call.run = r /\ call.version = runs[r].version
  BY <1>1 DEF NewCall
<1>4. CallKnowsRun(call)
  BY <1>2, <1>3 DEF CallKnowsRun
<1>5. QED
  BY <1>2, <1>3, <1>4, CallBegins

LEMMA DecisionBeginsKeepsInv ==
  ASSUME RunsInv, NEW r, NEW i, NEW action, NEW said, DecisionBegins(r, i, action, said)
  PROVE  RunsInv' /\ ClosedRunsStand
<1>1. PICK call : call = [op |-> "decide", run |-> r, row |-> i, action |-> action,
                          payload |-> said.payload, ruling |-> said.ruling]
  OBVIOUS
<1>2. calls' \subseteq calls \cup {call} /\ UNCHANGED runs
  BY <1>1 DEF DecisionBegins
<1>3. "op" \in DOMAIN call /\ call.op \notin Writing
  BY <1>1 DEF Writing
<1>4. QED
  BY <1>2, <1>3, CallBegins

LEMMA RecordDecisionKeepsInv ==
  ASSUME RunsInv, NEW call \in calls, RecordDecision(call)
  PROVE  RunsInv' /\ ClosedRunsStand
<1>1. PICK next : next = [call EXCEPT !.op = "rule"]
  OBVIOUS
<1>2. calls' \subseteq calls \cup {next} /\ UNCHANGED runs
  BY <1>1 DEF RecordDecision
<1>3. "op" \in DOMAIN call
  BY DEF RunsInv
<1>4. "op" \in DOMAIN next /\ next.op \notin Writing
  BY <1>1, <1>3 DEF Writing
<1>5. QED
  BY <1>2, <1>4, CallBegins

\* What officers write is none of the import's own tables.
LEMMA OfficersWriteTables ==
  ASSUME OfficerEdits
  PROVE  UNCHANGED <<runs, rows, calls, landed, links, contacts>>
BY DEF OfficerEdits, OfficerWrites, Deactivate, Apply, EndMembership,
       CreateHonoraryGrant, ExpireHonoraryGrant, RevokeHonoraryGrant, CreateNote,
       UpdateNote

LEMMA RunsInvStep ==
  ASSUME RunsInv, [ImportNext]_importVars
  PROVE  RunsInv' /\ ClosedRunsStand
<1>1. ASSUME NEW r \in RunIds, PreviewBegins(r) \/ DiscardBegins(r) \/ CommitBegins(r)
      PROVE  RunsInv' /\ ClosedRunsStand
  <2>1. \A from \in {{"validated"}, Open, {"previewed"}} : from \cap Closed = {}
    BY DEF Open, Closed
  <2>2. QED
    BY <1>1, <2>1, BeginKeepsInv DEF PreviewBegins, DiscardBegins, CommitBegins
<1>2. ASSUME NEW r \in RunIds, NEW i \in DOMAIN rows[r],
             ImportRowDecide(r, i) \/ DecideOverApi(r, i)
      PROVE  RunsInv' /\ ClosedRunsStand
  BY <1>2, DecisionBeginsKeepsInv DEF ImportRowDecide, DecideOverApi
<1>3. ASSUME NEW call \in calls, UploadStagesRow(call) \/ RuleOnRow(call) \/ CallEnds(call)
      PROVE  RunsInv' /\ ClosedRunsStand
  <2>1. UNCHANGED runs /\ calls' \subseteq calls
    BY <1>3 DEF UploadStagesRow, RuleOnRow, CallEnds
  <2>2. QED
    BY <2>1, OthersKeepInv
<1>4. ASSUME NEW call \in calls, UploadValidates(call) \/ Preview(call) \/ Discard(call)
      PROVE  RunsInv' /\ ClosedRunsStand
  <2>1. PICK status : UpdateImportRunStatus(call, status)
    BY <1>4 DEF UploadValidates, Preview, Discard
  <2>2. call.op \in Writing /\ calls' \subseteq calls
    BY <1>4 DEF UploadValidates, Preview, Discard, Writing
  <2>3. QED
    BY <2>1, <2>2, StatusWritten
<1>5. ASSUME NEW call \in calls, Commit(call)
      PROVE  RunsInv' /\ ClosedRunsStand
  <2>1. PICK summary : CommitImportRun(call, summary)
    BY <1>5 DEF Commit
  <2>2. call.op \in Writing /\ calls' \subseteq calls
    BY <1>5 DEF Commit, Writing
  <2>3. QED
    BY <2>1, <2>2, CommitWritten
<1>6. ASSUME NEW c, Enrol(c)
      PROVE  RunsInv' /\ ClosedRunsStand
  BY <1>6, OthersKeepInv DEF Enrol
<1>7. CASE OfficerEdits
  BY <1>7, OthersKeepInv, OfficersWriteTables
<1>8. CASE UNCHANGED importVars
  BY <1>8, OthersKeepInv DEF importVars
<1>9. QED
  BY <1>1, <1>2, <1>3, <1>4, <1>5, <1>6, <1>7, <1>8,
     UploadStartsKeepsInv, RecordDecisionKeepsInv DEF ImportNext

\* ADR-0008: a run ends committed or discarded.  A preview, a discard or a
\* commit begun before its end, however many at once, does not move it after.
THEOREM ClosedRunsAreFinal == ImportSpec => ClosedRunsStayClosed
<1>1. ImportInit => RunsInv
  <2>1. SUFFICES ASSUME ImportInit PROVE RunsInv
    OBVIOUS
  <2>2. runs = <<>> /\ calls = {}
    BY <2>1 DEF ImportInit
  <2>3. runs \in Seq({}) /\ RunIds = {}
    BY <2>2 DEF RunIds
  <2>4. QED
    BY <2>2, <2>3 DEF RunsInv, RunsTyped
<1>2. RunsInv /\ [ImportNext]_importVars =>
        /\ RunsInv'
        /\ [\A r \in RunIds : runs[r].status \in {"committed", "discarded"} =>
              runs'[r] = runs[r]]_importVars
  BY RunsInvStep DEF ClosedRunsStand, Closed
<1>3. QED
  BY <1>1, <1>2, PTL DEF ImportSpec, ClosedRunsStayClosed

-----------------------------------------------------------------------------
(* Rulings.  A row nobody may guess at waits for an officer: it takes an   *)
(* action that lands only from a call whose decision it has recorded.      *)

Lands == {"create", "update"}

NeedsHelp(row) == row.norm.manual \/ row.ambiguous
Says(row, ruling) ==
  \E d \in DOMAIN row.decisions : row.decisions[d].action = ruling
Ruled(row, action) ==
  \E d \in DOMAIN row.decisions : ActionOf(row.decisions[d].action) = action

IsRow(row) ==
  /\ {"action", "manual", "decisions"} \subseteq DOMAIN row
  /\ row.norm.manual \in BOOLEAN /\ row.ambiguous \in BOOLEAN /\ row.manual \in BOOLEAN
  /\ Len(row.decisions) \in Nat
  /\ row.decisions = [d \in 1 .. Len(row.decisions) |-> row.decisions[d]]

RowWaits(row) ==
  NeedsHelp(row) =>
    /\ row.manual \/ row.decisions # <<>>
    /\ row.action \in Lands => Ruled(row, row.action)

CallKnowsRow(call) ==
  /\ {"op", "run", "row", "action"} \subseteq DOMAIN call
  /\ call.run \in DOMAIN rows /\ call.row \in DOMAIN rows[call.run]
  /\ call.op = "rule" => Says(rows[call.run][call.row], call.action)

LandedRuled(land) ==
  /\ land.run \in DOMAIN rows /\ land.row \in DOMAIN rows[land.run]
  /\ NeedsHelp(rows[land.run][land.row]) => Ruled(rows[land.run][land.row], land.action)

RowsTyped == \E known : rows \in Seq(Seq(known))
LandedTyped == \E known : landed \in Seq(known)

RulingsHold ==
  /\ \A r \in DOMAIN rows : \A i \in DOMAIN rows[r] :
       IsRow(rows[r][i]) /\ RowWaits(rows[r][i])
  /\ \A call \in calls : call.op \in {"decide", "rule"} => CallKnowsRow(call)
  /\ \A k \in DOMAIN landed : LandedRuled(landed[k])

RulingsInv == RowsTyped /\ LandedTyped /\ DOMAIN rows = RunIds /\ RulingsHold

(* Landing.  A run's rows are in the history when it is committed, each    *)
(* once, and its summary counts them.                                      *)

LandedOf(r, action) == {k \in DOMAIN landed : landed[k].run = r /\ landed[k].action = action}

SummaryCounts(r) ==
  /\ runs[r].summary.created = Cardinality(LandedOf(r, "create"))
  /\ runs[r].summary.updated = Cardinality(LandedOf(r, "update"))

LandsInv ==
  /\ IsInjective(landed)
  /\ \A k \in DOMAIN landed : landed[k].run \in RunIds
  /\ \A r \in RunIds :
       /\ "summary" \in DOMAIN runs[r]
       /\ SummaryCounts(r)
       /\ runs[r].status # "committed" => \A k \in DOMAIN landed : landed[k].run # r

\* What a step may do to a row that is staged: keep what it needs and what
\* was said about it.
Follows(old, new) ==
  /\ NeedsHelp(new) <=> NeedsHelp(old)
  /\ \A ruling : Says(old, ruling) => Says(new, ruling)
  /\ \A action : Ruled(old, action) => Ruled(new, action)

RowsKept ==
  \A r \in DOMAIN rows : r \in DOMAIN rows' /\
    \A i \in DOMAIN rows[r] : i \in DOMAIN rows'[r] /\ Follows(rows[r][i], rows'[r][i])

LandedKept == \A k \in DOMAIN landed' : k \in DOMAIN landed /\ landed'[k] = landed[k]

LEMMA RowsKeptKnowsRow ==
  ASSUME RowsKept, NEW call, CallKnowsRow(call)
  PROVE  CallKnowsRow(call)'
<1>1. /\ call.run \in DOMAIN rows' /\ call.row \in DOMAIN rows'[call.run]
      /\ Follows(rows[call.run][call.row], rows'[call.run][call.row])
  BY DEF RowsKept, CallKnowsRow
<1>2. QED
  BY <1>1 DEF CallKnowsRow, Follows, Says

LEMMA RowsKeptLandedRuled ==
  ASSUME RowsKept, NEW land, LandedRuled(land)
  PROVE  LandedRuled(land)'
<1>1. /\ land.run \in DOMAIN rows' /\ land.row \in DOMAIN rows'[land.run]
      /\ Follows(rows[land.run][land.row], rows'[land.run][land.row])
  BY DEF RowsKept, LandedRuled
<1>2. PICK old, new : old = rows[land.run][land.row] /\ new = rows'[land.run][land.row]
  OBVIOUS
<1>3. NeedsHelp(new) => Ruled(new, land.action)
  BY <1>1, <1>2 DEF Follows, LandedRuled
<1>4. QED
  BY <1>1, <1>2, <1>3 DEF LandedRuled, NeedsHelp, Ruled

\* What is left to show of a step: its rows, its new calls, what it landed.
LEMMA RulingsStand ==
  ASSUME RulingsInv, RowsKept, RowsTyped', LandedTyped', DOMAIN rows' = RunIds',
         \A r \in DOMAIN rows' : \A i \in DOMAIN rows'[r] :
           \/ IsRow(rows'[r][i]) /\ RowWaits(rows'[r][i])
           \/ r \in DOMAIN rows /\ i \in DOMAIN rows[r] /\ rows'[r][i] = rows[r][i],
         \A call \in calls' : call.op \in {"decide", "rule"} =>
           call \in calls \/ CallKnowsRow(call)',
         \A k \in DOMAIN landed' :
           \/ \E land : land = landed'[k] /\ LandedRuled(land)'
           \/ k \in DOMAIN landed /\ landed'[k] = landed[k]
  PROVE  RulingsInv'
<1>1. ASSUME NEW r \in DOMAIN rows', NEW i \in DOMAIN rows'[r]
      PROVE  IsRow(rows'[r][i]) /\ RowWaits(rows'[r][i])
  <2>1. CASE r \in DOMAIN rows /\ i \in DOMAIN rows[r] /\ rows'[r][i] = rows[r][i]
    <3>1. PICK row : row = rows[r][i]
      OBVIOUS
    <3>2. IsRow(row) /\ RowWaits(row)
      BY <2>1, <3>1 DEF RulingsInv, RulingsHold
    <3>3. rows'[r][i] = row
      BY <2>1, <3>1
    <3>4. QED
      BY <3>2, <3>3
  <2>2. QED
    BY <2>1
<1>2. \A call \in calls' : call.op \in {"decide", "rule"} => CallKnowsRow(call)'
  BY RowsKeptKnowsRow DEF RulingsInv, RulingsHold
<1>3. \A k \in DOMAIN landed' : \E land : land = landed'[k] /\ LandedRuled(land)'
  <2>1. SUFFICES ASSUME NEW k \in DOMAIN landed', k \in DOMAIN landed,
                        landed'[k] = landed[k]
                 PROVE  \E land : land = landed'[k] /\ LandedRuled(land)'
    OBVIOUS
  <2>2. PICK land : land = landed[k]
    OBVIOUS
  <2>3. LandedRuled(land)'
    BY <2>1, <2>2, RowsKeptLandedRuled DEF RulingsInv, RulingsHold
  <2>4. QED
    BY <2>1, <2>2, <2>3
<1>4. (\A k \in DOMAIN landed : LandedRuled(landed[k]))'
  <2>1. SUFFICES ASSUME NEW k \in DOMAIN landed'
                 PROVE  LandedRuled(landed[k])'
    OBVIOUS
  <2>2. PICK land : land = landed'[k] /\ LandedRuled(land)'
    BY <1>3
  <2>3. QED
    BY <2>2 DEF LandedRuled
<1>5. QED
  BY <1>1, <1>2, <1>4 DEF RulingsInv, RulingsHold, RowsTyped, LandedTyped, RunIds

\* A step that writes no row.
LEMMA RowsLeftAlone ==
  ASSUME RulingsInv, UNCHANGED <<rows, landed>>, RunIds' = RunIds,
         \A call \in calls' : call.op \in {"decide", "rule"} =>
           call \in calls \/ CallKnowsRow(call)
  PROVE  RulingsInv'
<1>1. RowsKept
  BY DEF RowsKept, Follows
<1>2. \A call : CallKnowsRow(call)' <=> CallKnowsRow(call)
  BY DEF CallKnowsRow
<1>3. /\ RowsTyped' /\ LandedTyped' /\ DOMAIN rows' = RunIds'
      /\ \A k \in DOMAIN landed' : k \in DOMAIN landed /\ landed'[k] = landed[k]
      /\ \A r \in DOMAIN rows' : \A i \in DOMAIN rows'[r] :
           r \in DOMAIN rows /\ i \in DOMAIN rows[r] /\ rows'[r][i] = rows[r][i]
  BY DEF RulingsInv, RowsTyped, LandedTyped
<1>4. QED
  BY <1>1, <1>2, <1>3, RulingsStand

LEMMA RowIsWritten ==
  ASSUME RulingsInv, NEW r \in DOMAIN rows, NEW i \in DOMAIN rows[r], NEW row,
         rows' = [rows EXCEPT ![r][i] = row], UNCHANGED <<runs, landed>>,
         IsRow(row), RowWaits(row), Follows(rows[r][i], row),
         \A call \in calls' : call.op \in {"decide", "rule"} =>
           call \in calls \/ (call.run = r /\ call.row = i /\ call.op = "rule"
                               /\ {"op", "run", "row", "action"} \subseteq DOMAIN call
                               /\ Says(row, call.action))
  PROVE  RulingsInv'
<1>1. PICK known : rows \in Seq(Seq(known))
  BY DEF RulingsInv, RowsTyped
<1>2. PICK some : some = [rows[r] EXCEPT ![i] = row]
  OBVIOUS
<1>3. /\ r \in 1 .. Len(rows) /\ rows[r] \in Seq(known)
      /\ i \in 1 .. Len(rows[r])
  BY <1>1
<1>4. rows[r] \in Seq(known \cup {row}) /\ row \in known \cup {row}
  BY <1>3
<1>5. some \in Seq(known \cup {row})
  BY <1>2, <1>3, <1>4, ExceptSeq
<1>6. /\ DOMAIN some = DOMAIN rows[r] /\ some[i] = row
      /\ \A j \in DOMAIN rows[r] \ {i} : some[j] = rows[r][j]
  BY <1>2
<1>7. rows' = [rows EXCEPT ![r] = some]
  BY <1>2
<1>8. /\ DOMAIN rows' = DOMAIN rows /\ rows'[r] = some
      /\ \A q \in DOMAIN rows \ {r} : rows'[q] = rows[q]
  BY <1>7
<1>9. rows \in Seq(Seq(known \cup {row}))
  BY <1>1
<1>10. RowsTyped'
  BY <1>3, <1>5, <1>7, <1>9, ExceptSeq DEF RowsTyped
<1>11. RowsKept
  <2>1. \A q \in DOMAIN rows : \A j \in DOMAIN rows[q] :
          j \in DOMAIN rows'[q] /\ (rows'[q][j] = rows[q][j] \/ (q = r /\ j = i))
    BY <1>6, <1>8
  <2>2. \A old : Follows(old, old)
    BY DEF Follows
  <2>3. rows'[r][i] = row
    BY <1>6, <1>8
  <2>4. QED
    BY <1>8, <2>1, <2>2, <2>3 DEF RowsKept
<1>12. \A q \in DOMAIN rows' : \A j \in DOMAIN rows'[q] :
         \/ IsRow(rows'[q][j]) /\ RowWaits(rows'[q][j])
         \/ q \in DOMAIN rows /\ j \in DOMAIN rows[q] /\ rows'[q][j] = rows[q][j]
  <2>1. rows'[r][i] = row
    BY <1>6, <1>8
  <2>2. \A q \in DOMAIN rows' : \A j \in DOMAIN rows'[q] :
          \/ q = r /\ j = i
          \/ q \in DOMAIN rows /\ j \in DOMAIN rows[q] /\ rows'[q][j] = rows[q][j]
    BY <1>6, <1>8
  <2>3. QED
    BY <2>1, <2>2
<1>13. ASSUME NEW call \in calls', call.op \in {"decide", "rule"}
       PROVE  call \in calls \/ CallKnowsRow(call)'
  <2>1. rows'[r][i] = row /\ r \in DOMAIN rows' /\ i \in DOMAIN rows'[r]
    BY <1>6, <1>8
  <2>2. QED
    BY <1>13, <2>1 DEF CallKnowsRow, Says
<1>14. /\ LandedTyped' /\ DOMAIN rows' = RunIds'
       /\ \A k \in DOMAIN landed' : k \in DOMAIN landed /\ landed'[k] = landed[k]
  BY <1>8 DEF RulingsInv, LandedTyped, RunIds
<1>15. QED
  BY <1>10, <1>11, <1>12, <1>13, <1>14, RulingsStand

LEMMA StagedRowWaits ==
  ASSUME NEW raw, NEW norm, norm = Normalize(raw), NEW row,
         row = CreateStagedRow(norm, MatchNow(norm))
  PROVE  IsRow(row) /\ RowWaits(row)
<1>1. PICK match : match = MatchNow(norm)
  OBVIOUS
<1>2. match.ambiguous \in BOOLEAN
  BY <1>1 DEF MatchNow, Match, Found, NoMatch
<1>3. norm.manual \in BOOLEAN
  BY DEF Normalize
<1>4. /\ row.norm = norm /\ row.ambiguous = match.ambiguous
      /\ row.action = ProposeAction(norm, match) /\ row.decisions = <<>>
      /\ row.manual = NeedsOfficer(norm, match)
      /\ {"action", "manual", "decisions"} \subseteq DOMAIN row
  BY <1>1 DEF CreateStagedRow
<1>5. /\ row.manual \in BOOLEAN /\ (row.manual <=> NeedsOfficer(norm, match))
      /\ NeedsHelp(row) <=> NeedsOfficer(norm, match)
  BY <1>2, <1>3, <1>4 DEF NeedsOfficer, NeedsHelp
<1>6. IsRow(row)
  BY <1>2, <1>3, <1>4, <1>5 DEF IsRow
<1>7. NeedsOfficer(norm, match) => row.action = "manual"
  BY <1>4 DEF ProposeAction
<1>8. RowWaits(row)
  BY <1>5, <1>7 DEF RowWaits, Lands
<1>9. QED
  BY <1>6, <1>8

LEMMA UploadStartsKeepsRulings ==
  ASSUME RunsInv, RulingsInv, NEW key \in Keys, UploadStarts(key)
  PROVE  RulingsInv'
<1>1. PICK known, drawn : rows \in Seq(Seq(known)) /\ runs \in Seq(drawn)
  BY DEF RulingsInv, RowsTyped, RunsInv, RunsTyped
<1>2. PICK run : runs' = Append(runs, run)
  BY DEF UploadStarts
<1>3. PICK call : call.op = "upload" /\ calls' = calls \cup {call}
  BY DEF UploadStarts
<1>4. rows' = Append(rows, <<>>) /\ landed' = landed /\ <<>> \in Seq(known)
  BY DEF UploadStarts
<1>5. /\ rows' \in Seq(Seq(known)) /\ Len(rows') = Len(rows) + 1
      /\ rows'[Len(rows) + 1] = <<>> /\ \A r \in 1 .. Len(rows) : rows'[r] = rows[r]
  BY <1>1, <1>4, AppendProperties
<1>6. /\ DOMAIN rows = 1 .. Len(rows) /\ DOMAIN rows' = 1 .. Len(rows')
      /\ Len(rows) \in Nat
  BY <1>1, <1>5, LenProperties
<1>7. RunIds = 1 .. Len(runs) /\ RunIds' = 1 .. Len(runs) + 1 /\ Len(runs) \in Nat
  <2>1. runs \in Seq(drawn \cup {run}) /\ run \in drawn \cup {run}
    BY <1>1
  <2>2. QED
    BY <1>2, <2>1, AppendProperties, LenProperties DEF RunIds
<1>8. DOMAIN rows' = RunIds'
  <2>1. Len(rows) = Len(runs)
    <3>1. 1 .. Len(rows) = 1 .. Len(runs)
      BY <1>6, <1>7 DEF RulingsInv
    <3>2. Len(rows) \in 1 .. Len(rows) \/ Len(rows) = 0
      BY <1>6
    <3>3. Len(runs) \in 1 .. Len(runs) \/ Len(runs) = 0
      BY <1>7
    <3>4. QED
      BY <1>6, <1>7, <3>1, <3>2, <3>3
  <2>2. QED
    BY <1>5, <1>6, <1>7, <2>1
<1>9. RowsKept
  BY <1>5, <1>6 DEF RowsKept, Follows
<1>10. \A r \in DOMAIN rows' : \A i \in DOMAIN rows'[r] :
         r \in DOMAIN rows /\ i \in DOMAIN rows[r] /\ rows'[r][i] = rows[r][i]
  <2>1. \A r \in DOMAIN rows' : r \in DOMAIN rows \/ r = Len(rows) + 1
    BY <1>5, <1>6
  <2>2. DOMAIN rows'[Len(rows) + 1] = {}
    BY <1>5
  <2>3. QED
    BY <1>5, <1>6, <2>1, <2>2
<1>11. RowsTyped' /\ LandedTyped'
  BY <1>4, <1>5 DEF RowsTyped, RulingsInv, LandedTyped
<1>12. \A c \in calls' : c.op \in {"decide", "rule"} => c \in calls
  BY <1>3
<1>13. QED
  BY <1>4, <1>8, <1>9, <1>10, <1>11, <1>12, RulingsStand

LEMMA UploadStagesRowKeepsRulings ==
  ASSUME RunsInv, RulingsInv, NEW call \in calls, UploadStagesRow(call)
  PROVE  RulingsInv'
<1>1. PICK known : rows \in Seq(Seq(known))
  BY DEF RulingsInv, RowsTyped
<1>2. PICK r, old, raw, norm, row :
        /\ r = call.run /\ old = rows[r] /\ norm = Normalize(raw)
        /\ row = CreateStagedRow(norm, MatchNow(norm))
        /\ rows' = [rows EXCEPT ![r] = Append(old, row)]
  BY DEF UploadStagesRow
<1>3. IsRow(row) /\ RowWaits(row)
  BY <1>2, StagedRowWaits
<1>4. r \in DOMAIN rows /\ r \in 1 .. Len(rows) /\ old \in Seq(known)
  <2>1. call.op \in Writing
    BY DEF UploadStagesRow, Writing
  <2>2. QED
    BY <1>1, <1>2, <2>1 DEF RunsInv, CallKnowsRun, RulingsInv
<1>5. old \in Seq(known \cup {row}) /\ row \in known \cup {row}
  BY <1>4
<1>6. PICK new : new = Append(old, row)
  OBVIOUS
<1>7. /\ new \in Seq(known \cup {row}) /\ Len(new) = Len(old) + 1
      /\ new[Len(old) + 1] = row /\ \A i \in 1 .. Len(old) : new[i] = old[i]
  BY <1>5, <1>6, AppendProperties
<1>8. /\ DOMAIN old = 1 .. Len(old) /\ Len(old) \in Nat
      /\ DOMAIN new = 1 .. Len(new)
  BY <1>5, <1>7, LenProperties
<1>9. /\ DOMAIN rows' = DOMAIN rows /\ rows'[r] = new
      /\ \A q \in DOMAIN rows \ {r} : rows'[q] = rows[q]
  BY <1>2, <1>4, <1>6
<1>10. rows \in Seq(Seq(known \cup {row}))
  BY <1>1
<1>11. RowsTyped'
  BY <1>2, <1>4, <1>6, <1>7, <1>10, ExceptSeq DEF RowsTyped
<1>12. RowsKept
  <2>1. \A q \in DOMAIN rows : \A i \in DOMAIN rows[q] :
          i \in DOMAIN rows'[q] /\ rows'[q][i] = rows[q][i]
    BY <1>2, <1>7, <1>8, <1>9
  <2>2. \A some : Follows(some, some)
    BY DEF Follows
  <2>3. QED
    BY <1>9, <2>1, <2>2 DEF RowsKept
<1>13. \A q \in DOMAIN rows' : \A i \in DOMAIN rows'[q] :
         \/ IsRow(rows'[q][i]) /\ RowWaits(rows'[q][i])
         \/ q \in DOMAIN rows /\ i \in DOMAIN rows[q] /\ rows'[q][i] = rows[q][i]
  <2>1. \A q \in DOMAIN rows' : \A i \in DOMAIN rows'[q] :
          \/ rows'[q][i] = row
          \/ q \in DOMAIN rows /\ i \in DOMAIN rows[q] /\ rows'[q][i] = rows[q][i]
    BY <1>2, <1>7, <1>8, <1>9
  <2>2. QED
    BY <1>3, <2>1
<1>14. /\ DOMAIN rows' = RunIds' /\ UNCHANGED <<calls, landed>> /\ LandedTyped'
  BY <1>9 DEF UploadStagesRow, RulingsInv, RunIds, LandedTyped
<1>15. QED
  BY <1>11, <1>12, <1>13, <1>14, RulingsStand

\* A decision is recorded first, and the row takes its action after.
LEMMA RecordDecisionKeepsRulings ==
  ASSUME RulingsInv, NEW call \in calls, RecordDecision(call)
  PROVE  RulingsInv'
<1>1. PICK r, i : r = call.run /\ i = call.row
  OBVIOUS
<1>2. call.op = "decide" /\ CallKnowsRow(call)
  BY DEF RecordDecision, RulingsInv, RulingsHold
<1>3. r \in DOMAIN rows /\ i \in DOMAIN rows[r]
  BY <1>1, <1>2 DEF CallKnowsRow
<1>4. PICK old : old = rows[r][i]
  OBVIOUS
<1>5. IsRow(old) /\ RowWaits(old)
  BY <1>3, <1>4 DEF RulingsInv, RulingsHold
<1>6. PICK said : said = [action |-> call.action, payload |-> call.payload,
                          ruling |-> call.ruling]
  OBVIOUS
<1>7. PICK row : row = [old EXCEPT !.decisions = Append(old.decisions, said)]
  OBVIOUS
<1>8. rows' = [rows EXCEPT ![r][i] = row]
  <2>1. row = CreateReconciliationDecision(old, call)
    BY <1>6, <1>7 DEF CreateReconciliationDecision
  <2>2. QED
    BY <1>1, <1>3, <1>4, <2>1 DEF RecordDecision
<1>9. PICK before, after : before = old.decisions /\ after = Append(before, said)
  OBVIOUS
<1>10. /\ row.decisions = after /\ row.norm = old.norm /\ row.manual = old.manual
       /\ row.ambiguous = old.ambiguous /\ row.action = old.action
       /\ DOMAIN row = DOMAIN old
  BY <1>5, <1>7, <1>9 DEF IsRow
<1>11. /\ Len(before) \in Nat /\ DOMAIN before = 1 .. Len(before)
       /\ before = [d \in 1 .. Len(before) |-> before[d]]
  BY <1>5, <1>9 DEF IsRow
<1>12. /\ DOMAIN after = 1 .. Len(before) + 1 /\ Len(after) = Len(before) + 1
       /\ after[Len(before) + 1] = said /\ \A d \in 1 .. Len(before) : after[d] = before[d]
       /\ after = [d \in 1 .. Len(after) |-> after[d]]
  <2>1. before \in Seq({before[d] : d \in 1 .. Len(before)} \cup {said})
    BY <1>11
  <2>2. QED
    BY <1>9, <2>1, AppendProperties, LenProperties
<1>13. IsRow(row)
  BY <1>5, <1>10, <1>11, <1>12 DEF IsRow
<1>14. Follows(old, row) /\ Says(row, said.action) /\ row.decisions # <<>>
  <2>1. Says(row, said.action) /\ row.decisions # <<>>
    BY <1>10, <1>11, <1>12 DEF Says
  <2>2. \A d \in DOMAIN old.decisions :
          d \in DOMAIN row.decisions /\ row.decisions[d] = old.decisions[d]
    BY <1>9, <1>10, <1>11, <1>12
  <2>3. QED
    BY <1>10, <2>1, <2>2 DEF Follows, NeedsHelp, Says, Ruled
<1>15. RowWaits(row)
  BY <1>5, <1>10, <1>14 DEF RowWaits, Follows
<1>16. PICK next : next = [call EXCEPT !.op = "rule"]
  OBVIOUS
<1>17. /\ next.op = "rule" /\ next.run = r /\ next.row = i /\ next.action = said.action
       /\ {"op", "run", "row", "action"} \subseteq DOMAIN next
  BY <1>1, <1>2, <1>6, <1>16 DEF CallKnowsRow
<1>18. calls' = (calls \ {call}) \cup {next} /\ UNCHANGED <<runs, landed>>
  BY <1>16 DEF RecordDecision, tables
<1>19. \A c \in calls' : c.op \in {"decide", "rule"} =>
         c \in calls \/ (c.run = r /\ c.row = i /\ c.op = "rule"
                         /\ {"op", "run", "row", "action"} \subseteq DOMAIN c
                         /\ Says(row, c.action))
  BY <1>14, <1>17, <1>18
<1>20. Follows(rows[r][i], row)
  BY <1>4, <1>14
<1>21. QED
  BY <1>3, <1>8, <1>13, <1>15, <1>18, <1>19, <1>20, RowIsWritten

LEMMA RuleOnRowKeepsRulings ==
  ASSUME RulingsInv, NEW call \in calls, RuleOnRow(call), call.action \in Rulings
  PROVE  RulingsInv'
<1>1. PICK r, i : r = call.run /\ i = call.row
  OBVIOUS
<1>2. call.op = "rule" /\ CallKnowsRow(call)
  BY DEF RuleOnRow, RulingsInv, RulingsHold
<1>3. r \in DOMAIN rows /\ i \in DOMAIN rows[r]
  BY <1>1, <1>2 DEF CallKnowsRow
<1>4. PICK old, action : old = rows[r][i] /\ action = ActionOf(call.action)
  OBVIOUS
<1>5. IsRow(old) /\ Says(old, call.action)
  BY <1>1, <1>2, <1>3, <1>4 DEF RulingsInv, RulingsHold, CallKnowsRow
<1>6. PICK row : row = [old EXCEPT !.action = action, !.manual = FALSE]
  OBVIOUS
<1>7. rows' = [rows EXCEPT ![r][i] = row]
  <2>1. row = UpdateStagedRowAction(old, action)
    BY <1>6 DEF UpdateStagedRowAction
  <2>2. QED
    BY <1>1, <1>3, <1>4, <2>1 DEF RuleOnRow
<1>8. /\ row.decisions = old.decisions /\ row.norm = old.norm /\ row.manual = FALSE
      /\ row.ambiguous = old.ambiguous /\ row.action = action /\ DOMAIN row = DOMAIN old
  BY <1>5, <1>6 DEF IsRow
<1>9. IsRow(row)
  BY <1>5, <1>8 DEF IsRow
<1>10. Follows(old, row)
  BY <1>8 DEF Follows, NeedsHelp, Says, Ruled
<1>11. RowWaits(row)
  <2>1. PICK d \in DOMAIN row.decisions : row.decisions[d].action = call.action
    BY <1>5, <1>8 DEF Says
  <2>2. Ruled(row, row.action) /\ row.decisions # <<>>
    BY <1>4, <1>8, <2>1 DEF Ruled
  <2>3. QED
    BY <2>2 DEF RowWaits
<1>12. Follows(rows[r][i], row)
  BY <1>4, <1>10
<1>13. calls' \subseteq calls /\ UNCHANGED <<runs, landed>>
  BY DEF RuleOnRow, tables
<1>14. QED
  BY <1>3, <1>7, <1>9, <1>11, <1>12, <1>13, RowIsWritten

LEMMA DecisionBeginsKeepsRulings ==
  ASSUME RulingsInv, NEW r \in RunIds, NEW i \in DOMAIN rows[r], NEW action, NEW said,
         DecisionBegins(r, i, action, said)
  PROVE  RulingsInv'
<1>1. PICK call : call = [op |-> "decide", run |-> r, row |-> i, action |-> action,
                          payload |-> said.payload, ruling |-> said.ruling]
  OBVIOUS
<1>2. calls' = calls \cup {call} /\ UNCHANGED <<runs, rows, landed>>
  BY <1>1 DEF DecisionBegins
<1>3. CallKnowsRow(call)
  BY <1>1 DEF CallKnowsRow, RulingsInv
<1>4. RunIds' = RunIds
  BY <1>2 DEF RunIds
<1>5. QED
  BY <1>2, <1>3, <1>4, RowsLeftAlone

LEMMA BeginKeepsRulings ==
  ASSUME RulingsInv, NEW op, op \notin {"decide", "rule"}, NEW r, NEW from,
         Begin(op, r, from)
  PROVE  RulingsInv'
<1>1. PICK call : call = NewCall(op, r)
  OBVIOUS
<1>2. calls' = calls \cup {call} /\ UNCHANGED <<runs, rows, landed>>
  BY <1>1 DEF Begin
<1>3. call.op \notin {"decide", "rule"} /\ RunIds' = RunIds
  BY <1>1, <1>2 DEF NewCall, RunIds
<1>4. QED
  BY <1>2, <1>3, RowsLeftAlone

LEMMA RunIsWrittenOnly ==
  ASSUME RulingsInv, UNCHANGED <<rows, landed>>, calls' \subseteq calls,
         RunIds' = RunIds
  PROVE  RulingsInv'
BY RowsLeftAlone

\* What a commit adds to the history: each of its rows, once.
LEMMA SequenceOfSet ==
  ASSUME NEW S, IsFiniteSet(S), NEW s, s = SetToSeq(S)
  PROVE  /\ s \in Seq(S) /\ Len(s) = Cardinality(S) /\ Cardinality(S) \in Nat
         /\ \A i, j \in 1 .. Len(s) : s[i] = s[j] => i = j
         /\ \A x \in S : \E i \in 1 .. Len(s) : s[i] = x
<1>1. PICK n : n = Cardinality(S)
  OBVIOUS
<1>2. n \in Nat /\ ExistsBijection(1 .. n, S)
  BY <1>1, FS_CardinalityType
<1>3. \E f \in [1 .. n -> S] : IsInjective(f)
  BY <1>2 DEF ExistsBijection, Bijection, Injection
<1>4. s \in [1 .. n -> S] /\ IsInjective(s)
  BY <1>1, <1>3 DEF SetToSeq
<1>5. s \in Seq(S) /\ Len(s) = n
  BY <1>2, <1>4
<1>6. s \in Injection(1 .. n, S)
  BY <1>4 DEF Injection
<1>7. Cardinality(1 .. n) = n /\ IsFiniteSet(1 .. n)
  BY <1>2, FS_Interval
<1>8. s \in Surjection(1 .. n, S)
  BY <1>1, <1>6, <1>7, FS_Injection
<1>9. QED
  BY <1>1, <1>2, <1>4, <1>5, <1>8 DEF IsInjective, Surjection

Applied(r) == {i \in DOMAIN rows[r] : rows[r][i].action \in Lands}

LEMMA RowsAreFinite ==
  ASSUME RulingsInv, NEW r \in DOMAIN rows
  PROVE  IsFiniteSet(DOMAIN rows[r])
<1>1. PICK known : rows \in Seq(Seq(known))
  BY DEF RulingsInv, RowsTyped
<1>2. PICK mine \in Seq(known) : mine = rows[r]
  BY <1>1
<1>3. Len(mine) \in Nat /\ DOMAIN mine = 1 .. Len(mine)
  BY LenProperties
<1>4. QED
  BY <1>2, <1>3, FS_Interval

LEMMA LandingIsWhole ==
  ASSUME RulingsInv, NEW r \in DOMAIN rows, NEW last, last = Landing(r)
  PROVE  /\ \E known : last \in Seq(known)
         /\ \A i, j \in 1 .. Len(last) : last[i].row = last[j].row => i = j
         /\ \A k \in 1 .. Len(last) :
              /\ last[k].run = r /\ last[k].row \in Applied(r)
              /\ last[k].action = rows[r][last[k].row].action
         /\ \A i \in Applied(r) : \E k \in 1 .. Len(last) : last[k].row = i
<1> DEFINE land(i) == [run |-> r, row |-> i, action |-> rows[r][i].action]
           some == [i \in Applied(r) |-> land(i)]
           S == {land(i) : i \in Applied(r)}
<1>1. last = SetToSeq(S)
  BY DEF Landing, Applied, Lands
<1>2. IsFiniteSet(S)
  <2>1. Applied(r) \subseteq DOMAIN rows[r]
    BY DEF Applied
  <2>2. IsFiniteSet(Applied(r))
    BY <2>1, RowsAreFinite, FS_Subset
  <2>3. some \in Surjection(Applied(r), S)
    BY DEF Surjection
  <2>4. QED
    BY <2>2, <2>3, FS_Surjection
<1> HIDE DEF S
<1>3. /\ last \in Seq(S) /\ \A i, j \in 1 .. Len(last) : last[i] = last[j] => i = j
      /\ \A x \in S : \E i \in 1 .. Len(last) : last[i] = x
  BY <1>1, <1>2, SequenceOfSet
<1>4. \A k \in 1 .. Len(last) : last[k] \in S
  BY <1>3
<1>5. \A x \in S : \E i \in Applied(r) : x = land(i)
  BY DEF S
<1>6. \A i \in Applied(r) : land(i) \in S
  BY DEF S
<1>7. \A k \in 1 .. Len(last) :
        /\ last[k].run = r /\ last[k].row \in Applied(r) /\ last[k] = land(last[k].row)
        /\ last[k].action = rows[r][last[k].row].action
  <2>1. SUFFICES ASSUME NEW k \in 1 .. Len(last)
                 PROVE  /\ last[k].run = r /\ last[k].row \in Applied(r)
                        /\ last[k] = land(last[k].row)
                        /\ last[k].action = rows[r][last[k].row].action
    OBVIOUS
  <2>2. PICK i \in Applied(r) : last[k] = land(i)
    BY <1>4, <1>5
  <2>3. QED
    BY <2>2
<1>8. \A i \in Applied(r) : \E k \in 1 .. Len(last) : last[k].row = i
  <2>1. SUFFICES ASSUME NEW i \in Applied(r)
                 PROVE  \E k \in 1 .. Len(last) : last[k].row = i
    OBVIOUS
  <2>2. PICK k \in 1 .. Len(last) : last[k] = land(i)
    BY <1>3, <1>6
  <2>3. QED
    BY <2>2
<1>9. \A i, j \in 1 .. Len(last) : last[i].row = last[j].row => i = j
  <2> HIDE DEF land
  <2>1. QED
    BY <1>3, <1>7
<1>10. QED
  BY <1>3, <1>7, <1>8, <1>9

\* A commit lands its run's rows behind those that are landed.
CommitLands(r, last) ==
  /\ r \in DOMAIN rows /\ runs[r].status \notin Closed
  /\ last = Landing(r) /\ landed' = landed \o last
  /\ runs' = [runs EXCEPT ![r].status = "committed", ![r].summary = Summary(r),
                          ![r].version = @ + 1]
  /\ rows' = rows /\ calls' \subseteq calls

LEMMA CommitLandsRun ==
  ASSUME RunsInv, RulingsInv, NEW call \in calls, Commit(call)
  PROVE  \E r, last : CommitLands(r, last)
<1>1. PICK r, last : r = call.run /\ last = Landing(call.run)
  OBVIOUS
<1>2. call.op \in Writing
  BY DEF Commit, Writing
<1>3. r \in RunIds /\ runs[r].version = call.version /\ runs[r].status \notin Closed
  BY <1>1, <1>2 DEF RunsInv, CallKnowsRun, Commit, CommitImportRun
<1>4. /\ landed' = landed \o last /\ rows' = rows /\ calls' \subseteq calls
      /\ runs' = [runs EXCEPT ![r].status = "committed", ![r].summary = Summary(r),
                              ![r].version = @ + 1]
  BY <1>1 DEF Commit, CommitImportRun
<1>5. CommitLands(r, last)
  BY <1>1, <1>3, <1>4 DEF CommitLands, RulingsInv
<1>6. QED
  BY <1>5

LEMMA LandedGrows ==
  ASSUME RulingsInv, NEW r, NEW last, CommitLands(r, last)
  PROVE  /\ LandedTyped' /\ Len(landed) \in Nat /\ Len(last) \in Nat
         /\ DOMAIN landed = 1 .. Len(landed)
         /\ DOMAIN landed' = 1 .. Len(landed) + Len(last)
         /\ \A k \in 1 .. Len(landed) : landed'[k] = landed[k]
         /\ \A k \in 1 .. Len(last) : landed'[Len(landed) + k] = last[k]
<1>1. PICK known : landed \in Seq(known)
  BY DEF RulingsInv, LandedTyped
<1>2. PICK more : last \in Seq(more)
  BY LandingIsWhole DEF CommitLands
<1>3. landed \in Seq(known \cup more) /\ last \in Seq(known \cup more)
  BY <1>1, <1>2
<1>4. PICK after : after = landed \o last
  OBVIOUS
<1>5. /\ after \in Seq(known \cup more) /\ Len(after) = Len(landed) + Len(last)
      /\ \A i \in 1 .. Len(landed) + Len(last) :
           after[i] = IF i <= Len(landed) THEN landed[i] ELSE last[i - Len(landed)]
  BY <1>3, <1>4, ConcatProperties
<1>6. /\ Len(landed) \in Nat /\ Len(last) \in Nat /\ DOMAIN landed = 1 .. Len(landed)
      /\ DOMAIN after = 1 .. Len(after)
  BY <1>3, <1>5, LenProperties
<1>7. landed' = after
  BY <1>4 DEF CommitLands
<1>8. \A k \in 1 .. Len(landed) : after[k] = landed[k]
  BY <1>5, <1>6
<1>9. \A k \in 1 .. Len(last) : after[Len(landed) + k] = last[k]
  <2>1. SUFFICES ASSUME NEW k \in 1 .. Len(last)
                 PROVE  after[Len(landed) + k] = last[k]
    OBVIOUS
  <2>2. Len(landed) + k \in 1 .. Len(landed) + Len(last) /\ ~ (Len(landed) + k <= Len(landed))
        /\ Len(landed) + k - Len(landed) = k
    BY <1>6
  <2>3. QED
    BY <1>5, <2>2
<1>10. QED
  BY <1>5, <1>6, <1>7, <1>8, <1>9 DEF LandedTyped

LEMMA CommitKeepsRulings ==
  ASSUME RunsInv, RulingsInv, NEW call \in calls, Commit(call)
  PROVE  RulingsInv'
<1>1. PICK r, last : CommitLands(r, last)
  BY CommitLandsRun
<1>2. r \in DOMAIN rows /\ last = Landing(r) /\ rows' = rows /\ calls' \subseteq calls
  BY <1>1 DEF CommitLands
<1>3. RowsKept
  BY <1>2 DEF RowsKept, Follows
<1>4. /\ LandedTyped' /\ Len(landed) \in Nat /\ Len(last) \in Nat
      /\ DOMAIN landed = 1 .. Len(landed)
      /\ DOMAIN landed' = 1 .. Len(landed) + Len(last)
      /\ \A k \in 1 .. Len(landed) : landed'[k] = landed[k]
      /\ \A k \in 1 .. Len(last) : landed'[Len(landed) + k] = last[k]
  BY <1>1, LandedGrows
<1>5. ASSUME NEW k \in 1 .. Len(last)
      PROVE  \E land : land = last[k] /\ LandedRuled(land)'
  <2>1. PICK land : land = last[k]
    OBVIOUS
  <2>2. /\ land.run = r /\ land.row \in Applied(r)
        /\ land.action = rows[r][land.row].action
    BY <1>2, <2>1, LandingIsWhole
  <2>3. PICK row : row = rows[r][land.row]
    OBVIOUS
  <2>4. land.row \in DOMAIN rows[r] /\ row.action \in Lands
    BY <2>2, <2>3 DEF Applied
  <2>5. RowWaits(row)
    BY <1>2, <2>3, <2>4 DEF RulingsInv, RulingsHold
  <2>6. LandedRuled(land)
    BY <1>2, <2>2, <2>3, <2>4, <2>5 DEF LandedRuled, RowWaits
  <2>7. LandedRuled(land)'
    BY <1>3, <2>6, RowsKeptLandedRuled
  <2>8. QED
    BY <2>1, <2>7
<1>6. ASSUME NEW k \in DOMAIN landed'
      PROVE  \/ \E land : land = landed'[k] /\ LandedRuled(land)'
             \/ k \in DOMAIN landed /\ landed'[k] = landed[k]
  <2>1. CASE k \in 1 .. Len(landed)
    BY <1>4, <2>1
  <2>2. CASE k \notin 1 .. Len(landed)
    <3>1. PICK i \in 1 .. Len(last) : k = Len(landed) + i
      <4>1. k - Len(landed) \in 1 .. Len(last) /\ k = Len(landed) + (k - Len(landed))
        BY <1>4, <1>6, <2>2
      <4>2. QED
        BY <4>1
    <3>2. landed'[k] = last[i]
      BY <1>4, <3>1
    <3>3. QED
      BY <1>5, <3>2
  <2>3. QED
    BY <2>1, <2>2
<1>7. DOMAIN rows' = RunIds'
  BY <1>1, <1>2 DEF CommitLands, RulingsInv, RunIds
<1>8. RowsTyped'
  BY <1>2 DEF RowsTyped, RulingsInv
<1>9. QED
  BY <1>2, <1>3, <1>4, <1>6, <1>7, <1>8, RulingsStand

LEMMA StatusLeavesRuns ==
  ASSUME NEW call, NEW status, UpdateImportRunStatus(call, status)
  PROVE  RunIds' = RunIds
BY DEF UpdateImportRunStatus, RunIds

LEMMA RulingsInvStep ==
  ASSUME RunsInv, RulingsInv, [ImportNext]_importVars
  PROVE  RulingsInv'
<1>1. ASSUME NEW r \in RunIds, PreviewBegins(r) \/ DiscardBegins(r) \/ CommitBegins(r)
      PROVE  RulingsInv'
  BY <1>1, BeginKeepsRulings DEF PreviewBegins, DiscardBegins, CommitBegins
<1>2. ASSUME NEW r \in RunIds, NEW i \in DOMAIN rows[r],
             ImportRowDecide(r, i) \/ DecideOverApi(r, i)
      PROVE  RulingsInv'
  BY <1>2, DecisionBeginsKeepsRulings DEF ImportRowDecide, DecideOverApi
<1>3. ASSUME NEW call \in calls, UploadValidates(call) \/ Preview(call) \/ Discard(call)
      PROVE  RulingsInv'
  <2>1. PICK status : UpdateImportRunStatus(call, status)
    BY <1>3 DEF UploadValidates, Preview, Discard
  <2>2. UNCHANGED <<rows, landed>> /\ calls' \subseteq calls
    BY <1>3 DEF UploadValidates, Preview, Discard
  <2>3. QED
    BY <2>1, <2>2, StatusLeavesRuns, RunIsWrittenOnly
<1>4. ASSUME UNCHANGED <<runs, rows, landed>>, calls' \subseteq calls
      PROVE  RulingsInv'
  BY <1>4, RunIsWrittenOnly DEF RunIds
<1>5. ASSUME NEW call \in calls, \/ CallEnds(call)
                                 \/ RuleOnRow(call) /\ call.action \notin Rulings
      PROVE  RulingsInv'
  BY <1>4, <1>5 DEF CallEnds, RuleOnRow
<1>6. ASSUME NEW c, Enrol(c)
      PROVE  RulingsInv'
  BY <1>4, <1>6 DEF Enrol
<1>7. CASE OfficerEdits
  BY <1>4, <1>7, OfficersWriteTables
<1>8. CASE UNCHANGED importVars
  BY <1>4, <1>8 DEF importVars
<1>9. QED
  BY <1>1, <1>2, <1>3, <1>5, <1>6, <1>7, <1>8, UploadStartsKeepsRulings,
     UploadStagesRowKeepsRulings, RecordDecisionKeepsRulings, RuleOnRowKeepsRulings,
     CommitKeepsRulings DEF ImportNext

\* ADR-0008: rows that "require officer judgement" never land by guess.  However
\* rulings, previews and commits overlap, and even where an officer rules after
\* the run was previewed, a row that needed help lands only as a recorded decision
\* approved it, and the run's page never calls it automatic.
THEOREM NothingIsGuessed == ImportSpec => []NothingLandsUnruled
<1>1. ImportInit => RunsInv /\ RulingsInv
  <2>1. SUFFICES ASSUME ImportInit PROVE RunsInv /\ RulingsInv
    OBVIOUS
  <2>2. runs = <<>> /\ calls = {} /\ rows = <<>> /\ landed = <<>>
    BY <2>1 DEF ImportInit
  <2>3. runs \in Seq({}) /\ RunIds = {} /\ rows \in Seq(Seq({})) /\ landed \in Seq({})
    BY <2>2 DEF RunIds
  <2>4. QED
    BY <2>2, <2>3 DEF RunsInv, RunsTyped, RulingsInv, RowsTyped, LandedTyped, RulingsHold
<1>2. RunsInv /\ RulingsInv /\ [ImportNext]_importVars => RunsInv' /\ RulingsInv'
  BY RunsInvStep, RulingsInvStep
<1>3. RulingsInv => NothingLandsUnruled
  <2>1. SUFFICES ASSUME RulingsInv PROVE NothingLandsUnruled
    OBVIOUS
  <2>2. \A k \in DOMAIN landed :
          NeedsHelp(rows[landed[k].run][landed[k].row]) =>
            Ruled(rows[landed[k].run][landed[k].row], landed[k].action)
    BY <2>1 DEF RulingsInv, RulingsHold, LandedRuled
  <2>3. ASSUME NEW r \in RunIds, NEW i \in DOMAIN rows[r],
               ImportDetail(rows[r][i]) = "auto"
        PROVE  ~ NeedsHelp(rows[r][i])
    <3>1. PICK row : row = rows[r][i]
      OBVIOUS
    <3>2. RowWaits(row) /\ row.manual \in BOOLEAN
      BY <2>1, <3>1 DEF RulingsInv, RulingsHold, IsRow
    <3>3. ImportDetail(row) = "auto"
      BY <2>3, <3>1
    <3>4. ~ (row.manual \/ row.decisions # <<>>)
      BY <3>2, <3>3 DEF ImportDetail
    <3>5. QED
      BY <3>1, <3>2, <3>4 DEF RowWaits
  <2>4. QED
    BY <2>2, <2>3 DEF NothingLandsUnruled, NeedsHelp, Ruled
<1>4. QED
  BY <1>1, <1>2, <1>3, PTL DEF ImportSpec

\* A step that lands nothing: the runs keep their summaries, a new one has none.
RunsLeft ==
  /\ RunIds \subseteq RunIds'
  /\ \A r \in RunIds' :
       /\ "summary" \in DOMAIN runs'[r]
       /\ \/ /\ r \in RunIds /\ runs'[r].summary = runs[r].summary
             /\ runs[r].status = "committed" => runs'[r].status = "committed"
          \/ r \notin RunIds /\ runs'[r].summary = NoSummary

LEMMA LandsStand ==
  ASSUME LandsInv, RunsLeft, UNCHANGED landed
  PROVE  LandsInv'
<1>1. \A r, action : LandedOf(r, action)' = LandedOf(r, action)
  BY DEF LandedOf
<1>2. ASSUME NEW r \in RunIds' PROVE SummaryCounts(r)'
  <2>1. CASE r \in RunIds /\ runs'[r].summary = runs[r].summary
    BY <1>1, <2>1 DEF LandsInv, SummaryCounts
  <2>2. CASE r \notin RunIds /\ runs'[r].summary = NoSummary
    <3>1. \A action : LandedOf(r, action) = {}
      BY <2>2 DEF LandsInv, LandedOf
    <3>2. runs'[r].summary.created = 0 /\ runs'[r].summary.updated = 0
      BY <2>2 DEF NoSummary
    <3>3. QED
      BY <1>1, <3>1, <3>2, FS_EmptySet DEF SummaryCounts
  <2>3. QED
    BY <2>1, <2>2 DEF RunsLeft
<1>3. ASSUME NEW r \in RunIds', runs'[r].status # "committed", NEW k \in DOMAIN landed
      PROVE  landed[k].run # r
  BY <1>3 DEF LandsInv, RunsLeft
<1>4. IsInjective(landed)' /\ \A k \in DOMAIN landed' : landed'[k].run \in RunIds'
  BY DEF LandsInv, RunsLeft
<1>5. QED
  BY <1>2, <1>3, <1>4 DEF LandsInv, RunsLeft

LEMMA RunsUntouched ==
  ASSUME LandsInv, UNCHANGED <<runs, landed>>
  PROVE  LandsInv'
<1>1. RunsLeft
  BY DEF RunsLeft, LandsInv, RunIds
<1>2. QED
  BY <1>1, LandsStand

LEMMA StatusKeepsLands ==
  ASSUME RunsInv, LandsInv, NEW call \in calls, call.op \in Writing, NEW status,
         UpdateImportRunStatus(call, status), UNCHANGED landed
  PROVE  LandsInv'
<1>1. PICK r : r = call.run
  OBVIOUS
<1>2. /\ r \in RunIds /\ runs[r].version = call.version /\ IsRun(runs[r])
      /\ runs[r].status \notin Closed
  BY <1>1 DEF RunsInv, CallKnowsRun, UpdateImportRunStatus
<1>3. PICK row : row = [runs[r] EXCEPT !.status = status, !.version = @ + 1]
  OBVIOUS
<1>4. runs' = [runs EXCEPT ![r] = row]
  BY <1>1, <1>2, <1>3 DEF UpdateImportRunStatus, RunIds, IsRun
<1>5. row.summary = runs[r].summary /\ "summary" \in DOMAIN row
  BY <1>2, <1>3 DEF LandsInv
<1>6. /\ DOMAIN runs' = DOMAIN runs /\ runs'[r] = row
      /\ \A q \in DOMAIN runs \ {r} : runs'[q] = runs[q]
  BY <1>2, <1>4 DEF RunIds
<1>7. RunsLeft
  BY <1>2, <1>5, <1>6 DEF RunsLeft, LandsInv, RunIds, Closed
<1>8. QED
  BY <1>7, LandsStand

LEMMA UploadKeepsLands ==
  ASSUME RunsInv, LandsInv, NEW key \in Keys, UploadStarts(key)
  PROVE  LandsInv'
<1>1. PICK known : runs \in Seq(known)
  BY DEF RunsInv, RunsTyped
<1>2. PICK row : row = CreateImportRun(FileOf[key], key)
  OBVIOUS
<1>3. runs' = Append(runs, row) /\ UNCHANGED landed
  BY <1>2 DEF UploadStarts
<1>4. row.summary = NoSummary /\ "summary" \in DOMAIN row
  BY <1>2 DEF CreateImportRun
<1>5. runs \in Seq(known \cup {row}) /\ row \in known \cup {row}
  BY <1>1
<1>6. /\ Len(runs') = Len(runs) + 1 /\ runs' \in Seq(known \cup {row})
      /\ \A r \in 1 .. Len(runs) : runs'[r] = runs[r]
      /\ runs'[Len(runs) + 1] = row
  BY <1>3, <1>5, AppendProperties
<1>7. RunIds = 1 .. Len(runs) /\ RunIds' = 1 .. Len(runs) + 1 /\ Len(runs) \in Nat
  BY <1>5, <1>6, LenProperties DEF RunIds
<1>8. RunsLeft
  BY <1>4, <1>6, <1>7 DEF RunsLeft, LandsInv
<1>9. QED
  BY <1>3, <1>8, LandsStand

\* The summary of a commit counts what the history then says was landed.
LEMMA CommitCounts ==
  ASSUME RunsInv, RulingsInv, LandsInv, NEW r, NEW last, CommitLands(r, last),
         NEW action \in Lands
  PROVE  Cardinality(LandedOf(r, action)') = CountStagedRowsByAction(r, action)
<1>1. /\ r \in DOMAIN rows /\ last = Landing(r) /\ r \in RunIds
      /\ runs[r].status # "committed"
  BY DEF CommitLands, RulingsInv, Closed
<1>2. /\ Len(landed) \in Nat /\ Len(last) \in Nat
      /\ DOMAIN landed = 1 .. Len(landed)
      /\ DOMAIN landed' = 1 .. Len(landed) + Len(last)
      /\ \A k \in 1 .. Len(landed) : landed'[k] = landed[k]
      /\ \A k \in 1 .. Len(last) : landed'[Len(landed) + k] = last[k]
  BY LandedGrows
<1>3. /\ \A i, j \in 1 .. Len(last) : last[i].row = last[j].row => i = j
      /\ \A k \in 1 .. Len(last) :
           /\ last[k].run = r /\ last[k].row \in Applied(r)
           /\ last[k].action = rows[r][last[k].row].action
      /\ \A i \in Applied(r) : \E k \in 1 .. Len(last) : last[k].row = i
  BY <1>1, LandingIsWhole
<1> DEFINE K == {k \in 1 .. Len(last) : last[k].action = action}
           made == {i \in DOMAIN rows[r] : rows[r][i].action = action}
           counted == {k \in DOMAIN landed' : landed'[k].run = r /\ landed'[k].action = action}
<1>4. \A k \in counted : \E i \in K : k = Len(landed) + i
  <2>1. SUFFICES ASSUME NEW k \in counted
                 PROVE  \E i \in K : k = Len(landed) + i
    OBVIOUS
  <2>2. k \notin 1 .. Len(landed)
    BY <1>1, <1>2 DEF LandsInv
  <2>3. PICK i \in 1 .. Len(last) : k = Len(landed) + i
    <3>1. k - Len(landed) \in 1 .. Len(last) /\ k = Len(landed) + (k - Len(landed))
      BY <1>2, <2>2
    <3>2. QED
      BY <3>1
  <2>4. i \in K
    BY <1>2, <2>3
  <2>5. QED
    BY <2>3, <2>4
<1>5. \A i \in K : Len(landed) + i \in counted
  BY <1>2, <1>3
<1> DEFINE row == [k \in counted |-> landed'[k].row]
<1>6. \A k \in counted : \E i \in K : k = Len(landed) + i /\ row[k] = last[i].row
  BY <1>2, <1>4
<1>7. row \in [counted -> made]
  <2>1. \A i \in K : last[i].row \in made
    BY <1>3 DEF Applied
  <2>2. QED
    BY <1>6, <2>1
<1>8. \A k, l \in counted : row[k] = row[l] => k = l
  BY <1>3, <1>6
<1>9. \A i \in made : \E k \in counted : row[k] = i
  <2>1. SUFFICES ASSUME NEW i \in made PROVE \E k \in counted : row[k] = i
    OBVIOUS
  <2>2. i \in Applied(r)
    BY DEF Applied
  <2>3. PICK k \in 1 .. Len(last) : last[k].row = i
    BY <1>3, <2>2
  <2>4. k \in K
    BY <1>3, <2>3
  <2>5. Len(landed) + k \in counted /\ landed'[Len(landed) + k] = last[k]
    BY <1>2, <1>5, <2>4
  <2>6. QED
    BY <2>3, <2>5
<1>10. IsFiniteSet(counted)
  <2>1. counted \subseteq 1 .. Len(landed) + Len(last)
    BY <1>2
  <2>2. IsFiniteSet(1 .. Len(landed) + Len(last))
    BY <1>2, FS_Interval
  <2>3. QED
    BY <2>1, <2>2, FS_Subset
<1>11. Cardinality(made) = Cardinality(counted)
  <2> HIDE DEF row, counted, made
  <2>1. row \in Injection(counted, made)
    BY <1>7, <1>8 DEF Injection, IsInjective
  <2>2. row \in Surjection(counted, made)
    BY <1>7, <1>9 DEF Surjection
  <2>3. ExistsBijection(counted, made)
    BY <2>1, <2>2 DEF Bijection, ExistsBijection
  <2>4. QED
    BY <1>10, <2>3, FS_Bijection
<1>12. QED
  BY <1>11 DEF CountStagedRowsByAction, LandedOf

LEMMA CommitKeepsLands ==
  ASSUME RunsInv, RulingsInv, LandsInv, NEW r, NEW last, CommitLands(r, last)
  PROVE  LandsInv'
<1>1. /\ r \in DOMAIN rows /\ last = Landing(r) /\ r \in RunIds
      /\ runs[r].status # "committed"
  BY DEF CommitLands, RulingsInv, Closed
<1>2. /\ Len(landed) \in Nat /\ Len(last) \in Nat
      /\ DOMAIN landed = 1 .. Len(landed)
      /\ DOMAIN landed' = 1 .. Len(landed) + Len(last)
      /\ \A k \in 1 .. Len(landed) : landed'[k] = landed[k]
      /\ \A k \in 1 .. Len(last) : landed'[Len(landed) + k] = last[k]
  BY LandedGrows
<1>3. /\ \A i, j \in 1 .. Len(last) : last[i].row = last[j].row => i = j
      /\ \A k \in 1 .. Len(last) : last[k].run = r
  BY <1>1, LandingIsWhole
<1>4. \A k \in DOMAIN landed' :
        \/ k \in 1 .. Len(landed)
        \/ \E i \in 1 .. Len(last) : k = Len(landed) + i
  <2>1. SUFFICES ASSUME NEW k \in DOMAIN landed', k \notin 1 .. Len(landed)
                 PROVE  \E i \in 1 .. Len(last) : k = Len(landed) + i
    OBVIOUS
  <2>2. k - Len(landed) \in 1 .. Len(last) /\ k = Len(landed) + (k - Len(landed))
    BY <1>2, <2>1
  <2>3. QED
    BY <2>2
<1>5. \A k \in 1 .. Len(landed) : landed[k].run \in RunIds /\ landed[k].run # r
  BY <1>1, <1>2 DEF LandsInv
<1>6. IsInjective(landed)'
  <2>1. \A i, j \in 1 .. Len(landed) : landed[i] = landed[j] => i = j
    BY <1>2 DEF LandsInv, IsInjective
  <2>2. SUFFICES ASSUME NEW i \in DOMAIN landed', NEW j \in DOMAIN landed',
                        landed'[i] = landed'[j]
                 PROVE  i = j
    BY DEF IsInjective
  <2>3. CASE i \in 1 .. Len(landed) /\ j \in 1 .. Len(landed)
    BY <1>2, <2>1, <2>2, <2>3
  <2>4. CASE i \notin 1 .. Len(landed) /\ j \notin 1 .. Len(landed)
    <3>1. PICK k \in 1 .. Len(last), l \in 1 .. Len(last) :
            i = Len(landed) + k /\ j = Len(landed) + l
      BY <1>4, <2>4
    <3>2. last[k] = last[l]
      BY <1>2, <2>2, <3>1
    <3>3. QED
      BY <1>3, <3>1, <3>2
  <2>5. \A k \in DOMAIN landed' :
          landed'[k].run = r <=> k \notin 1 .. Len(landed)
    <3>1. \A k \in 1 .. Len(landed) : landed'[k].run # r
      BY <1>2, <1>5
    <3>2. \A k \in 1 .. Len(last) : landed'[Len(landed) + k].run = r
      BY <1>2, <1>3
    <3>3. QED
      BY <1>4, <3>1, <3>2
  <2>6. QED
    BY <2>2, <2>3, <2>4, <2>5
<1>7. /\ runs' = [runs EXCEPT ![r].status = "committed", ![r].summary = Summary(r),
                              ![r].version = @ + 1]
      /\ IsRun(runs[r]) /\ "summary" \in DOMAIN runs[r]
  BY <1>1 DEF CommitLands, RunsInv, LandsInv
<1>8. PICK run : run = [runs[r] EXCEPT !.status = "committed", !.summary = Summary(r),
                                       !.version = @ + 1]
  OBVIOUS
<1>9. runs' = [runs EXCEPT ![r] = run]
  BY <1>1, <1>7, <1>8 DEF RunIds, IsRun
<1>10. run.summary = Summary(r) /\ run.status = "committed" /\ "summary" \in DOMAIN run
  BY <1>7, <1>8 DEF IsRun
<1>11. /\ DOMAIN runs' = DOMAIN runs /\ runs'[r] = run /\ RunIds' = RunIds
       /\ \A q \in DOMAIN runs \ {r} : runs'[q] = runs[q]
  BY <1>1, <1>9 DEF RunIds
<1>12. \A k \in DOMAIN landed' : landed'[k].run \in RunIds'
  <2>1. \A k \in 1 .. Len(landed) : landed'[k].run \in RunIds'
    BY <1>2, <1>5, <1>11
  <2>2. \A k \in 1 .. Len(last) : landed'[Len(landed) + k].run \in RunIds'
    BY <1>1, <1>2, <1>3, <1>11
  <2>3. QED
    BY <1>4, <2>1, <2>2
<1>13. ASSUME NEW q \in RunIds \ {r}
       PROVE  \A action : LandedOf(q, action)' = LandedOf(q, action)
  <2>1. \A k \in DOMAIN landed' : landed'[k].run = q => k \in DOMAIN landed
    BY <1>2, <1>3, <1>4, <1>13
  <2>2. \A k \in DOMAIN landed : k \in DOMAIN landed' /\ landed'[k] = landed[k]
    BY <1>2
  <2>3. QED
    BY <2>1, <2>2 DEF LandedOf
<1>14. ASSUME NEW q \in RunIds' PROVE SummaryCounts(q)'
  <2>1. CASE q = r
    <3>1. /\ Cardinality(LandedOf(r, "create")') = CountStagedRowsByAction(r, "create")
          /\ Cardinality(LandedOf(r, "update")') = CountStagedRowsByAction(r, "update")
      BY CommitCounts DEF Lands
    <3>2. QED
      BY <1>10, <1>11, <2>1, <3>1 DEF SummaryCounts, Summary
  <2>2. CASE q # r
    BY <1>11, <1>13, <1>14, <2>2 DEF SummaryCounts, LandsInv, RunIds
  <2>3. QED
    BY <2>1, <2>2
<1>15. ASSUME NEW q \in RunIds', runs'[q].status # "committed", NEW k \in DOMAIN landed'
       PROVE  landed'[k].run # q
  <2>1. q # r /\ q \in RunIds /\ runs[q].status # "committed"
    BY <1>10, <1>11, <1>15 DEF RunIds
  <2>2. \A j \in 1 .. Len(landed) : landed[j].run # q
    BY <1>2, <2>1 DEF LandsInv
  <2>3. QED
    BY <1>2, <1>3, <1>4, <2>1, <2>2
<1>16. \A q \in RunIds' : "summary" \in DOMAIN runs'[q]
  BY <1>10, <1>11 DEF LandsInv, RunIds
<1>17. QED
  BY <1>6, <1>12, <1>14, <1>15, <1>16 DEF LandsInv

LEMMA LandsInvStep ==
  ASSUME RunsInv, RulingsInv, LandsInv, [ImportNext]_importVars
  PROVE  LandsInv'
<1>1. ASSUME NEW r, PreviewBegins(r) \/ DiscardBegins(r) \/ CommitBegins(r)
      PROVE  LandsInv'
  BY <1>1, RunsUntouched DEF PreviewBegins, DiscardBegins, CommitBegins, Begin
<1>2. ASSUME NEW r, NEW i, ImportRowDecide(r, i) \/ DecideOverApi(r, i)
      PROVE  LandsInv'
  BY <1>2, RunsUntouched DEF ImportRowDecide, DecideOverApi, DecisionBegins
<1>3. ASSUME NEW call \in calls, UploadValidates(call) \/ Preview(call) \/ Discard(call)
      PROVE  LandsInv'
  <2>1. PICK status : UpdateImportRunStatus(call, status)
    BY <1>3 DEF UploadValidates, Preview, Discard
  <2>2. UNCHANGED landed /\ call.op \in Writing
    BY <1>3 DEF UploadValidates, Preview, Discard, Writing
  <2>3. QED
    BY <2>1, <2>2, StatusKeepsLands
<1>4. ASSUME NEW call \in calls, \/ UploadStagesRow(call) \/ RecordDecision(call)
                                 \/ RuleOnRow(call) \/ CallEnds(call)
      PROVE  LandsInv'
  BY <1>4, RunsUntouched DEF UploadStagesRow, RecordDecision, RuleOnRow, CallEnds
<1>5. ASSUME NEW call \in calls, Commit(call)
      PROVE  LandsInv'
  BY <1>5, CommitLandsRun, CommitKeepsLands
<1>6. ASSUME OfficerEdits \/ \E c : Enrol(c)
      PROVE  LandsInv'
  BY <1>6, RunsUntouched, OfficersWriteTables DEF Enrol
<1>7. CASE UNCHANGED importVars
  BY <1>7, RunsUntouched DEF importVars
<1>8. QED
  BY <1>1, <1>2, <1>3, <1>4, <1>5, <1>6, <1>7, UploadKeepsLands DEF ImportNext

\* Commit "applies all staged rows in a single transaction", once.  Two commits
\* begun from one preview, or a commit overlapping a discard, land no row twice,
\* a run that is not committed has landed nothing, and the summary a retry is
\* answered with counts exactly the rows that were applied.
THEOREM CommitLandsOnce == ImportSpec => []LandsOnce
<1>1. ImportInit => RunsInv /\ RulingsInv /\ LandsInv
  <2>1. SUFFICES ASSUME ImportInit PROVE RunsInv /\ RulingsInv /\ LandsInv
    OBVIOUS
  <2>2. runs = <<>> /\ calls = {} /\ rows = <<>> /\ landed = <<>>
    BY <2>1 DEF ImportInit
  <2>3. runs \in Seq({}) /\ RunIds = {} /\ rows \in Seq(Seq({})) /\ landed \in Seq({})
    BY <2>2 DEF RunIds
  <2>4. LandsInv
    BY <2>2, <2>3 DEF LandsInv, IsInjective
  <2>5. QED
    BY <2>2, <2>3, <2>4
       DEF RunsInv, RunsTyped, RulingsInv, RowsTyped, LandedTyped, RulingsHold
<1>2. RunsInv /\ RulingsInv /\ LandsInv /\ [ImportNext]_importVars =>
        RunsInv' /\ RulingsInv' /\ LandsInv'
  BY RunsInvStep, RulingsInvStep, LandsInvStep
<1>3. LandsInv => LandsOnce
  <2>1. SUFFICES ASSUME LandsInv, NEW r \in RunIds
                 PROVE  /\ runs[r].summary.created = Cardinality(LandedOf(r, "create"))
                        /\ runs[r].summary.updated = Cardinality(LandedOf(r, "update"))
                        /\ LandedOf(r, "create") \cup LandedOf(r, "update") # {} =>
                             runs[r].status = "committed"
    BY DEF LandsOnce, LandsInv, LandedOf
  <2>2. QED
    BY <2>1 DEF LandsInv, SummaryCounts, LandedOf
<1>4. QED
  BY <1>1, <1>2, <1>3, PTL DEF ImportSpec

-----------------------------------------------------------------------------
(* A commit's fold over the rows of a run.  It is a recursive function on  *)
(* sets of rows; a solution of its equation is built up by the number of   *)
(* rows, and what each row keeps the fold keeps.                           *)

Folding(T, seq, g, s) ==
  IF s = {} THEN T ELSE ApplyRow(g[s \ {Max(s)}], seq[Max(s)])

Folded(T, seq) == CHOOSE g : g = [s \in SUBSET DOMAIN seq |-> Folding(T, seq, g, s)]

LEMMA FoldIsFolded ==
  ASSUME NEW T, NEW seq
  PROVE  FoldLeft(ApplyRow, T, seq) = Folded(T, seq)[DOMAIN seq]
BY DEF FoldLeft, MapThenFoldSet, Folded, Folding

LEMMA LastRowIsARow ==
  ASSUME NEW n \in Nat, NEW s \in SUBSET (1 .. n), s # {}
  PROVE  Max(s) \in s
<1> DEFINE T == {n - x : x \in s}
<1>1. T \in SUBSET Nat /\ T # {}
  <2>1. \A x \in s : n - x \in Nat
    OBVIOUS
  <2>2. QED
    BY <2>1
<1>2. PICK t \in T : \A u \in T : t <= u
  BY <1>1, LeastNumber
<1>3. PICK x \in s : t = n - x
  BY <1>2
<1>4. \A y \in s : x >= y
  <2>1. SUFFICES ASSUME NEW y \in s PROVE x >= y
    OBVIOUS
  <2>2. n - y \in T /\ x \in Int /\ y \in Int
    OBVIOUS
  <2>3. n - x <= n - y
    BY <1>2, <1>3, <2>2
  <2>4. QED
    BY <2>2, <2>3
<1>5. QED
  BY <1>4 DEF Max

LEMMA FoldExists ==
  ASSUME NEW T, NEW seq, NEW n \in Nat, DOMAIN seq = 1 .. n
  PROVE  \E g : g = [s \in SUBSET DOMAIN seq |-> Folding(T, seq, g, s)]
<1> DEFINE S == 1 .. n
           small(k) == {s \in SUBSET S : Cardinality(s) <= k}
           solves(g, k) == g = [s \in small(k) |-> Folding(T, seq, g, s)]
           Bad == {k \in 0 .. n : ~ \E g : solves(g, k)}
<1>1. \A s \in SUBSET S : IsFiniteSet(s) /\ Cardinality(s) \in Nat /\ Cardinality(s) <= n
  <2>1. IsFiniteSet(S) /\ Cardinality(S) = n
    BY FS_Interval
  <2>2. QED
    BY <2>1, FS_Subset, FS_CardinalityType
<1>2. ASSUME Bad # {} PROVE FALSE
  <2>1. Bad \in SUBSET Nat
    OBVIOUS
  <2>2. PICK k \in Bad : \A x \in Bad : k <= x
    BY <1>2, <2>1, LeastNumber
  <2>3. k \in 0 .. n /\ ~ \E g : solves(g, k)
    OBVIOUS
  <2>4. CASE k = 0
    <3> DEFINE g == [s \in small(k) |-> T]
    <3>1. \A s \in small(k) : s = {}
      <4>1. \A s \in small(k) : Cardinality(s) = 0 /\ IsFiniteSet(s)
        BY <1>1, <2>4
      <4>2. QED
        BY <4>1, FS_EmptySet
    <3>2. [s \in small(k) |-> Folding(T, seq, g, s)] = [s \in small(k) |-> T]
      BY <3>1 DEF Folding
    <3>3. solves(g, k)
      BY <3>2
    <3>4. QED
      BY <2>3, <3>3
  <2>5. CASE k # 0
    <3>1. k - 1 \in 0 .. n /\ k - 1 < k /\ k \in Nat
      BY <2>3, <2>5
    <3>2. PICK j : j = k - 1
      OBVIOUS
    <3>3. ~ (k <= j) /\ j \in 0 .. n
      BY <3>1, <3>2
    <3>4. j \notin Bad
      <4> HIDE DEF Bad
      <4>1. QED
        BY <2>2, <3>3
    <3>5. PICK g : solves(g, j)
      BY <3>3, <3>4
    <3> DEFINE h == [s \in small(k) |-> Folding(T, seq, g, s)]
    <3>6. ASSUME NEW s \in small(k), s # {}
          PROVE  h[s \ {Max(s)}] = g[s \ {Max(s)}]
      <4>1. PICK t : t = s \ {Max(s)}
        OBVIOUS
      <4>2. Max(s) \in s
        BY <3>6, LastRowIsARow
      <4>3. Cardinality(t) = Cardinality(s) - 1
        BY <1>1, <4>1, <4>2, FS_RemoveElement
      <4>4. Cardinality(s) \in Nat /\ Cardinality(s) <= k /\ t \in SUBSET S
        BY <1>1, <4>1
      <4>5. t \in small(j) /\ t \in small(k)
        BY <3>1, <3>2, <4>3, <4>4
      <4>6. g[t] = Folding(T, seq, g, t)
        BY <3>5, <4>5
      <4>7. h[t] = Folding(T, seq, g, t)
        BY <4>5
      <4>8. QED
        BY <4>1, <4>6, <4>7
    <3>7. h = [s \in small(k) |-> Folding(T, seq, g, s)]
      OBVIOUS
    <3> HIDE DEF h
    <3>8. \A s \in small(k) : Folding(T, seq, g, s) = Folding(T, seq, h, s)
      BY <3>6 DEF Folding
    <3> HIDE DEF small
    <3>9. [s \in small(k) |-> Folding(T, seq, g, s)] = [s \in small(k) |-> Folding(T, seq, h, s)]
      BY <3>8
    <3>10. solves(h, k)
      BY <3>7, <3>9
    <3>11. QED
      BY <2>3, <3>10
  <2>6. QED
    BY <2>4, <2>5
<1>3. \E g : solves(g, n)
  <2>1. n \in 0 .. n
    OBVIOUS
  <2>2. n \notin Bad
    BY <1>2
  <2>3. QED
    BY <2>1, <2>2
<1>4. small(n) = SUBSET S
  BY <1>1
<1>5. QED
  BY <1>3, <1>4

LEMMA FoldUnfolds ==
  ASSUME NEW T, NEW seq, NEW n \in Nat, DOMAIN seq = 1 .. n
  PROVE  \A s \in SUBSET DOMAIN seq :
           Folded(T, seq)[s] = Folding(T, seq, Folded(T, seq), s)
<1>1. PICK g : g = Folded(T, seq)
  OBVIOUS
<1>2. g = [s \in SUBSET DOMAIN seq |-> Folding(T, seq, g, s)]
  BY <1>1, FoldExists DEF Folded
<1>3. \A s \in SUBSET DOMAIN seq : g[s] = Folding(T, seq, g, s)
  BY <1>2
<1>4. QED
  BY <1>1, <1>3

-----------------------------------------------------------------------------
(* What no row of an export may do to the tables.                          *)

\* A sequence of whatever it holds.
IsList(s) == s \in Seq(Range(s))

IsNote(note) == {"body", "by", "edited"} \subseteq DOMAIN note
IsGrant(grant) == {"by", "lifetime", "revoked"} \subseteq DOMAIN grant

PersonNoted(person) ==
  /\ "notes" \in DOMAIN person
  /\ IsList(person.notes) /\ \A n \in DOMAIN person.notes : IsNote(person.notes[n])
  /\ NotedOnce(person.notes)

HasGrants(membership) ==
  /\ IsList(membership.grants) /\ GrantedOnce(membership.grants)
  /\ \A g \in DOMAIN membership.grants : IsGrant(membership.grants[g])

HasCoverage(membership) ==
  IsList(membership.coverage) /\ CoveredOnce(membership.coverage)

PaidOnce(membership) ==
  /\ {"coverage", "grants"} \subseteq DOMAIN membership
  /\ HasCoverage(membership) /\ HasGrants(membership)

PersonsOnce(people) == IsList(people) /\ \A p \in DOMAIN people : PersonNoted(people[p])
DuesOnce(dues) == IsList(dues) /\ \A m \in DOMAIN dues : PaidOnce(dues[m])

Harmless(T) ==
  /\ {"persons", "contacts", "links", "memberships", "ok"} \subseteq DOMAIN T
  /\ PersonsOnce(T.persons) /\ NamesOne(T.links) /\ DuesOnce(T.memberships)

LEMMA AppendedIsAList ==
  ASSUME NEW s, NEW e, IsList(s)
  PROVE  /\ IsList(Append(s, e))
         /\ Len(Append(s, e)) = Len(s) + 1
         /\ DOMAIN Append(s, e) = DOMAIN s \cup {Len(s) + 1}
         /\ \A i \in DOMAIN s : Append(s, e)[i] = s[i]
         /\ Append(s, e)[Len(s) + 1] = e
         /\ Len(s) \in Nat /\ DOMAIN s = 1 .. Len(s)
<1> DEFINE S == Range(s) \cup {e}
           t == Append(s, e)
<1>1. s \in Seq(S)
  BY DEF IsList
<1>2. /\ t \in Seq(S) /\ Len(t) = Len(s) + 1
      /\ \A i \in 1 .. Len(s) : t[i] = s[i]
      /\ t[Len(s) + 1] = e
      /\ Len(s) \in Nat /\ DOMAIN s = 1 .. Len(s) /\ DOMAIN t = 1 .. Len(t)
  BY <1>1, AppendProperties, LenProperties
<1> HIDE DEF t, S
<1>3. t \in Seq(Range(t))
  BY <1>2 DEF Range
<1>4. DOMAIN t = DOMAIN s \cup {Len(s) + 1}
  BY <1>2
<1>5. QED
  BY <1>2, <1>3, <1>4 DEF IsList, t

LEMMA RewrittenIsAList ==
  ASSUME NEW s, IsList(s), NEW i, NEW e
  PROVE  /\ IsList([s EXCEPT ![i] = e]) /\ DOMAIN [s EXCEPT ![i] = e] = DOMAIN s
         /\ \A j \in DOMAIN s : [s EXCEPT ![i] = e][j] = IF j = i THEN e ELSE s[j]
<1> DEFINE t == [s EXCEPT ![i] = e]
<1>1. Len(s) \in Nat /\ DOMAIN s = 1 .. Len(s)
  BY LenProperties DEF IsList
<1>2. DOMAIN t = DOMAIN s /\ \A j \in DOMAIN s : t[j] = IF j = i THEN e ELSE s[j]
  OBVIOUS
<1>3. t = [j \in DOMAIN s |-> t[j]]
  OBVIOUS
<1> HIDE DEF t
<1>4. t \in Seq(Range(t))
  BY <1>1, <1>2, <1>3 DEF Range
<1>5. QED
  BY <1>2, <1>4 DEF IsList, t

\* Several at once.
LEMMA JoinedIsAList ==
  ASSUME NEW s, NEW t, IsList(s), IsList(t)
  PROVE  /\ IsList(s \o t) /\ Len(s) \in Nat /\ Len(t) \in Nat
         /\ DOMAIN s = 1 .. Len(s) /\ DOMAIN (s \o t) = 1 .. Len(s) + Len(t)
         /\ DOMAIN t = 1 .. Len(t)
         /\ \A i \in 1 .. Len(s) + Len(t) :
              (s \o t)[i] = IF i <= Len(s) THEN s[i] ELSE t[i - Len(s)]
<1> DEFINE S == Range(s) \cup Range(t)
           u == s \o t
<1>1. s \in Seq(S) /\ t \in Seq(S)
  BY DEF IsList
<1>2. /\ u \in Seq(S) /\ Len(u) = Len(s) + Len(t)
      /\ \A i \in 1 .. Len(s) + Len(t) :
           u[i] = IF i <= Len(s) THEN s[i] ELSE t[i - Len(s)]
  BY <1>1, ConcatProperties
<1>3. /\ Len(s) \in Nat /\ DOMAIN s = 1 .. Len(s) /\ DOMAIN u = 1 .. Len(u)
      /\ Len(t) \in Nat /\ DOMAIN t = 1 .. Len(t)
  BY <1>1, <1>2, LenProperties
<1> HIDE DEF u, S
<1>4. u \in Seq(Range(u))
  BY <1>2, <1>3 DEF Range
<1>5. QED
  BY <1>2, <1>3, <1>4 DEF IsList, u

\* The notes an import makes of sentences, each sentence once.
LEMMA SentencesAreNotes ==
  ASSUME NEW fresh, IsFiniteSet(fresh)
  PROVE  \E more :
           /\ more = [n \in DOMAIN SetToSeq(fresh) |->
                        NewNote(SetToSeq(fresh)[n], "import")]
           /\ IsList(more)
           /\ \A i \in DOMAIN more : IsNote(more[i]) /\ more[i].body \in fresh
           /\ \A i, j \in DOMAIN more : more[i].body = more[j].body => i = j
<1>1. PICK new : new = SetToSeq(fresh)
  OBVIOUS
<1>2. new \in Seq(fresh) /\ \A i, j \in 1 .. Len(new) : new[i] = new[j] => i = j
  BY <1>1, SequenceOfSet
<1>3. /\ DOMAIN new = 1 .. Len(new) /\ Len(new) \in Nat
      /\ \A i \in DOMAIN new : new[i] \in fresh
  BY <1>2
<1>4. PICK more : more = [n \in DOMAIN new |-> NewNote(new[n], "import")]
  OBVIOUS
<1>5. DOMAIN more = DOMAIN new /\ \A i \in DOMAIN more : more[i] = NewNote(new[i], "import")
  BY <1>4
<1>6. \A i \in DOMAIN more : IsNote(more[i]) /\ more[i].body = new[i]
  BY <1>5 DEF NewNote, IsNote
<1>7. IsList(more)
  <2>1. more = [i \in 1 .. Len(new) |-> more[i]]
    BY <1>3, <1>4, <1>5
  <2>2. \A i \in 1 .. Len(new) : more[i] \in Range(more)
    BY <1>3, <1>5 DEF Range
  <2>3. QED
    BY <1>3, <2>1, <2>2 DEF IsList
<1>8. /\ \A i \in DOMAIN more : IsNote(more[i]) /\ more[i].body \in fresh
      /\ \A i, j \in DOMAIN more : more[i].body = more[j].body => i = j
  BY <1>2, <1>3, <1>5, <1>6
<1>9. more = [n \in DOMAIN SetToSeq(fresh) |-> NewNote(SetToSeq(fresh)[n], "import")]
  BY <1>1, <1>4
<1>10. QED
  BY <1>7, <1>8, <1>9

\* Sentences that are on file are left out, so none is there twice.
LEMMA NotesAreAddedOnce ==
  ASSUME NEW old, IsList(old), \A n \in DOMAIN old : IsNote(old[n]), NotedOnce(old),
         NEW more, IsList(more),
         \A i \in DOMAIN more : IsNote(more[i]) /\ more[i].body \notin Bodies(old),
         \A i, j \in DOMAIN more : more[i].body = more[j].body => i = j
  PROVE  /\ IsList(old \o more) /\ NotedOnce(old \o more)
         /\ \A n \in DOMAIN (old \o more) : IsNote((old \o more)[n])
<1>1. PICK all : all = old \o more
  OBVIOUS
<1>2. /\ IsList(all) /\ Len(old) \in Nat /\ Len(more) \in Nat
      /\ DOMAIN old = 1 .. Len(old) /\ DOMAIN more = 1 .. Len(more)
      /\ DOMAIN all = 1 .. Len(old) + Len(more)
      /\ \A i \in 1 .. Len(old) + Len(more) :
           all[i] = IF i <= Len(old) THEN old[i] ELSE more[i - Len(old)]
  BY <1>1, JoinedIsAList
<1>3. \A i \in DOMAIN all : i \notin DOMAIN old =>
         all[i] = more[i - Len(old)] /\ i - Len(old) \in DOMAIN more
  BY <1>2
<1>4. \A i \in DOMAIN old : all[i] = old[i] /\ i \in DOMAIN all
  BY <1>2
<1>5. \A n \in DOMAIN all : IsNote(all[n])
  BY <1>3, <1>4
<1>6. \A i \in DOMAIN old : old[i].body \in Bodies(old)
  BY DEF Bodies
<1>7. ASSUME NEW i \in DOMAIN all, NEW j \in DOMAIN all, i < j, all[j].by = "import",
             all[i].body = all[j].body
      PROVE  all[i].edited \/ all[j].edited
  <2>1. i \in Int /\ j \in Int
    BY <1>2
  <2>2. CASE j \in DOMAIN old
    <3>1. i \in DOMAIN old
      BY <1>2, <1>7, <2>1, <2>2
    <3>2. QED
      BY <1>4, <1>7, <2>2, <3>1 DEF NotedOnce
  <2>3. CASE i \in DOMAIN old /\ j \notin DOMAIN old
    BY <1>3, <1>4, <1>6, <1>7, <2>3
  <2>4. CASE i \notin DOMAIN old /\ j \notin DOMAIN old
    <3>1. PICK k, l : k = i - Len(old) /\ l = j - Len(old)
      OBVIOUS
    <3>2. /\ k \in DOMAIN more /\ l \in DOMAIN more
          /\ all[i] = more[k] /\ all[j] = more[l]
      BY <1>3, <2>4, <3>1
    <3>3. k = l
      BY <1>7, <3>2
    <3>4. QED
      BY <1>2, <1>7, <2>1, <3>1, <3>3
  <2>5. QED
    BY <2>2, <2>3, <2>4
<1>8. NotedOnce(all)
  BY <1>7 DEF NotedOnce
<1>9. QED
  BY <1>1, <1>2, <1>5, <1>8

-----------------------------------------------------------------------------
(* Each statement of a commit does no harm.                                *)

LEMMA PersonsReplaced ==
  ASSUME NEW T, Harmless(T), NEW people, PersonsOnce(people)
  PROVE  Harmless([T EXCEPT !.persons = people])
BY DEF Harmless

LEMMA LinksReplaced ==
  ASSUME NEW T, Harmless(T), NEW found, NamesOne(found)
  PROVE  Harmless([T EXCEPT !.links = found])
BY DEF Harmless

LEMMA DuesReplaced ==
  ASSUME NEW T, Harmless(T), NEW dues, DuesOnce(dues)
  PROVE  Harmless([T EXCEPT !.memberships = dues])
BY DEF Harmless

LEMMA OthersReplaced ==
  ASSUME NEW T, Harmless(T)
  PROVE  Harmless(Refused(T)) /\ \A reach : Harmless([T EXCEPT !.contacts = reach])
BY DEF Harmless, Refused

LEMMA PersonAdded ==
  ASSUME NEW people, PersonsOnce(people), NEW person, PersonNoted(person)
  PROVE  PersonsOnce(Append(people, person))
<1>1. IsList(people)
  BY DEF PersonsOnce
<1>2. QED
  BY <1>1, AppendedIsAList DEF PersonsOnce

LEMMA PersonWritten ==
  ASSUME NEW people, PersonsOnce(people), NEW p, NEW person,
         p \in DOMAIN people => PersonNoted(person)
  PROVE  PersonsOnce([people EXCEPT ![p] = person])
<1>1. IsList(people)
  BY DEF PersonsOnce
<1>2. QED
  BY <1>1, RewrittenIsAList DEF PersonsOnce

LEMMA DuesAdded ==
  ASSUME NEW dues, DuesOnce(dues), NEW membership, PaidOnce(membership)
  PROVE  DuesOnce(Append(dues, membership))
<1>1. IsList(dues)
  BY DEF DuesOnce
<1>2. QED
  BY <1>1, AppendedIsAList DEF DuesOnce

LEMMA DuesWritten ==
  ASSUME NEW dues, DuesOnce(dues), NEW m, NEW membership,
         m \in DOMAIN dues => PaidOnce(membership)
  PROVE  DuesOnce([dues EXCEPT ![m] = membership])
<1>1. IsList(dues)
  BY DEF DuesOnce
<1>2. QED
  BY <1>1, RewrittenIsAList DEF DuesOnce

LEMMA NothingIsOnce ==
  /\ IsList(<<>>) /\ NotedOnce(<<>>) /\ CoveredOnce(<<>>) /\ GrantedOnce(<<>>)
  /\ DOMAIN <<>> = {}
BY DEF IsList, NotedOnce, CoveredOnce, GrantedOnce

LEMMA CreatePersonIsHarmless ==
  ASSUME NEW T, Harmless(T), NEW norm
  PROVE  Harmless(CreatePerson(T, norm))
<1>1. PICK person : person = [call |-> norm.call, class |-> norm.class,
                              examiner |-> norm.examiner, active |-> TRUE, notes |-> <<>>]
  OBVIOUS
<1>2. PersonNoted(person)
  BY <1>1, NothingIsOnce DEF PersonNoted
<1>3. PersonsOnce(Append(T.persons, person))
  BY <1>2, PersonAdded DEF Harmless
<1>4. Harmless([T EXCEPT !.persons = Append(T.persons, person)])
  BY <1>3, PersonsReplaced
<1>5. QED
  BY <1>1, <1>4, OthersReplaced DEF CreatePerson

LEMMA CreateExternalIDIsHarmless ==
  ASSUME NEW T, Harmless(T), NEW p, NEW ext
  PROVE  Harmless(CreateExternalID(T, p, ext))
<1>1. CASE FindExternalID(T, ext) # {}
  BY <1>1, OthersReplaced DEF CreateExternalID
<1>2. CASE FindExternalID(T, ext) = {}
  <2>1. NamesOne(T.links \cup {[ext |-> ext, person |-> p]})
    BY <1>2 DEF FindExternalID, NamesOne, Harmless
  <2>2. QED
    BY <1>2, <2>1, LinksReplaced DEF CreateExternalID
<1>3. QED
  BY <1>1, <1>2

LEMMA CreateContactsIsHarmless ==
  ASSUME NEW T, Harmless(T), NEW p, NEW norm, NEW base
  PROVE  Harmless(CreateContacts(T, p, norm, base))
<1>1. ASSUME NEW U, Harmless(U), NEW kind, NEW text
      PROVE  Harmless(CreateContactMethod(U, p, kind, text, base))
  BY <1>1, OthersReplaced DEF CreateContactMethod
<1>2. QED
  BY <1>1 DEF CreateContacts

LEMMA CreateMembershipIsHarmless ==
  ASSUME NEW T, Harmless(T), NEW p, NEW base
  PROVE  Harmless(CreateMembership(T, p, base))
<1>1. PICK membership : membership = [person |-> p, base |-> base, lifecycle |-> "active",
                                      coverage |-> <<>>, grants |-> <<>>]
  OBVIOUS
<1>2. PaidOnce(membership)
  BY <1>1, NothingIsOnce DEF PaidOnce, HasCoverage, HasGrants
<1>3. DuesOnce(Append(T.memberships, membership))
  BY <1>2, DuesAdded DEF Harmless
<1>4. QED
  BY <1>1, <1>3, DuesReplaced DEF CreateMembership

LEMMA CreateImportNotesIsHarmless ==
  ASSUME NEW T, Harmless(T), NEW p, NEW note, IsFiniteSet(note)
  PROVE  Harmless(CreateImportNotes(T, p, note))
<1>1. PICK old : old = T.persons[p].notes
  OBVIOUS
<1>2. PICK fresh : fresh = note \ Bodies(old)
  OBVIOUS
<1>3. PICK more :
        /\ more = [n \in DOMAIN SetToSeq(fresh) |-> NewNote(SetToSeq(fresh)[n], "import")]
        /\ IsList(more)
        /\ \A i \in DOMAIN more : IsNote(more[i]) /\ more[i].body \in fresh
        /\ \A i, j \in DOMAIN more : more[i].body = more[j].body => i = j
  <2>1. IsFiniteSet(fresh)
    BY <1>2, FS_Subset
  <2>2. QED
    BY <2>1, SentencesAreNotes
<1>4. PICK all : all = old \o more
  OBVIOUS
<1>5. PICK person : person = [T.persons[p] EXCEPT !.notes = all]
  OBVIOUS
<1>6. p \in DOMAIN T.persons => PersonNoted(person)
  <2>1. SUFFICES ASSUME p \in DOMAIN T.persons PROVE PersonNoted(person)
    OBVIOUS
  <2>2. PersonNoted(T.persons[p])
    BY <2>1 DEF Harmless, PersonsOnce
  <2>3. IsList(all) /\ (\A n \in DOMAIN all : IsNote(all[n])) /\ NotedOnce(all)
    <3>1. /\ IsList(old) /\ (\A n \in DOMAIN old : IsNote(old[n])) /\ NotedOnce(old)
          /\ \A i \in DOMAIN more : IsNote(more[i]) /\ more[i].body \notin Bodies(old)
      BY <1>1, <1>2, <1>3, <2>2 DEF PersonNoted
    <3>2. QED
      BY <1>3, <1>4, <3>1, NotesAreAddedOnce
  <2>4. "notes" \in DOMAIN person /\ person.notes = all
    BY <1>5, <2>2 DEF PersonNoted
  <2>5. QED
    BY <2>3, <2>4 DEF PersonNoted
<1>7. PersonsOnce([T.persons EXCEPT ![p] = person])
  BY <1>6, PersonWritten DEF Harmless
<1>8. Harmless([T EXCEPT !.persons = [T.persons EXCEPT ![p] = person]])
  BY <1>7, PersonsReplaced
<1>9. CreateImportNotes(T, p, note) =
        [T EXCEPT !.persons = [T.persons EXCEPT ![p] = person]]
  BY <1>1, <1>2, <1>3, <1>4, <1>5 DEF CreateImportNotes
<1>10. QED
  BY <1>8, <1>9

LEMMA UpdatePersonIsHarmless ==
  ASSUME NEW T, Harmless(T), NEW p, NEW norm
  PROVE  Harmless(UpdatePerson(T, p, norm))
<1>1. PICK held : held = T.persons[p]
  OBVIOUS
<1>2. PICK call : call = IF norm.call = "" THEN held.call ELSE norm.call
  OBVIOUS
<1>3. PICK class : class = IF norm.class = "" THEN held.class ELSE norm.class
  OBVIOUS
<1>4. PICK person : person = [held EXCEPT !.call = call, !.class = class,
                                          !.examiner = norm.examiner]
  OBVIOUS
<1>5. p \in DOMAIN T.persons => PersonNoted(person)
  <2>1. SUFFICES ASSUME p \in DOMAIN T.persons PROVE PersonNoted(person)
    OBVIOUS
  <2>2. PersonNoted(held)
    BY <1>1, <2>1 DEF Harmless, PersonsOnce
  <2>3. "notes" \in DOMAIN person /\ person.notes = held.notes
    BY <1>4, <2>2 DEF PersonNoted
  <2>4. QED
    BY <2>2, <2>3 DEF PersonNoted
<1>6. PersonsOnce([T.persons EXCEPT ![p] = person])
  BY <1>5, PersonWritten DEF Harmless
<1>7. Harmless([T EXCEPT !.persons = [T.persons EXCEPT ![p] = person]])
  BY <1>6, PersonsReplaced
<1>8. \/ UpdatePerson(T, p, norm) = Refused(T)
      \/ UpdatePerson(T, p, norm) = [T EXCEPT !.persons = [T.persons EXCEPT ![p] = person]]
  BY <1>1, <1>2, <1>3, <1>4 DEF UpdatePerson
<1>9. QED
  BY <1>7, <1>8, OthersReplaced

\* A grant that is added: an officer's, or an import's where none stands.
LEMMA GrantAdded ==
  ASSUME NEW membership, PaidOnce(membership), NEW by,
         by = "officer" \/ \A g \in DOMAIN membership.grants : ~Stands(membership.grants[g]),
         by \in Authors,
         NEW more, more = Append(membership.grants, NewGrant(by)),
         NEW written, written = [membership EXCEPT !.grants = more]
  PROVE  PaidOnce(written)
<1>1. PICK held : held = membership.grants
  OBVIOUS
<1>2. PICK n : n = Len(held) + 1
  OBVIOUS
<1>3. PICK grant : grant = NewGrant(by)
  OBVIOUS
<1>4. IsList(held) /\ GrantedOnce(held) /\ \A g \in DOMAIN held : IsGrant(held[g])
  BY <1>1 DEF PaidOnce, HasGrants
<1>5. /\ IsList(more) /\ DOMAIN more = DOMAIN held \cup {n} /\ more[n] = grant
      /\ \A g \in DOMAIN held : more[g] = held[g]
      /\ Len(held) \in Nat /\ DOMAIN held = 1 .. Len(held)
  BY <1>1, <1>2, <1>3, <1>4, AppendedIsAList
<1>6. grant.by = by /\ IsGrant(grant)
  BY <1>3 DEF NewGrant, IsGrant
<1>7. \A g \in DOMAIN more : IsGrant(more[g])
  BY <1>4, <1>5, <1>6
<1>8. ASSUME NEW i \in DOMAIN more, NEW j \in DOMAIN more, i < j, more[j].by = "import"
      PROVE  ~Stands(more[i])
  <2>1. CASE i \in DOMAIN held /\ j \in DOMAIN held
    BY <1>4, <1>5, <1>8, <2>1 DEF GrantedOnce
  <2>2. CASE i \in DOMAIN held /\ j = n
    BY <1>1, <1>5, <1>6, <1>8, <2>2
  <2>3. CASE i = n
    BY <1>2, <1>5, <1>8, <2>3
  <2>4. QED
    BY <1>5, <2>1, <2>2, <2>3
<1>9. /\ DOMAIN written = DOMAIN membership /\ written.grants = more
      /\ written.coverage = membership.coverage
  BY DEF PaidOnce
<1>10. GrantedOnce(more)
  BY <1>8 DEF GrantedOnce
<1>11. QED
  BY <1>5, <1>7, <1>9, <1>10 DEF PaidOnce, HasGrants, HasCoverage

LEMMA EnsureLifetimeGrantIsHarmless ==
  ASSUME NEW T, Harmless(T), NEW m
  PROVE  Harmless(EnsureLifetimeGrant(T, m))
<1>1. PICK held : held = T.memberships[m]
  OBVIOUS
<1>2. CASE \E g \in DOMAIN held.grants : Stands(held.grants[g])
  BY <1>1, <1>2 DEF EnsureLifetimeGrant
<1>3. CASE ~ \E g \in DOMAIN held.grants : Stands(held.grants[g])
  <2>1. PICK more : more = Append(held.grants, NewGrant("import"))
    OBVIOUS
  <2>2. PICK membership : membership = [held EXCEPT !.grants = more]
    OBVIOUS
  <2>3. m \in DOMAIN T.memberships => PaidOnce(membership)
    <3>1. SUFFICES ASSUME m \in DOMAIN T.memberships PROVE PaidOnce(membership)
      OBVIOUS
    <3>2. PaidOnce(held)
      BY <1>1, <3>1 DEF Harmless, DuesOnce
    <3>3. QED
      BY <1>3, <2>1, <2>2, <3>2, GrantAdded DEF Authors
  <2>4. DuesOnce([T.memberships EXCEPT ![m] = membership])
    BY <2>3, DuesWritten DEF Harmless
  <2>5. Harmless([T EXCEPT !.memberships = [T.memberships EXCEPT ![m] = membership]])
    BY <2>4, DuesReplaced
  <2>6. EnsureLifetimeGrant(T, m) =
          [T EXCEPT !.memberships = [T.memberships EXCEPT ![m] = membership]]
    BY <1>1, <1>3, <2>1, <2>2 DEF EnsureLifetimeGrant
  <2>7. QED
    BY <2>5, <2>6
<1>4. QED
  BY <1>2, <1>3

LEMMA EnsureImportCoverageIsHarmless ==
  ASSUME NEW T, Harmless(T), NEW m, NEW date
  PROVE  Harmless(EnsureImportCoverage(T, m, date))
<1>1. PICK held : held = T.memberships[m]
  OBVIOUS
<1>2. PICK event : event = [date |-> date, kind |-> "import"]
  OBVIOUS
<1>3. CASE FindImportCoverageEvent(T, m, date) # {}
  BY <1>3 DEF EnsureImportCoverage
<1>4. CASE FindImportCoverageEvent(T, m, date) = {}
  <2>1. \A e \in DOMAIN held.coverage : held.coverage[e] # event
    BY <1>1, <1>2, <1>4 DEF FindImportCoverageEvent
  <2>2. PICK all : all = Append(held.coverage, event)
    OBVIOUS
  <2>3. PICK membership : membership = [held EXCEPT !.coverage = all]
    OBVIOUS
  <2>4. m \in DOMAIN T.memberships => PaidOnce(membership)
    <3>1. SUFFICES ASSUME m \in DOMAIN T.memberships PROVE PaidOnce(membership)
      OBVIOUS
    <3>2. PaidOnce(held)
      BY <1>1, <3>1 DEF Harmless, DuesOnce
    <3>3. /\ DOMAIN membership = DOMAIN held /\ membership.coverage = all
          /\ membership.grants = held.grants
      BY <2>3, <3>2 DEF PaidOnce
    <3>4. PICK n : n = Len(held.coverage) + 1
      OBVIOUS
    <3>5. /\ IsList(all) /\ DOMAIN all = DOMAIN held.coverage \cup {n}
          /\ \A e \in DOMAIN held.coverage : all[e] = held.coverage[e]
          /\ all[n] = event
      BY <2>2, <3>2, <3>4, AppendedIsAList DEF PaidOnce, HasCoverage
    <3>6. ASSUME NEW i \in DOMAIN all, NEW j \in DOMAIN all,
                 all[i].kind = "import", all[i] = all[j]
          PROVE  i = j
      <4>1. CASE i \in DOMAIN held.coverage /\ j \in DOMAIN held.coverage
        BY <3>2, <3>5, <3>6, <4>1 DEF PaidOnce, HasCoverage, CoveredOnce
      <4>2. CASE i = n \/ j = n
        BY <2>1, <3>5, <3>6, <4>2
      <4>3. QED
        BY <3>5, <4>1, <4>2
    <3>7. QED
      BY <3>2, <3>3, <3>5, <3>6 DEF PaidOnce, HasCoverage, HasGrants, CoveredOnce
  <2>5. DuesOnce([T.memberships EXCEPT ![m] = membership])
    BY <2>4, DuesWritten DEF Harmless
  <2>6. Harmless([T EXCEPT !.memberships = [T.memberships EXCEPT ![m] = membership]])
    BY <2>5, DuesReplaced
  <2>7. EnsureImportCoverage(T, m, date) =
          [T EXCEPT !.memberships = [T.memberships EXCEPT ![m] = membership]]
    BY <1>1, <1>2, <1>4, <2>2, <2>3 DEF EnsureImportCoverage
  <2>8. QED
    BY <2>6, <2>7
<1>5. QED
  BY <1>3, <1>4

LEMMA ApplyDuesIsHarmless ==
  ASSUME NEW T, Harmless(T), NEW m, NEW norm, NEW ruling
  PROVE  Harmless(ApplyDuesDecisions(T, m, norm, ruling))
<1>1. PICK granted : granted = IF IsLifetimeHonorary(norm, ruling)
                               THEN EnsureLifetimeGrant(T, m) ELSE T
  OBVIOUS
<1>2. Harmless(granted)
  BY <1>1, EnsureLifetimeGrantIsHarmless
<1>3. PICK date : date = CoverageDateFor(norm, ruling)
  OBVIOUS
<1>4. Harmless(EnsureImportCoverage(granted, m, date))
  BY <1>2, EnsureImportCoverageIsHarmless
<1>5. QED
  BY <1>1, <1>2, <1>3, <1>4 DEF ApplyDuesDecisions

\* A row whose sentences can be listed.
Readable(row) == IsFiniteSet(row.norm.note)

LEMMA ApplyCreateIsHarmless ==
  ASSUME NEW T, Harmless(T), NEW row, Readable(row)
  PROVE  Harmless(ApplyCreate(T, row))
<1>1. PICK ruling : ruling = DecisionFor(row.decisions)
  OBVIOUS
<1>2. PICK base : base = BaseTypeFor(row.norm, ruling)
  OBVIOUS
<1>3. PICK made : made = CreatePerson(T, row.norm)
  OBVIOUS
<1>4. PICK p : p = Len(made.persons)
  OBVIOUS
<1>5. PICK linked : linked = IF row.norm.ext = "" THEN made
                             ELSE CreateExternalID(made, p, row.norm.ext)
  OBVIOUS
<1>6. PICK reached : reached = CreateContacts(linked, p, row.norm, base)
  OBVIOUS
<1>7. PICK enrolled : enrolled = CreateMembership(reached, p, base)
  OBVIOUS
<1>8. PICK paid : paid = ApplyDuesDecisions(enrolled, Len(enrolled.memberships),
                                            row.norm, ruling)
  OBVIOUS
<1>9. Harmless(made)
  BY <1>3, CreatePersonIsHarmless
<1>10. Harmless(linked)
  BY <1>5, <1>9, CreateExternalIDIsHarmless
<1>11. Harmless(reached)
  BY <1>6, <1>10, CreateContactsIsHarmless
<1>12. Harmless(enrolled)
  BY <1>7, <1>11, CreateMembershipIsHarmless
<1>13. Harmless(paid)
  BY <1>8, <1>12, ApplyDuesIsHarmless
<1>14. /\ Harmless(Refused(T)) /\ Harmless(CreateImportNotes(reached, p, row.norm.note))
       /\ Harmless(CreateImportNotes(paid, p, row.norm.note))
  BY <1>11, <1>13, OthersReplaced, CreateImportNotesIsHarmless DEF Readable
<1>15. ApplyCreate(T, row) \in {Refused(T), CreateImportNotes(reached, p, row.norm.note),
                                CreateImportNotes(paid, p, row.norm.note)}
  <2>1. ApplyCreate(T, row) =
          CASE ~ linked.ok -> Refused(T)
            [] linked.ok /\ base = "" -> CreateImportNotes(reached, p, row.norm.note)
            [] OTHER -> CreateImportNotes(paid, p, row.norm.note)
    BY <1>1, <1>2, <1>3, <1>4, <1>5, <1>6, <1>7, <1>8 DEF ApplyCreate
  <2>2. QED
    BY <2>1
<1>16. QED
  BY <1>14, <1>15

LEMMA ApplyUpdateIsHarmless ==
  ASSUME NEW T, Harmless(T), NEW row, Readable(row)
  PROVE  Harmless(ApplyUpdate(T, row))
<1>1. PICK p : p = row.match
  OBVIOUS
<1>2. PICK ruling : ruling = DecisionFor(row.decisions)
  OBVIOUS
<1>3. PICK base : base = BaseTypeFor(row.norm, ruling)
  OBVIOUS
<1>4. PICK known : known = UpdatePerson(T, p, row.norm)
  OBVIOUS
<1>5. PICK linked : linked = IF row.norm.ext = "" \/ FindExternalID(T, row.norm.ext) # {}
                             THEN known ELSE CreateExternalID(known, p, row.norm.ext)
  OBVIOUS
<1>6. PICK held : held = MembershipForPerson(linked, p)
  OBVIOUS
<1>7. PICK enrolled : enrolled = IF held = 0 /\ base # ""
                                 THEN CreateMembership(linked, p, base) ELSE linked
  OBVIOUS
<1>8. PICK m : m = MembershipForPerson(enrolled, p)
  OBVIOUS
<1>9. PICK paid : paid = IF m = 0 THEN enrolled
                         ELSE ApplyDuesDecisions(enrolled, m, row.norm, ruling)
  OBVIOUS
<1>10. Harmless(known)
  BY <1>4, UpdatePersonIsHarmless
<1>11. Harmless(linked)
  BY <1>5, <1>10, CreateExternalIDIsHarmless
<1>12. Harmless(enrolled)
  BY <1>7, <1>11, CreateMembershipIsHarmless
<1>13. Harmless(paid)
  BY <1>9, <1>12, ApplyDuesIsHarmless
<1>14. Harmless(Refused(T)) /\ Harmless(CreateImportNotes(paid, p, row.norm.note))
  BY <1>13, OthersReplaced, CreateImportNotesIsHarmless DEF Readable
<1>15. ApplyUpdate(T, row) \in {T, Refused(T), CreateImportNotes(paid, p, row.norm.note)}
  <2>1. ApplyUpdate(T, row) =
          CASE p = 0 -> T
            [] p # 0 /\ ~ linked.ok -> Refused(T)
            [] OTHER -> CreateImportNotes(paid, p, row.norm.note)
    BY <1>1, <1>2, <1>3, <1>4, <1>5, <1>6, <1>7, <1>8, <1>9 DEF ApplyUpdate
  <2>2. QED
    BY <2>1
<1>16. QED
  BY <1>14, <1>15

LEMMA ApplyRowIsHarmless ==
  ASSUME NEW T, Harmless(T), NEW row, Readable(row)
  PROVE  Harmless(ApplyRow(T, row))
<1>1. Harmless(ApplyCreate(T, row)) /\ Harmless(ApplyUpdate(T, row))
  BY ApplyCreateIsHarmless, ApplyUpdateIsHarmless
<1>2. ApplyRow(T, row) \in {T, ApplyCreate(T, row), ApplyUpdate(T, row)}
  BY DEF ApplyRow
<1>3. QED
  BY <1>1, <1>2

\* What no row does, all of them together do not.
LEMMA FoldIsHarmless ==
  ASSUME NEW T, Harmless(T), NEW seq, NEW n \in Nat, DOMAIN seq = 1 .. n,
         \A i \in 1 .. n : Readable(seq[i])
  PROVE  Harmless(FoldLeft(ApplyRow, T, seq))
<1>1. PICK g : g = Folded(T, seq)
  OBVIOUS
<1>2. \A s \in SUBSET (1 .. n) : g[s] = Folding(T, seq, g, s)
  BY <1>1, FoldUnfolds
<1> DEFINE Bad == {s \in SUBSET (1 .. n) : ~ Harmless(g[s])}
<1>3. ASSUME Bad # {} PROVE FALSE
  <2>1. IsFiniteSet(1 .. n)
    BY FS_Interval
  <2>2. PICK s \in Bad : \A x \in s : s \ {x} \notin Bad
    BY <1>3, <2>1, MinimalSubset
  <2>3. s \in SUBSET (1 .. n) /\ ~ Harmless(g[s])
    OBVIOUS
  <2>4. CASE s = {}
    BY <1>2, <2>3, <2>4 DEF Folding
  <2>5. CASE s # {}
    <3>1. PICK last : last = Max(s)
      OBVIOUS
    <3>2. last \in s /\ last \in 1 .. n
      BY <2>3, <2>5, <3>1, LastRowIsARow
    <3>3. Harmless(g[s \ {last}])
      BY <2>2, <2>3, <3>2
    <3>4. Harmless(ApplyRow(g[s \ {last}], seq[last]))
      BY <3>2, <3>3, ApplyRowIsHarmless
    <3>5. g[s] = ApplyRow(g[s \ {last}], seq[last])
      BY <1>2, <2>3, <2>5, <3>1 DEF Folding
    <3>6. QED
      BY <2>3, <3>4, <3>5
  <2>6. QED
    BY <2>4, <2>5
<1>4. 1 .. n \in SUBSET (1 .. n)
  OBVIOUS
<1>5. Harmless(g[1 .. n])
  BY <1>3, <1>4
<1>6. QED
  BY <1>1, <1>5, FoldIsFolded

-----------------------------------------------------------------------------
(* The inductive invariant: the tables are harmless, and what the files    *)
(* and the staged rows hold can be listed.                                 *)

FilesReadable ==
  \A r \in DOMAIN runs :
    /\ "file" \in DOMAIN runs[r]
    /\ \A i \in DOMAIN runs[r].file : IsFiniteSet(runs[r].file[i].note)

RowsReadable == \A r \in DOMAIN rows : \A i \in DOMAIN rows[r] : Readable(rows[r][i])

TablesHarmless == PersonsOnce(persons) /\ NamesOne(links) /\ DuesOnce(memberships)

LEMMA FileWritten ==
  ASSUME FilesReadable, NEW r, NEW row, runs' = [runs EXCEPT ![r] = row],
         r \in DOMAIN runs => "file" \in DOMAIN row /\ row.file = runs[r].file
  PROVE  FilesReadable'
<1>1. DOMAIN runs' = DOMAIN runs
  OBVIOUS
<1>2. \A q \in DOMAIN runs : runs'[q] = IF q = r THEN row ELSE runs[q]
  OBVIOUS
<1>3. ASSUME NEW q \in DOMAIN runs
      PROVE  /\ "file" \in DOMAIN runs'[q]
             /\ \A i \in DOMAIN runs'[q].file : IsFiniteSet(runs'[q].file[i].note)
  BY <1>2, <1>3 DEF FilesReadable
<1>4. QED
  BY <1>1, <1>3 DEF FilesReadable

LEMMA FilesStep ==
  ASSUME RunsInv, FilesReadable, [ImportNext]_importVars
  PROVE  FilesReadable'
<1>1. ASSUME UNCHANGED runs PROVE FilesReadable'
  BY <1>1 DEF FilesReadable
<1>2. ASSUME NEW r \in RunIds, \/ PreviewBegins(r) \/ DiscardBegins(r) \/ CommitBegins(r)
                               \/ \E i \in DOMAIN rows[r] :
                                    ImportRowDecide(r, i) \/ DecideOverApi(r, i)
      PROVE  FilesReadable'
  BY <1>1, <1>2 DEF PreviewBegins, DiscardBegins, CommitBegins, Begin, ImportRowDecide,
                    DecideOverApi, DecisionBegins
<1>3. ASSUME NEW call, \/ UploadStagesRow(call) \/ RecordDecision(call)
                       \/ RuleOnRow(call) \/ CallEnds(call)
      PROVE  FilesReadable'
  BY <1>1, <1>3 DEF UploadStagesRow, RecordDecision, RuleOnRow, CallEnds
<1>4. ASSUME NEW call, UploadValidates(call) \/ Preview(call) \/ Discard(call)
      PROVE  FilesReadable'
  <2>1. PICK status : UpdateImportRunStatus(call, status)
    BY <1>4 DEF UploadValidates, Preview, Discard
  <2>2. PICK r : r = call.run
    OBVIOUS
  <2>3. PICK row : row = [runs[r] EXCEPT !.status = status, !.version = runs[r].version + 1]
    OBVIOUS
  <2>4. runs' = [runs EXCEPT ![r] = row]
    <3>1. CASE r \in DOMAIN runs
      <4>1. IsRun(runs[r])
        BY <3>1 DEF RunsInv, RunIds
      <4>2. QED
        BY <2>1, <2>2, <2>3, <3>1, <4>1 DEF UpdateImportRunStatus, IsRun
    <3>2. CASE r \notin DOMAIN runs
      BY <2>1, <2>2, <3>2 DEF UpdateImportRunStatus
    <3>3. QED
      BY <3>1, <3>2
  <2>5. r \in DOMAIN runs => "file" \in DOMAIN row /\ row.file = runs[r].file
    BY <2>3 DEF FilesReadable
  <2>6. QED
    BY <2>4, <2>5, FileWritten
<1>5. ASSUME NEW call, Commit(call)
      PROVE  FilesReadable'
  <2>1. PICK summary : CommitImportRun(call, summary)
    BY <1>5 DEF Commit
  <2>2. PICK r : r = call.run
    OBVIOUS
  <2>3. PICK row : row = [runs[r] EXCEPT !.status = "committed", !.summary = summary,
                                         !.version = runs[r].version + 1]
    OBVIOUS
  <2>4. runs' = [runs EXCEPT ![r] = row]
    <3>1. CASE r \in DOMAIN runs
      <4>1. IsRun(runs[r])
        BY <3>1 DEF RunsInv, RunIds
      <4>2. QED
        BY <2>1, <2>2, <2>3, <3>1, <4>1 DEF CommitImportRun, IsRun
    <3>2. CASE r \notin DOMAIN runs
      BY <2>1, <2>2, <3>2 DEF CommitImportRun
    <3>3. QED
      BY <3>1, <3>2
  <2>5. r \in DOMAIN runs => "file" \in DOMAIN row /\ row.file = runs[r].file
    BY <2>3 DEF FilesReadable
  <2>6. QED
    BY <2>4, <2>5, FileWritten
<1>6. ASSUME OfficerEdits \/ \E c : Enrol(c)
      PROVE  FilesReadable'
  BY <1>1, <1>6, OfficersWriteTables DEF Enrol
<1>7. ASSUME NEW key \in Keys, UploadStarts(key)
      PROVE  FilesReadable'
  <2>1. PICK row : row = CreateImportRun(FileOf[key], key)
    OBVIOUS
  <2>2. runs' = Append(runs, row)
    BY <1>7, <2>1 DEF UploadStarts
  <2>3. "file" \in DOMAIN row /\ row.file = FileOf[key]
    BY <2>1 DEF CreateImportRun
  <2>4. \A i \in DOMAIN row.file : IsFiniteSet(row.file[i].note)
    BY <2>3, FilesAreLists
  <2>5. PICK known : runs \in Seq(known)
    BY DEF RunsInv, RunsTyped
  <2>6. IsList(runs)
    BY <2>5 DEF IsList, Range
  <2>7. /\ DOMAIN runs' = DOMAIN runs \cup {Len(runs) + 1}
        /\ \A r \in DOMAIN runs : runs'[r] = runs[r]
        /\ runs'[Len(runs) + 1] = row
    BY <2>2, <2>6, AppendedIsAList
  <2>8. ASSUME NEW r \in DOMAIN runs'
        PROVE  /\ "file" \in DOMAIN runs'[r]
               /\ \A i \in DOMAIN runs'[r].file : IsFiniteSet(runs'[r].file[i].note)
    <3>1. CASE r \in DOMAIN runs
      BY <2>7, <3>1 DEF FilesReadable
    <3>2. CASE r = Len(runs) + 1
      BY <2>3, <2>4, <2>7, <3>2
    <3>3. QED
      BY <2>7, <3>1, <3>2
  <2>9. QED
    BY <2>8 DEF FilesReadable
<1>8. CASE UNCHANGED importVars
  BY <1>1, <1>8 DEF importVars
<1>9. QED
  BY <1>2, <1>3, <1>4, <1>5, <1>6, <1>7, <1>8 DEF ImportNext

\* A row that is written keeps its sentences.
LEMMA RowKeepsSentences ==
  ASSUME RowsReadable, NEW r, NEW i, NEW row, r \in DOMAIN rows, i \in DOMAIN rows[r],
         rows' = [rows EXCEPT ![r][i] = row], row.norm = rows[r][i].norm
  PROVE  RowsReadable'
<1>1. PICK some : some = [rows[r] EXCEPT ![i] = row]
  OBVIOUS
<1>2. rows' = [rows EXCEPT ![r] = some]
  BY <1>1
<1>3. /\ DOMAIN rows' = DOMAIN rows /\ rows'[r] = some
      /\ \A q \in DOMAIN rows \ {r} : rows'[q] = rows[q]
  BY <1>2
<1>4. /\ DOMAIN some = DOMAIN rows[r] /\ some[i] = row
      /\ \A j \in DOMAIN rows[r] \ {i} : some[j] = rows[r][j]
  BY <1>1
<1>5. Readable(row)
  BY DEF RowsReadable, Readable
<1>6. \A q \in DOMAIN rows' : \A j \in DOMAIN rows'[q] :
        \/ rows'[q][j] = row
        \/ q \in DOMAIN rows /\ j \in DOMAIN rows[q] /\ rows'[q][j] = rows[q][j]
  BY <1>3, <1>4
<1>7. ASSUME NEW q \in DOMAIN rows', NEW j \in DOMAIN rows'[q]
      PROVE  Readable(rows'[q][j])
  BY <1>5, <1>6 DEF RowsReadable
<1>8. QED
  BY <1>7 DEF RowsReadable, Readable

LEMMA RowsStep ==
  ASSUME RunsInv, RulingsInv, FilesReadable, RowsReadable, [ImportNext]_importVars
  PROVE  RowsReadable'
<1>1. ASSUME UNCHANGED rows PROVE RowsReadable'
  BY <1>1 DEF RowsReadable, Readable
<1>2. PICK known : rows \in Seq(Seq(known))
  BY DEF RulingsInv, RowsTyped
<1>3. IsList(rows) /\ \A r \in DOMAIN rows : IsList(rows[r])
  BY <1>2 DEF IsList, Range
<1>4. ASSUME NEW r \in RunIds, \/ PreviewBegins(r) \/ DiscardBegins(r) \/ CommitBegins(r)
                               \/ \E i \in DOMAIN rows[r] :
                                    ImportRowDecide(r, i) \/ DecideOverApi(r, i)
      PROVE  RowsReadable'
  BY <1>1, <1>4 DEF PreviewBegins, DiscardBegins, CommitBegins, Begin, ImportRowDecide,
                    DecideOverApi, DecisionBegins
<1>5. ASSUME NEW call, \/ UploadValidates(call) \/ Preview(call) \/ Discard(call)
                       \/ Commit(call) \/ CallEnds(call)
                       \/ RuleOnRow(call) /\ call.action \notin Rulings
      PROVE  RowsReadable'
  BY <1>1, <1>5 DEF UploadValidates, Preview, Discard, Commit, CallEnds, RuleOnRow
<1>6. ASSUME OfficerEdits \/ \E c : Enrol(c)
      PROVE  RowsReadable'
  BY <1>1, <1>6, OfficersWriteTables DEF Enrol
<1>7. ASSUME NEW key \in Keys, UploadStarts(key)
      PROVE  RowsReadable'
  <2>1. rows' = Append(rows, <<>>)
    BY <1>7 DEF UploadStarts
  <2>2. /\ DOMAIN rows' = DOMAIN rows \cup {Len(rows) + 1}
        /\ \A r \in DOMAIN rows : rows'[r] = rows[r]
        /\ rows'[Len(rows) + 1] = <<>>
    BY <1>3, <2>1, AppendedIsAList
  <2>3. DOMAIN rows'[Len(rows) + 1] = {}
    BY <2>2
  <2>4. ASSUME NEW r \in DOMAIN rows', NEW i \in DOMAIN rows'[r]
        PROVE  r \in DOMAIN rows /\ i \in DOMAIN rows[r] /\ rows'[r][i] = rows[r][i]
    BY <2>2, <2>3, <2>4
  <2>5. QED
    BY <2>4 DEF RowsReadable, Readable
<1>8. ASSUME NEW call \in calls, UploadStagesRow(call)
      PROVE  RowsReadable'
  <2>1. PICK r, old : r = call.run /\ old = rows[r]
    OBVIOUS
  <2>2. PICK i, n : i = Len(old) + 1 /\ n = Len(old) + 1
    OBVIOUS
  <2>3. PICK raw : raw = runs[r].file[i]
    OBVIOUS
  <2>4. PICK norm, row : norm = Normalize(raw) /\ row = CreateStagedRow(norm, MatchNow(norm))
    OBVIOUS
  <2>5. /\ call.op = "upload" /\ i \in DOMAIN runs[r].file
        /\ rows' = [rows EXCEPT ![r] = Append(old, row)]
    BY <1>8, <2>1, <2>2, <2>3, <2>4 DEF UploadStagesRow
  <2>6. r \in DOMAIN runs /\ r \in DOMAIN rows
    BY <2>1, <2>5 DEF RunsInv, CallKnowsRun, Writing, RunIds, RulingsInv
  <2>7. Readable(row)
    <3>1. IsFiniteSet(raw.note)
      BY <2>3, <2>5, <2>6 DEF FilesReadable
    <3>2. norm.note = raw.note
      BY <2>4 DEF Normalize
    <3>3. row.norm = norm
      BY <2>4 DEF CreateStagedRow
    <3>4. QED
      BY <3>1, <3>2, <3>3 DEF Readable
  <2>8. IsList(old)
    BY <1>3, <2>1, <2>6
  <2>9. PICK new : new = Append(old, row)
    OBVIOUS
  <2>10. /\ DOMAIN new = DOMAIN old \cup {n} /\ new[n] = row
         /\ \A j \in DOMAIN old : new[j] = old[j]
    BY <2>2, <2>8, <2>9, AppendedIsAList
  <2>11. /\ DOMAIN rows' = DOMAIN rows /\ rows'[r] = new
         /\ \A q \in DOMAIN rows \ {r} : rows'[q] = rows[q]
    BY <2>5, <2>6, <2>9
  <2>12. ASSUME NEW q \in DOMAIN rows', NEW j \in DOMAIN rows'[q]
         PROVE  \/ rows'[q][j] = row
                \/ q \in DOMAIN rows /\ j \in DOMAIN rows[q] /\ rows'[q][j] = rows[q][j]
    <3>1. CASE q = r
      BY <2>1, <2>10, <2>11, <2>12, <3>1
    <3>2. CASE q # r
      BY <2>11, <2>12, <3>2
    <3>3. QED
      BY <3>1, <3>2
  <2>13. ASSUME NEW q \in DOMAIN rows', NEW j \in DOMAIN rows'[q]
         PROVE  Readable(rows'[q][j])
    BY <2>7, <2>12 DEF RowsReadable
  <2>14. QED
    BY <2>13 DEF RowsReadable, Readable
<1>9. ASSUME NEW call \in calls, \/ RecordDecision(call)
                                 \/ RuleOnRow(call) /\ call.action \in Rulings
      PROVE  RowsReadable'
  <2>1. PICK r, i : r = call.run /\ i = call.row
    OBVIOUS
  <2>2. CallKnowsRow(call)
    BY <1>9 DEF RecordDecision, RuleOnRow, RulingsInv, RulingsHold
  <2>3. r \in DOMAIN rows /\ i \in DOMAIN rows[r]
    BY <2>1, <2>2 DEF CallKnowsRow
  <2>4. PICK old : old = rows[r][i]
    OBVIOUS
  <2>5. IsRow(old)
    BY <2>3, <2>4 DEF RulingsInv, RulingsHold
  <2>6. PICK row : \/ row = CreateReconciliationDecision(old, call)
                        /\ rows' = [rows EXCEPT ![r][i] = row]
                   \/ row = UpdateStagedRowAction(old, ActionOf(call.action))
                        /\ rows' = [rows EXCEPT ![r][i] = row]
    BY <1>9, <2>1, <2>3, <2>4 DEF RecordDecision, RuleOnRow
  <2>7. row.norm = old.norm
    <3>1. PICK said : said = [action |-> call.action, payload |-> call.payload,
                              ruling |-> call.ruling]
      OBVIOUS
    <3>2. PICK all : all = Append(old.decisions, said)
      OBVIOUS
    <3>3. CASE row = CreateReconciliationDecision(old, call)
      <4>1. row = [old EXCEPT !.decisions = all]
        BY <3>1, <3>2, <3>3 DEF CreateReconciliationDecision
      <4>2. QED
        BY <2>5, <4>1 DEF IsRow
    <3>4. CASE row = UpdateStagedRowAction(old, ActionOf(call.action))
      <4>1. PICK action : row = [old EXCEPT !.action = action, !.manual = FALSE]
        BY <3>4 DEF UpdateStagedRowAction
      <4>2. QED
        BY <2>5, <4>1 DEF IsRow
    <3>5. QED
      BY <2>6, <3>3, <3>4
  <2>8. QED
    BY <2>3, <2>4, <2>6, <2>7, RowKeepsSentences
<1>10. CASE UNCHANGED importVars
  BY <1>1, <1>10 DEF importVars
<1>11. QED
  BY <1>4, <1>5, <1>6, <1>7, <1>8, <1>9, <1>10 DEF ImportNext

\* A commit: what its rows do to the tables, all of them together.
LEMMA CommitIsHarmless ==
  ASSUME RunsInv, RulingsInv, RowsReadable, TablesHarmless, NEW call \in calls,
         Commit(call)
  PROVE  TablesHarmless'
<1>1. PICK r : r = call.run
  OBVIOUS
<1>2. r \in DOMAIN rows
  <2>1. call.op \in Writing
    BY DEF Commit, Writing
  <2>2. QED
    BY <1>1, <2>1 DEF RunsInv, CallKnowsRun, RulingsInv
<1>3. PICK known : rows \in Seq(Seq(known))
  BY DEF RulingsInv, RowsTyped
<1>4. PICK mine \in Seq(known) : mine = rows[r]
  BY <1>2, <1>3
<1>5. PICK n \in Nat : DOMAIN mine = 1 .. n
  BY LenProperties
<1>6. \A i \in 1 .. n : Readable(mine[i])
  BY <1>2, <1>4, <1>5 DEF RowsReadable
<1>7. PICK held : held = [persons |-> persons, contacts |-> contacts, links |-> links,
                          memberships |-> memberships, ok |-> TRUE]
  OBVIOUS
<1>8. Harmless(held)
  BY <1>7 DEF TablesHarmless, Harmless
<1>9. PICK T : T = FoldLeft(ApplyRow, held, mine)
  OBVIOUS
<1>10. Harmless(T)
  BY <1>5, <1>6, <1>8, <1>9, FoldIsHarmless
<1>11. T = ApplyRows(r)
  BY <1>4, <1>7, <1>9 DEF ApplyRows
<1>12. persons' = T.persons /\ links' = T.links /\ memberships' = T.memberships
  BY <1>1, <1>11 DEF Commit
<1>13. QED
  BY <1>10, <1>12 DEF TablesHarmless, Harmless

\* An officer's edits of notes and grants do not double what an import wrote: what
\* they add is theirs, and an edit only takes a grant or an old sentence back.
LEMMA NotesByOfficers ==
  ASSUME TablesHarmless, NEW p, p \in DOMAIN persons, NEW body,
         \/ CreateNote(p, body)
         \/ \E n \in DOMAIN persons[p].notes : UpdateNote(p, n, body)
  PROVE  TablesHarmless'
<1>1. PICK held, old : held = persons[p] /\ old = held.notes
  OBVIOUS
<1>2. /\ PersonNoted(held) /\ IsList(old) /\ NotedOnce(old)
      /\ \A n \in DOMAIN old : IsNote(old[n])
  BY <1>1 DEF TablesHarmless, PersonsOnce, PersonNoted
<1>3. ASSUME NEW all, IsList(all), NotedOnce(all), \A n \in DOMAIN all : IsNote(all[n]),
             NEW person, person = [held EXCEPT !.notes = all],
             persons' = [persons EXCEPT ![p] = person], UNCHANGED <<links, memberships>>
      PROVE  TablesHarmless'
  <2>1. "notes" \in DOMAIN person /\ person.notes = all
    BY <1>2, <1>3 DEF PersonNoted
  <2>2. PersonNoted(person)
    BY <1>3, <2>1 DEF PersonNoted
  <2>3. PersonsOnce([persons EXCEPT ![p] = person])
    BY <2>2, PersonWritten DEF TablesHarmless
  <2>4. QED
    BY <1>3, <2>3 DEF TablesHarmless
<1>4. CASE CreateNote(p, body)
  <2>1. PICK note : note = NewNote(body, "officer")
    OBVIOUS
  <2>2. PICK all, k : all = Append(old, note) /\ k = Len(old) + 1
    OBVIOUS
  <2>3. PICK person : person = [held EXCEPT !.notes = all]
    OBVIOUS
  <2>4. /\ persons' = [persons EXCEPT ![p] = person]
        /\ UNCHANGED <<links, memberships>>
    BY <1>1, <1>4, <2>1, <2>2, <2>3 DEF CreateNote, OfficerWrites
  <2>5. /\ IsList(all) /\ DOMAIN all = DOMAIN old \cup {k} /\ all[k] = note
        /\ \A n \in DOMAIN old : all[n] = old[n]
        /\ Len(old) \in Nat /\ DOMAIN old = 1 .. Len(old)
    BY <1>2, <2>2, AppendedIsAList
  <2>6. IsNote(note) /\ note.by = "officer"
    BY <2>1 DEF NewNote, IsNote
  <2>7. \A n \in DOMAIN all : IsNote(all[n])
    BY <1>2, <2>5, <2>6
  <2>8. ASSUME NEW i \in DOMAIN all, NEW j \in DOMAIN all, i < j, all[j].by = "import"
        PROVE  i \in DOMAIN old /\ j \in DOMAIN old
    <3>1. j \in DOMAIN old
      BY <2>5, <2>6, <2>8
    <3>2. i # k
      BY <2>2, <2>5, <2>8, <3>1
    <3>3. QED
      BY <2>5, <3>1, <3>2
  <2>9. NotedOnce(all)
    BY <1>2, <2>5, <2>8 DEF NotedOnce
  <2>10. QED
    BY <1>3, <2>3, <2>4, <2>5, <2>7, <2>9
<1>5. ASSUME NEW n \in DOMAIN old, UpdateNote(p, n, body)
      PROVE  TablesHarmless'
  <2>1. PICK note : note = [old[n] EXCEPT !.body = body, !.edited = TRUE]
    OBVIOUS
  <2>2. PICK all : all = [old EXCEPT ![n] = note]
    OBVIOUS
  <2>3. PICK person : person = [held EXCEPT !.notes = all]
    OBVIOUS
  <2>4. /\ persons' = [persons EXCEPT ![p] = person]
        /\ UNCHANGED <<links, memberships>>
    <3>1. UNCHANGED <<links, memberships>>
      BY <1>5 DEF UpdateNote, OfficerWrites
    <3>2. persons' = [persons EXCEPT ![p].notes[n].body = body,
                                     ![p].notes[n].edited = TRUE]
      BY <1>5 DEF UpdateNote
    <3>3. QED
      BY <1>1, <1>2, <2>1, <2>2, <2>3, <3>1, <3>2 DEF PersonNoted
  <2>5. /\ IsList(all) /\ DOMAIN all = DOMAIN old
        /\ \A i \in DOMAIN old : all[i] = IF i = n THEN note ELSE old[i]
    BY <1>2, <2>2, RewrittenIsAList
  <2>6. IsNote(note) /\ note.edited = TRUE
    BY <1>2, <2>1 DEF IsNote
  <2>7. \A i \in DOMAIN all : IsNote(all[i])
    BY <1>2, <2>5, <2>6
  <2>8. NotedOnce(all)
    BY <1>2, <2>5, <2>6 DEF NotedOnce
  <2>9. QED
    BY <1>3, <2>3, <2>4, <2>5, <2>7, <2>8
<1>6. QED
  BY <1>1, <1>4, <1>5

\* A grant that is expired or revoked does not stand any more.
LEMMA GrantTakenBack ==
  ASSUME NEW membership, PaidOnce(membership), NEW g \in DOMAIN membership.grants,
         NEW grant, IsGrant(grant), grant.by = membership.grants[g].by, ~Stands(grant),
         NEW fewer, fewer = [membership.grants EXCEPT ![g] = grant],
         NEW written, written = [membership EXCEPT !.grants = fewer]
  PROVE  PaidOnce(written)
<1>1. PICK held : held = membership.grants
  OBVIOUS
<1>2. IsList(held) /\ GrantedOnce(held) /\ \A i \in DOMAIN held : IsGrant(held[i])
  BY <1>1 DEF PaidOnce, HasGrants
<1>3. /\ IsList(fewer) /\ DOMAIN fewer = DOMAIN held
      /\ \A i \in DOMAIN held : fewer[i] = IF i = g THEN grant ELSE held[i]
  BY <1>1, <1>2, RewrittenIsAList
<1>4. \A i \in DOMAIN fewer : /\ IsGrant(fewer[i]) /\ fewer[i].by = held[i].by
                              /\ Stands(fewer[i]) => Stands(held[i])
  BY <1>1, <1>2, <1>3
<1>5. GrantedOnce(fewer)
  BY <1>2, <1>3, <1>4 DEF GrantedOnce
<1>6. /\ DOMAIN written = DOMAIN membership /\ written.grants = fewer
      /\ written.coverage = membership.coverage
  BY DEF PaidOnce
<1>7. QED
  BY <1>3, <1>4, <1>5, <1>6 DEF PaidOnce, HasGrants, HasCoverage

LEMMA GrantsByOfficers ==
  ASSUME TablesHarmless, NEW m, m \in DOMAIN memberships,
         \/ EndMembership(m) \/ CreateHonoraryGrant(m)
         \/ \E g \in DOMAIN memberships[m].grants :
              ExpireHonoraryGrant(m, g) \/ RevokeHonoraryGrant(m, g)
  PROVE  TablesHarmless'
<1>1. PICK held : held = memberships[m]
  OBVIOUS
<1>2. PaidOnce(held)
  BY <1>1 DEF TablesHarmless, DuesOnce
<1>3. ASSUME NEW written, PaidOnce(written), UNCHANGED <<links, persons>>,
             memberships' = [memberships EXCEPT ![m] = written]
      PROVE  TablesHarmless'
  <2>1. DuesOnce([memberships EXCEPT ![m] = written])
    BY <1>3, DuesWritten DEF TablesHarmless
  <2>2. QED
    BY <1>3, <2>1 DEF TablesHarmless
<1>4. CASE EndMembership(m)
  <2>1. PICK written : written = [held EXCEPT !.lifecycle = "resigned"]
    OBVIOUS
  <2>2. /\ memberships' = [memberships EXCEPT ![m] = written]
        /\ UNCHANGED <<links, persons>>
    BY <1>1, <1>4, <2>1 DEF EndMembership, OfficerWrites
  <2>3. /\ DOMAIN written = DOMAIN held /\ written.coverage = held.coverage
        /\ written.grants = held.grants
    BY <1>2, <2>1 DEF PaidOnce
  <2>4. PaidOnce(written)
    BY <1>2, <2>3 DEF PaidOnce, HasCoverage, HasGrants
  <2>5. QED
    BY <1>3, <2>2, <2>4
<1>5. CASE CreateHonoraryGrant(m)
  <2>1. PICK more : more = Append(held.grants, NewGrant("officer"))
    OBVIOUS
  <2>2. PICK written : written = [held EXCEPT !.grants = more]
    OBVIOUS
  <2>3. /\ memberships' = [memberships EXCEPT ![m] = written]
        /\ UNCHANGED <<links, persons>>
    BY <1>1, <1>5, <2>1, <2>2 DEF CreateHonoraryGrant, OfficerWrites
  <2>4. PaidOnce(written)
    BY <1>2, <2>1, <2>2, GrantAdded DEF Authors
  <2>5. QED
    BY <1>3, <2>3, <2>4
<1>6. ASSUME NEW g \in DOMAIN held.grants,
             ExpireHonoraryGrant(m, g) \/ RevokeHonoraryGrant(m, g)
      PROVE  TablesHarmless'
  <2>1. PICK old : old = held.grants[g]
    OBVIOUS
  <2>2. IsGrant(old)
    BY <1>2, <2>1 DEF PaidOnce, HasGrants
  <2>3. PICK grant : \/ /\ grant = [old EXCEPT !.lifetime = FALSE]
                        /\ ExpireHonoraryGrant(m, g)
                     \/ /\ grant = [old EXCEPT !.revoked = TRUE]
                        /\ RevokeHonoraryGrant(m, g)
    BY <1>6
  <2>4. IsGrant(grant) /\ grant.by = old.by /\ ~Stands(grant)
    BY <2>2, <2>3 DEF IsGrant, Stands
  <2>5. PICK fewer : fewer = [held.grants EXCEPT ![g] = grant]
    OBVIOUS
  <2>6. PICK written : written = [held EXCEPT !.grants = fewer]
    OBVIOUS
  <2>7. UNCHANGED <<links, persons>>
    BY <1>6 DEF ExpireHonoraryGrant, RevokeHonoraryGrant, OfficerWrites
  <2>8. memberships' = [memberships EXCEPT ![m] = written]
    BY <1>1, <1>2, <2>1, <2>3, <2>5, <2>6
       DEF ExpireHonoraryGrant, RevokeHonoraryGrant, PaidOnce, HasGrants
  <2>9. PaidOnce(written)
    BY <1>2, <2>1, <2>4, <2>5, <2>6, GrantTakenBack
  <2>10. QED
    BY <1>3, <2>7, <2>8, <2>9
<1>7. QED
  BY <1>1, <1>4, <1>5, <1>6

LEMMA OfficersDoNoHarm ==
  ASSUME TablesHarmless, OfficerEdits
  PROVE  TablesHarmless'
<1>1. ASSUME NEW p \in DOMAIN persons, Deactivate(p)
      PROVE  TablesHarmless'
  <2>1. PICK person : person = [persons[p] EXCEPT !.active = FALSE]
    OBVIOUS
  <2>2. persons' = [persons EXCEPT ![p] = person] /\ UNCHANGED <<links, memberships>>
    BY <1>1, <2>1 DEF Deactivate, OfficerWrites
  <2>3. PersonNoted(persons[p])
    BY DEF TablesHarmless, PersonsOnce
  <2>4. "notes" \in DOMAIN person /\ person.notes = persons[p].notes
    BY <2>1, <2>3 DEF PersonNoted
  <2>5. PersonNoted(person)
    BY <2>3, <2>4 DEF PersonNoted
  <2>6. QED
    BY <2>2, <2>5, PersonWritten DEF TablesHarmless
<1>2. ASSUME NEW p, Apply(p, "full")
      PROVE  TablesHarmless'
  <2>1. PICK membership : membership = [person |-> p, base |-> "full",
                            lifecycle |-> "pending", coverage |-> <<>>, grants |-> <<>>]
    OBVIOUS
  <2>2. memberships' = Append(memberships, membership) /\ UNCHANGED <<links, persons>>
    BY <1>2, <2>1 DEF Apply, OfficerWrites
  <2>3. PaidOnce(membership)
    BY <2>1, NothingIsOnce DEF PaidOnce, HasCoverage, HasGrants
  <2>4. QED
    BY <2>2, <2>3, DuesAdded DEF TablesHarmless
<1>3. QED
  BY <1>1, <1>2, NotesByOfficers, GrantsByOfficers DEF OfficerEdits

LEMMA TablesStep ==
  ASSUME RunsInv, RulingsInv, RowsReadable, TablesHarmless, [ImportNext]_importVars
  PROVE  TablesHarmless'
<1>1. ASSUME UNCHANGED tables PROVE TablesHarmless'
  BY <1>1 DEF tables, TablesHarmless
<1>2. ASSUME NEW r, \/ PreviewBegins(r) \/ DiscardBegins(r) \/ CommitBegins(r)
                    \/ \E i \in DOMAIN rows[r] :
                         ImportRowDecide(r, i) \/ DecideOverApi(r, i)
      PROVE  TablesHarmless'
  BY <1>1, <1>2 DEF PreviewBegins, DiscardBegins, CommitBegins, Begin, ImportRowDecide,
                    DecideOverApi, DecisionBegins
<1>3. ASSUME NEW call, \/ UploadStagesRow(call) \/ UploadValidates(call)
                       \/ RecordDecision(call) \/ RuleOnRow(call) \/ Preview(call)
                       \/ Discard(call) \/ CallEnds(call)
      PROVE  TablesHarmless'
  BY <1>1, <1>3 DEF UploadStagesRow, UploadValidates, RecordDecision, RuleOnRow, Preview,
                    Discard, CallEnds
<1>4. ASSUME NEW key, UploadStarts(key)
      PROVE  TablesHarmless'
  BY <1>1, <1>4 DEF UploadStarts
<1>5. ASSUME NEW c, Enrol(c)
      PROVE  TablesHarmless'
  <2>1. PICK norm : norm = [call |-> c, class |-> "", examiner |-> FALSE]
    OBVIOUS
  <2>2. PICK held : held = [persons |-> persons, ok |-> TRUE]
    OBVIOUS
  <2>3. PICK T : T = CreatePerson(held, norm)
    OBVIOUS
  <2>4. /\ T.ok /\ persons' = T.persons /\ UNCHANGED <<links, memberships>>
    BY <1>5, <2>1, <2>2, <2>3 DEF Enrol
  <2>5. PICK person : person = [call |-> norm.call, class |-> norm.class,
                                examiner |-> norm.examiner, active |-> TRUE, notes |-> <<>>]
    OBVIOUS
  <2>6. T \in {Refused(held), [held EXCEPT !.persons = Append(held.persons, person)]}
    BY <2>3, <2>5 DEF CreatePerson
  <2>7. T.persons \in {persons, Append(persons, person)}
    BY <2>2, <2>6 DEF Refused
  <2>8. PersonNoted(person)
    BY <2>5, NothingIsOnce DEF PersonNoted
  <2>9. PersonsOnce(Append(persons, person))
    BY <2>8, PersonAdded DEF TablesHarmless
  <2>10. QED
    BY <2>4, <2>7, <2>9 DEF TablesHarmless
<1>6. CASE OfficerEdits
  BY <1>6, OfficersDoNoHarm
<1>7. CASE UNCHANGED importVars
  BY <1>1, <1>7 DEF importVars, tables
<1>8. QED
  BY <1>2, <1>3, <1>4, <1>5, <1>6, <1>7, CommitIsHarmless DEF ImportNext

LEMMA TablesAtFirst ==
  ASSUME ImportInit
  PROVE  TablesHarmless
<1>1. \A S, s : s \in Seq(S) => IsList(s)
  BY DEF IsList, Range
<1>2. PersonsOnce(persons)
  <2>1. persons \in Seq(PersonRow)
    BY NothingTwiceAtFirst DEF ImportInit
  <2>2. ASSUME NEW p \in DOMAIN persons PROVE PersonNoted(persons[p])
    <3>1. PICK person \in PersonRow : person = persons[p]
      BY <2>1, <2>2
    <3>2. person.notes \in Seq(Note) /\ "notes" \in DOMAIN person
      BY DEF PersonRow
    <3>3. IsList(person.notes) /\ \A n \in DOMAIN person.notes : IsNote(person.notes[n])
      <4>1. \A n \in DOMAIN person.notes : person.notes[n] \in Note
        BY <3>2
      <4>2. QED
        BY <1>1, <3>2, <4>1 DEF Note, IsNote
    <3>4. NotedOnce(persons[p].notes)
      BY <2>2, NothingTwiceAtFirst DEF ImportInit
    <3>5. QED
      BY <3>1, <3>2, <3>3, <3>4 DEF PersonNoted
  <2>3. QED
    BY <1>1, <2>1, <2>2 DEF PersonsOnce
<1>3. DuesOnce(memberships)
  <2>1. memberships \in Seq(MembershipRow)
    BY NothingTwiceAtFirst DEF ImportInit
  <2>2. ASSUME NEW m \in DOMAIN memberships PROVE PaidOnce(memberships[m])
    <3>1. PICK membership \in MembershipRow : membership = memberships[m]
      BY <2>1, <2>2
    <3>2. /\ membership.coverage \in Seq(CoverageEvent)
          /\ membership.grants \in Seq(Grant)
          /\ {"coverage", "grants"} \subseteq DOMAIN membership
      BY DEF MembershipRow
    <3>3. /\ IsList(membership.coverage) /\ IsList(membership.grants)
          /\ \A g \in DOMAIN membership.grants : IsGrant(membership.grants[g])
      <4>1. \A g \in DOMAIN membership.grants : membership.grants[g] \in Grant
        BY <3>2
      <4>2. QED
        BY <1>1, <3>2, <4>1 DEF Grant, IsGrant
    <3>4. CoveredOnce(memberships[m].coverage) /\ GrantedOnce(memberships[m].grants)
      BY <2>2, NothingTwiceAtFirst DEF ImportInit
    <3>5. QED
      BY <3>1, <3>2, <3>3, <3>4 DEF PaidOnce, HasCoverage, HasGrants
  <2>3. QED
    BY <1>1, <2>1, <2>2 DEF DuesOnce
<1>4. NamesOne(links)
  BY NothingTwiceAtFirst DEF ImportInit
<1>5. QED
  BY <1>2, <1>3, <1>4 DEF TablesHarmless

\* dues.go: "re-importing the same roster is harmless".  Whatever rosters are
\* imported, in whatever order and however often, and whatever officers write in
\* between, no import decides a date again, grants for life beside a grant that
\* stands or notes a sentence that is on file, and an id names one person.
THEOREM ReimportsDoubleNothing == ImportSpec => []NothingIsDoubled
<1>1. ImportInit =>
        RunsInv /\ RulingsInv /\ FilesReadable /\ RowsReadable /\ TablesHarmless
  <2>1. SUFFICES ASSUME ImportInit
                 PROVE  RunsInv /\ RulingsInv /\ FilesReadable /\ RowsReadable
                        /\ TablesHarmless
    OBVIOUS
  <2>2. runs = <<>> /\ calls = {} /\ rows = <<>> /\ landed = <<>>
    BY <2>1 DEF ImportInit
  <2>3. runs \in Seq({}) /\ RunIds = {} /\ rows \in Seq(Seq({})) /\ landed \in Seq({})
    BY <2>2 DEF RunIds
  <2>4. FilesReadable /\ RowsReadable
    BY <2>2 DEF FilesReadable, RowsReadable
  <2>5. TablesHarmless
    BY <2>1, TablesAtFirst
  <2>6. QED
    BY <2>2, <2>3, <2>4, <2>5
       DEF RunsInv, RunsTyped, RulingsInv, RowsTyped, LandedTyped, RulingsHold
<1>2. RunsInv /\ RulingsInv /\ FilesReadable /\ RowsReadable /\ TablesHarmless
        /\ [ImportNext]_importVars =>
        RunsInv' /\ RulingsInv' /\ FilesReadable' /\ RowsReadable' /\ TablesHarmless'
  BY RunsInvStep, RulingsInvStep, FilesStep, RowsStep, TablesStep
<1>3. TablesHarmless => NothingIsDoubled
  BY DEF TablesHarmless, NothingIsDoubled, PersonsOnce, PersonNoted, DuesOnce, PaidOnce,
         HasCoverage, HasGrants
<1>4. QED
  BY <1>1, <1>2, <1>3, PTL DEF ImportSpec

=============================================================================
