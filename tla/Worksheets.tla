----------------------------- MODULE Worksheets -----------------------------
(***************************************************************************)
(* The treasurer's desk around the ledger: the dues standing every page    *)
(* derives, the renewal worksheets printed from it, and the batch a sheet  *)
(* is handed to.                                                           *)
(*                                                                         *)
(* Code: internal/domain/worksheets, the standing and rates of             *)
(* internal/domain/dues, their statements in internal/db/sqlc, and the     *)
(* pages and API operations over them.                                     *)
(*                                                                         *)
(* The ledger is the module Ledger, whole.  A sheet is selected with plain *)
(* reads and stored in a transaction of its own, and a handler takes its   *)
(* instant before it commits: "making" and "linking" hold the calls that   *)
(* are between two statements.  An instant of the model is a day's worth.  *)
(***************************************************************************)
EXTENDS Ledger, Ranking

CONSTANTS
  Roll,          \* the memberships: name, call sign (0 for none), waivers
  WarningDays,
  Filters, Orders, Labels,   \* what an officer may ask of a sheet
  RunLimit, MakingLimit, ClockLimit     \* bounds

ASSUME WarningIsPositive == WarningDays \in Nat \ {0}
ASSUME MembersAreFinite == IsFiniteSet(Members)
ASSUME RollIsKept ==
  /\ \A m \in Members :
       Roll[m].id \in Nat /\ Roll[m].name \in Nat /\ Roll[m].sign \in 0 .. 999
  /\ \A m, n \in Members : Roll[m].id = Roll[n].id => m = n
ASSUME FiltersAreKnown == Filters \subseteq {"owes", "active", "unpaid_since_run"}
ASSUME OrdersAreKnown == Orders \subseteq {"last_name", "call_sign", "longest_overdue"}

VARIABLES
  clock,     \* the instant
  entered,   \* payments.entered_at, by payment
  ended,     \* memberships rejected, resigned or deceased
  runs,      \* dues_worksheet_runs with their rows
  making,    \* sheets selected and not yet stored
  links,     \* payment_batches.worksheet_run_id, by batch, 0 for none
  linking    \* links checked and not yet written

sheetVars == <<clock, ended, runs, making, linking>>
deskVars == <<vars, sheetVars, entered, links>>

RunIds == DOMAIN runs
None == 0

-----------------------------------------------------------------------------
(* Standing, never stored: derived from the ledger as of a date.           *)

PaidThrough(m) ==
  IF EffectiveCoverage(m) = 0 THEN None ELSE coverage[EffectiveCoverage(m)].paid

\* Started, not ended, never revoked; an open-ended grant ends on day None.
Waived(m, asOf) ==
  \E g \in Roll[m].waivers :
    ~g.revoked /\ g.from <= asOf /\ (g.to = None \/ g.to >= asOf)

WarnThrough(asOf) == asOf + WarningDays

Status(m, asOf) ==
  CASE Waived(m, asOf) -> "honorary_waived"
    [] ~Waived(m, asOf) /\ PaidThrough(m) = None -> "unknown"
    [] ~Waived(m, asOf) /\ PaidThrough(m) \in 1 .. asOf - 1 -> "expired"
    [] ~Waived(m, asOf) /\ PaidThrough(m) \in asOf .. WarnThrough(asOf) -> "expiring"
    [] OTHER -> "current"

Statuses == {"honorary_waived", "unknown", "expired", "expiring", "current"}

\* Slip: the last day of the warning is counted as current as well.
HasStatusLastDayTwice(m, status, asOf) ==
  LET waived == Waived(m, asOf)
      paid == PaidThrough(m) IN
  CASE status = "honorary_waived" -> waived
    [] status = "unknown" -> ~waived /\ paid = None
    [] status = "expired" -> ~waived /\ paid # None /\ paid < asOf
    [] status = "expiring" -> ~waived /\ paid >= asOf /\ paid <= WarnThrough(asOf)
    [] status = "current" -> ~waived /\ paid >= WarnThrough(asOf)

\* The filter of the same query is written a second time, by status.
HasStatus(m, status, asOf) ==
  LET waived == Waived(m, asOf)
      paid == PaidThrough(m) IN
  CASE status = "honorary_waived" -> waived
    [] status = "unknown" -> ~waived /\ paid = None
    [] status = "expired" -> ~waived /\ paid # None /\ paid < asOf
    [] status = "expiring" -> ~waived /\ paid >= asOf /\ paid <= WarnThrough(asOf)
    [] status = "current" -> ~waived /\ paid > WarnThrough(asOf)

\* ListStanding, and GetStanding of one membership, which keeps the ended.
Working == Members \ ended
ListStanding(status, asOf) == {m \in Working : HasStatus(m, status, asOf)}

\* Slip: one membership's standing is refused once its lifecycle has ended.
StandingOfWorking(m, asOf) ==
  IF m \in ended THEN <<>>
  ELSE <<[member |-> m, status |-> Status(m, asOf), paid |-> PaidThrough(m),
          seen |-> Len(coverage)]>>

\* One line as printed; "seen" is a history: the decisions already made.
GetStanding(m, asOf) ==
  <<[member |-> m, status |-> Status(m, asOf), paid |-> PaidThrough(m),
     seen |-> Len(coverage)]>>

-----------------------------------------------------------------------------
(* Worksheets.                                                             *)

\* Only payments that were not reversals count, corrected or not.
EnteredSince(r, m) ==
  \E p \in DOMAIN payments :
    /\ payments[p].member = m
    /\ payments[p].kind # "reversal"
    /\ entered[p] > runs[r].at

\* The sheet's page and its rows over the API: what was printed, and which
\* lines have been entered by now.
Lines(r) == DOMAIN runs[r].rows
EnteredLines(r) == {i \in Lines(r) : EnteredSince(r, runs[r].rows[i].member)}
OnSheet(r) == {runs[r].rows[i].member : i \in Lines(r)}

ListWorksheetMembershipsUnpaidSince(r) ==
  LET unpaid == Ascending(Lines(r) \ EnteredLines(r))
  IN [i \in DOMAIN unpaid |-> runs[r].rows[unpaid[i]].member]

\* sortStandings: blanks last by call sign, first by date; ties by membership.
SortKey(order, row) ==
  CASE order = "call_sign" ->
         IF Roll[row.member].sign = None THEN 1000 ELSE Roll[row.member].sign
    [] order = "longest_overdue" -> row.paid
    [] OTHER -> Roll[row.member].name

Before(order, a, b) ==
  \/ SortKey(order, a) < SortKey(order, b)
  \/ SortKey(order, a) = SortKey(order, b) /\ Roll[a.member].id < Roll[b.member].id

SortStandings(rows, order) ==
  Ranked(rows, {pair \in rows \X rows : Before(order, pair[1], pair[2])})

\* selectStandings of the two filters that list the club in one query.
Select(filter, asOf) ==
  {GetStanding(m, asOf)[1] :
     m \in {n \in Working :
              filter = "owes" => Status(n, asOf) \in {"expired", "unknown"}}}

Asked(filter, source, order, asOf, label) ==
  [filter |-> filter, source |-> source, order |-> order, asOf |-> asOf,
   label |-> label, at |-> clock]

Making(asked, left, rows) == [asked |-> asked, left |-> left, rows |-> rows]

Room == Cardinality(making) < MakingLimit /\ Len(runs) + Cardinality(making) < RunLimit

CreateSelects(filter, order, asOf, label) ==
  /\ Room /\ filter # "unpaid_since_run"
  /\ making' = making \cup
       {Making(Asked(filter, None, order, asOf, label), <<>>, Select(filter, asOf))}
  /\ UNCHANGED <<vars, entered, links, clock, ended, runs, linking>>

\* A follow-up sheet first lists who is unpaid, then reads them one by one.
CreateFollowsUp(source, order, asOf, label) ==
  /\ Room
  /\ making' = making \cup
       {Making(Asked("unpaid_since_run", source, order, asOf, label),
               ListWorksheetMembershipsUnpaidSince(source), {})}
  /\ UNCHANGED <<vars, entered, links, clock, ended, runs, linking>>

CreateReadsStanding(call) ==
  /\ call.left # <<>>
  /\ making' = (making \ {call}) \cup
       {Making(call.asked, Tail(call.left),
               call.rows \cup Range(GetStanding(Head(call.left), call.asked.asOf)))}
  /\ UNCHANGED <<vars, entered, links, clock, ended, runs, linking>>

\* The transaction: the run, its rows in print order, and their count.
CreateStores(call) ==
  /\ call.left = <<>>
  /\ making' = making \ {call}
  /\ runs' = Append(runs,
       [filter |-> call.asked.filter, source |-> call.asked.source,
        asOf |-> call.asked.asOf, label |-> call.asked.label, at |-> call.asked.at,
        rows |-> SortStandings(call.rows, call.asked.order)])
  /\ UNCHANGED <<vars, entered, links, clock, ended, linking>>

\* A failing read, a refused request or a stopped process stores nothing.
CreateStops(call) ==
  /\ making' = making \ {call}
  /\ UNCHANGED <<vars, entered, links, clock, ended, runs, linking>>

-----------------------------------------------------------------------------
(* Handing a sheet to a batch.                                             *)

\* Slip: the batch is opened and its link left to a second request.
OpenBatchUnlinked(a, k, r) ==
  /\ Len(batches) < BatchLimit
  /\ Unclaimed(a, "worksheet-batch-open", k)
  /\ batches' = Append(batches, NewBatch)
  /\ entries' = Append(entries, <<>>)
  /\ links' = Append(links, None)
  /\ Complete(a, "worksheet-batch-open", k, Len(batches) + 1)
  /\ UNCHANGED <<payments, corrections, coverage, entered, sheetVars>>

OpenBatchForRun(a, k, r) ==
  /\ Len(batches) < BatchLimit
  /\ Unclaimed(a, "worksheet-batch-open", k)
  /\ batches' = Append(batches, NewBatch)
  /\ entries' = Append(entries, <<>>)
  /\ links' = Append(links, r)
  /\ Complete(a, "worksheet-batch-open", k, Len(batches) + 1)
  /\ UNCHANGED <<payments, corrections, coverage, entered, sheetVars>>

LinkChecks(r, b) ==
  /\ IsOpen(b) /\ entries[b] = <<>>
  /\ linking' = linking \cup {[run |-> r, batch |-> b]}
  /\ UNCHANGED <<vars, entered, links, clock, ended, runs, making>>

\* The write compares nothing.
LinkWrites(call) ==
  /\ links' = [links EXCEPT ![call.batch] = call.run]
  /\ linking' = linking \ {call}
  /\ UNCHANGED <<vars, entered, clock, ended, runs, making>>

LinkStops(call) ==
  /\ linking' = linking \ {call}
  /\ UNCHANGED <<vars, entered, links, clock, ended, runs, making>>

-----------------------------------------------------------------------------
(* The ledger goes on.  A posting or correction stamps its payments with   *)
(* the instant its handler took, which may be before this one.             *)

Stamp(at) ==
  entered' = entered \o [p \in 1 .. Len(payments') - Len(payments) |-> at]

LinkNone == links' = links \o [b \in 1 .. Len(batches') - Len(batches) |-> None]

LedgerStep ==
  \E at \in {clock - 1, clock} :
    /\ Next
    /\ at < clock => payments' # payments
    /\ Stamp(at) /\ LinkNone
    /\ UNCHANGED sheetVars

\* TransitionLifecycle of internal/domain/members, to an ended state.
EndMembership(m) ==
  /\ m \notin ended
  /\ ended' = ended \cup {m}
  /\ UNCHANGED <<vars, entered, links, clock, runs, making, linking>>

Tick ==
  /\ clock < ClockLimit
  /\ clock' = clock + 1
  /\ UNCHANGED <<vars, entered, links, ended, runs, making, linking>>

SheetInit ==
  /\ Init
  /\ clock = 1 /\ entered = <<>> /\ ended = {} /\ runs = <<>> /\ making = {}
  /\ links = <<>> /\ linking = {}

\* validate() and selectStandings: a follow-up needs the run it follows.
Create(filter, source, order, asOf, label) ==
  \/ CreateSelects(filter, order, asOf, label)
  \/ /\ filter = "unpaid_since_run" /\ source \in RunIds
     /\ CreateFollowsUp(source, order, asOf, label)

\* The page's form: a day that cannot be read is refused, a blank one is today.
WorksheetCreate(filter, source, order, typed, label) ==
  Create(filter, source, order, IF typed = None THEN clock ELSE typed, label)

\* The same over the API, where the order may be left out.
WorksheetCreateOverApi(filter, source, asOf, label) ==
  Create(filter, source, "last_name", IF asOf = None THEN clock ELSE asOf, label)

SheetStep ==
  \/ \E filter \in Filters, source \in RunIds \cup {None}, label \in Labels,
        day \in Dates \cup {None} :
       \/ \E order \in Orders : WorksheetCreate(filter, source, order, day, label)
       \/ WorksheetCreateOverApi(filter, source, day, label)
  \/ \E call \in making :
       CreateReadsStanding(call) \/ CreateStores(call) \/ CreateStops(call)

HandoffStep ==
  \/ \E r \in RunIds, a \in Actors, k \in Keys \cup {NoKey} : OpenBatchForRun(a, k, r)
  \/ \E r \in RunIds, b \in DOMAIN batches : LinkChecks(r, b)
  \/ \E call \in linking : LinkWrites(call) \/ LinkStops(call)

SheetNext ==
  \/ SheetStep
  \/ HandoffStep
  \/ LedgerStep
  \/ Tick
  \/ \E m \in Members : EndMembership(m)

SheetSpec == SheetInit /\ [][SheetNext]_deskVars

-----------------------------------------------------------------------------
(* Properties.                                                             *)

\* The status a page shows and the filter that finds it are two texts of one
\* query: every membership is found under the status it is shown with, and
\* under no other, on every day.
Days == 1 .. Max(Dates) + WarningDays + 1

FiltersAgree ==
  \A asOf \in Days, m \in Members, status \in Statuses :
    HasStatus(m, status, asOf) <=> Status(m, asOf) = status

\* A line leaves the paper trail only by being paid: whoever is on a sheet and
\* not on the follow-up of it has a payment entered since, whatever became of
\* the membership or the payment in between.
FollowUpDropsOnlyThePaid ==
  \A f \in RunIds : runs[f].source # None =>
    \A i \in Lines(runs[f].source) :
      runs[runs[f].source].rows[i].member \in OnSheet(f)
        \/ i \in EnteredLines(runs[f].source)

\* OpenBatchForRun: "a link that failed after the batch was created left an
\* orphan".  A key that opened a batch names one that is linked to a sheet.
HandedOff == {c \in claims : c.op = "worksheet-batch-open"}
HandoffIsWhole ==
  \A c \in HandedOff : c.id \in DOMAIN links /\ links[c.id] \in RunIds

=============================================================================
