# BCARS portal: a TLA+ model of the club's members portal

The BCARS portal is a Go program over one SQLite database. Officers of a radio
club keep members, dues, payments and imports in it; members read their own
record and propose corrections to it. This directory holds TLA+ modules
translated from that program, the TLC configurations that check them on small
instances, and theorems that TLAPS checks for every instance.

    tlc -workers 2 -config requests_review.cfg MCChangeRequests   # a run
    tlapm ChangeRequestProofs.tla                                  # a proof

`PROJECT.json` maps every definition to the lines it models, names the runs,
the mutated definitions each property must catch, the hazards and the theorems.

## How the code runs, and what that means for the models

Every HTTP request runs in its own goroutine. There is no state shared between
requests except the database: no caches, no background jobs, no locks of the
program's own. The database is opened in WAL mode through `database/sql` with
deferred transactions. `db.Open` (`internal/db/db.go:41`) sets foreign keys and the
busy timeout with one `Exec` each, so on one connection of the pool: on the others
a write that meets a lock fails at once, which is an error and so a stutter, and a
foreign key is not enforced. The models do not lean on foreign keys to refuse a
write; the ids in their rows come from rows that exist, as the pages' do.

* **A transaction is one action.** A service method that works inside `inTx`
  first reads and then writes. In WAL mode a transaction that read an old
  snapshot cannot become a writer, so it commits on what it read or fails as a
  whole. Its guard is the conjunction of the checks the method makes, its error
  paths are stutters.
* **Code outside a transaction interleaves statement by statement.** The members
  service is called without a transaction by the officers' pages, so its
  two-statement methods are two actions with other requests between them, or with
  the end of the process between them.
* **A client is state too.** A screen, an ETag, an open form or an idempotency
  key is read by one request and used by a later one. The version a client sends
  is a parameter of the action; the form a member has open is a variable.
* **A retry with the same idempotency key** writes nothing and so is a stutter.
  What a late retry is answered with matters only where a model says so
  (`Submit` in `Suggestions`).

* **A process may stop.** Between two statements of a call outside a transaction
  the module has an action that drops the call where it stands, be it a failed
  statement or the end of the process. Inside a transaction nothing is left.
* **Time** is modelled where it decides something: a worksheet's instant and its
  payments', the end of a lock, a session, a link and a window of attempts, the
  instant of a listing choice.

SQLite's choice of ids is modelled where rows are deleted (draft batch rows, the
one such table here): the id of a deleted last row is given out again.

## Inventory

| Component | State it keeps | Operations | What must be right | Modelled by |
|---|---|---|---|---|
| Treasury ledger, `domain/batches` | draft batches and rows, payments, corrections | Open, Update, Abandon, AddEntry, UpdateEntry, DeleteEntry, Post, PostSinglePayment, CorrectPayment | a batch becomes money exactly once and then never moves; corrections keep the books' sum and never fork | `Ledger`, `Books`, `LedgerBooks`, `LedgerProofs`, `TreasuryProofs` |
| Idempotency records, `domain/idem` | one row per actor, operation and key | Begin, Complete | a key does work once | in `Ledger`, `Worksheets`, `ChangeRequests` |
| Dues coverage and standing, `domain/dues` | append-only coverage decisions, rates | AdjustCoverage, the derived standing, SetRate | one unbranched history per member, whoever writes it; a status and the filter for it agree | `Ledger`, `Worksheets` (rates are not modelled) |
| Members' records, `domain/members` | persons, contact methods, preferences | each statement on its own | version-guarded rows, one primary contact | `Records`, `ChangeRequestProofs` |
| Memberships, grants, notes, `domain/members` | memberships and approvals, FCC checks, honorary grants, notes and revisions | create, apply, approve, reject, end, verify, grant, edit, expire, revoke | a decision is made once, no text of a note is lost, an ended grant stays ended, the queue shows everyone | `Memberships`, `Ranking`, `MembershipProofs` |
| Change requests, `domain/changerequests` | requests, their items, what a review wrote | Create, Triage, DecideItem, Resolve, Withdraw | decisions are final, an approval applies completely or not at all, a moved record is not overwritten, no change is lost | `ChangeRequests`, `ChangeRequestProofs` |
| Member self-service, `web/member.go` | the form a member has open | open, submit | a form proposes about its owner's own record | `Suggestions`, `ChangeRequestProofs` |
| Roster import, `domain/importd` | runs, staged rows, decisions | Upload, RecordDecision, Preview, Commit, Discard | rows land once, all or none, as ruled; a second import doubles nothing | `Roster`, `ImportRun`, `ImportProofs` |
| Dues worksheets, `domain/worksheets` | frozen snapshots, a link to a batch | Create, LinkBatch, OpenBatchForRun | who leaves the paper trail has paid; a sheet's batch is linked | `Worksheets` over `Ledger`, `Ranking`, `TreasuryProofs` |
| Accounts and access, `domain/memberaccess` | accounts, role grants, access grants | provision, grant, revoke | one revocation ends access | `Accounts`, `AccessProofs` |
| Relationships, `domain/relationships` | rows with versions | create, update, archive | what is archived is history | `Relationships`, `AccessProofs` |
| Sign-in, sessions, links, throttle, `internal/authn`, `internal/ratelimit` | failure counts and locks, sessions, links, attempts | SignIn, SignOut, RequestRecovery, ConsumeLink, CreateUserFromInvitation, Allow | every lock ends, mails are bounded, an account has the role it was invited to | `SignIn` over `Accounts` and `Relationships`, `AccessProofs` |
| Directory, `domain/directory` | none of its own; listing choices | list, print, choose an audience | nothing withheld is shown, pages add up to the list | `Directory`, `Ranking`, `DirectoryProofs` |
| Profile, treasury reports, CSV | none | reads | what is summed, what a form shows | sums in `LedgerBooks`, the profile's contacts in `Suggestions` |
| Authorization catalog | a fixed table; role grants | capabilities of an account | roles in force count | roles in `Accounts` |
| Audit, HTTP transport, rendering, mail, backup, observability, commands | none that decides anything above | | | not modelled, see below |

How they meet:

* **Coverage has four writers**: posting, correcting, adjusting, importing. Each
  looks up on its own which decision it supersedes. `Ledger` has all four.
* **A person's record has three**: officers' direct calls, review adapters and
  the import. `Records` holds the tables and the first, `ChangeRequests` extends
  it with the second, so that an approval meets a record an officer has edited.
  `ImportRun` has tables of its own, of what an import reads and writes, with
  officers beside it who enrol, apply and deactivate, end memberships, give, expire
  and revoke honorary grants, and write and edit notes.
* **A worksheet lives beside the ledger.** `Worksheets` extends `Ledger` whole, so
  that a sheet is selected, stored, marked and handed on between any two steps
  of posting and correcting.
* **Sign-in decides who acts.** `SignIn` extends `Accounts` and `Relationships`:
  an officer's step there needs a live session of an account whose roles are in
  force, and that account came from an invitation, a recovery or a provision.
* **A member's form** reads the record twice, once to render and once when
  submitted, then files a request in a transaction of its own: `Suggestions` extends
  `ChangeRequests`.

The behaviours that are hard to test are the `hazards` of `PROJECT.json`, each
at its line with the properties that cover it, or the reason none does. They fall
in groups: several writers finding a predecessor on their own; things done once
despite retries; screens, forms and counts that are stale when they are used; two
statements where one was meant; a process that stops between them; status derived
from several rows; the same query written twice.

## Modules

### Ledger, LedgerBooks, Books

`Ledger` has the tables of migration 0007 as sequences (`batches`, `entries`,
`payments`, `corrections`, `coverage`) and the idempotency records as a set.
One action per service method: `OpenBatch`, `UpdateBatch`, `AbandonBatch`,
`AddEntry`, `UpdateEntry`, `DeleteEntry`, `Post`, `PostSingle`, `Correct`,
`AdjustCoverage`, and `ImportCoverage`, the importer's write for one row. A
receipt keeps its structure (batch, sequence, trail of corrections); labels,
notes, methods and dates of receipt have no influence and are left out.

UNIQUE indexes of the ledger are *not* guards. The properties show the code does
not lean on them: `ReceiptsAreUnique` for `ux_payments_receipt`,
`CoverageIsOneChain` for `ux_coverage_supersedes`.

`Books` is the abstract specification: what a reader of the treasury sees, one
line per receipt number and one list of dates per member, without reversals,
pointers or drafts. `LedgerBooks` states that `Ledger` implements it
(`ImplementsBooks`), with a mapping (`BookLines`, `BookHistories`) that follows
pointers the way the code's loops do, and that this walk finds what `Ledger` states
with sets (`WalkFindsInForce`).

### Ranking

How a set of rows becomes a list: each row at the number of rows that come before
it. The `ORDER BY` of the queries and the sorts of the pages are instances of it, in
`Memberships`, `Directory`, `Worksheets` and `Suggestions`.

### Records

`persons`, `contacts` and the two append-only preference histories, with
`pending`: the second statement of a call that makes or creates a primary
contact. `ClearForNew`/`InsertPrimary` are the two statements of
`CreateContactMethod` with the primary mark, `ClearForMark`/`MarkPrimary` those of
`MakePrimary`, `LoseCall` a call that ends between them. `FirstPersons` and
`FirstContacts` are what the import left; the import creates at most one primary
contact for a person (`importd/service.go:562`), which is the assumption
`OneFirstPrimary`.

### ChangeRequests

Extends `Records` with `requests`, `items` and `claims`. Actions: `Create`,
`Triage`, `Resolve`, `Withdraw`, and `DecideItem` as `Refuse` (rejected, or held
for verification) and `Approve`, whose `Apply` is the adapter switch of
`review.go`. `FollowItems` is the status derivation that ends every decision. The
pages that apply a whole request call `DecideItem` once per ticked item, each in
its own transaction; the interleaving of single decisions covers them.

A proposal has an operation, a target id, the submitter's own sensitivity, a kind
and a value; the value of a visibility or sharing item is a text like any other.
Which lists of proposals arrive is the constant `Intakes`.

### Suggestions

Extends `ChangeRequests` with the form each member has open and the request they
were last told has been sent. `Profile` renders; `SubmitReads` takes the posted form,
reads the record again (`Readable`, `EditItems`) and holds what it will propose, with
the versions it saw, in `sending`; `Submit` files that or replays, and `SubmitStops` is
a submission that ends in between. The idempotency key is derived from the posted
values, so a form is a key.

### Roster, ImportRun

`Roster` is what one exported row means, as operators: its normal form, the
record it matches, the action proposed, what a ruling makes of its dues. `ImportRun`
is the life of a run. Only the commit runs in a transaction; `UploadStarts`,
`UploadStagesRow` and `UploadValidates` are statements, as are `RecordDecision` and
`RuleOnRow` (the decision, then the row) and the two halves of a preview, a discard
and a commit (the status read, then the guarded write). The commit folds `ApplyRow`
over a copy of the tables, which is dropped whole when a unique index refuses a
row. `landed` is a history of the rows applied. The chain of a member's coverage is
the ledger's business (`ImportCoverage` there); here it is the list of its dates.
Officers write the same tables (`OfficerEdits`), and notes and grants keep who wrote
them. A lifetime grant `Stands` unless it was revoked or given an end, as
`ensureLifetimeGrant` has it, and a row's dues go to the newest membership of its
person that has not ended (`MembershipForPerson`). The officers' page passes on any
action that is posted; one that is no ruling ("other") is on record and leaves the row
waiting, though it counts as resolved.

### Worksheets

Extends `Ledger` with the clock, the instant of each payment, the sheets and the
calls under way. `Status` and `HasStatus` are the two texts of one query. A sheet is
selected with plain reads (`CreateSelects`, or `CreateFollowsUp` with one
`CreateReadsStanding` per line) and stored later (`CreateStores`); `LinkChecks` and
`LinkWrites` are the two statements of a link, `OpenBatchForRun` is one transaction.
A posting stamps its payments with the instant its handler took, which may be
before the one at which it commits.

### Memberships

Persons and applications, decisions, ends, FCC checks, honorary grants, notes. A
call is held in `creating`, `deciding`, `merging` or `editing` between its statements.
`PendingPage` is the queue with its one row more than is shown, `Timeline` the merge
of three lists: audit events and notes are cut at the limit before, memberships are not,
and a list whose query failed is missing without a word (`answered` names those that
did not). The number of a call stands for its time.

### Relationships, Accounts, SignIn

`Relationships` and `Accounts` are transactions and so actions of one step; `SignIn`
composes them with the statements of `internal/authn` and `internal/ratelimit`, which
are not. `calls` holds a sign-in whose count of failures was read, a request for
mail that was counted and not yet recorded, a link that was read and not yet
marked, and a welcome whose counter was reset and whose session is to be made. A lock
that was found to be over is taken off in a statement of its own (`LockRunsOut`), which
may fail unnoticed and may meet a lock that is newer than the one read. An attempt is
stamped before it is counted, so its time in the window runs while the call does
(`Later`). The limiter lets a database error pass: a bucket that cannot be counted limits
nobody (`Verdict`), and an attempt that cannot be stored is as if it had not been made
(`AllowRecords`).

### Directory

A page is four reads (`ListAsks`, `ListCounts`, `ListReadsEntries`,
`ListReadsContacts`); a choice of audience takes its instant
(`SetDirectoryVisibility`) before it is stored (`CreateVisibilityEvent`). The two
queries of the contacts repeat order and bounds of the list they belong to, and so
do the operators.

### LedgerProofs, TreasuryProofs, ChangeRequestProofs, MembershipProofs, AccessProofs, ImportProofs, DirectoryProofs, RankingProofs

Theorems and lemmas, see *Proofs*. `TreasuryProofs` is about `LedgerBooks` and
`Worksheets`, on top of `LedgerProofs`; `ChangeRequestProofs` about `Records`,
`ChangeRequests` and `Suggestions`; `AccessProofs` about `SignIn` with the accounts and
relationships it extends; `ImportProofs` about `ImportRun`; `RankingProofs` has what the
others use of lists. The modules whose names begin with `MC` only give the constants
values.

## Runs

Every passing run leaves deadlock unchecked: officers may simply have nothing left
to do, and the bounds stop them.

| Run | Checks | Bounds, and why they are enough |
|---|---|---|
| `ledger_drafts` | `TypeOK`, `ReceiptsAreUnique`, `PostedExactlyOnce`, `CoverageIsOneChain`, `VersionCoversRows`, `TerminalIsFrozen` | two batches of two rows, three row ids, versions to 5, two members: a row deleted in the middle, an id given out again in the other batch, two rows for one member in one posting, a post after either |
| `ledger_corrections` | `SupersedesLatest`, `CorrectionsAreLinked`, `BooksBalance`, `OneKeyPerWork`, `WalkFindsInForce`, `ImplementsBooks` | one batch of one row or one single payment, two amounts, two dates, two corrections, two keys, two members, decisions before and after: a correction of a correction, each by a new or a used key, over a decision made in between |
| `records_primaries` | `OnePrimaryPerCall` | one member, an e-mail address marked primary and a telephone number, room for a third contact, two overlapping calls: both bounds of the property are reached |
| `requests_review` | `TypeOK`, `StatusTellsProgress`, `NothingNamedIsLost`, `DecisionsAreFinal`, `ResolvedIsFinal`, `MovedTargetIsRefused` | one request of one or two items from a menu with the rewriting operations, an add and a remark; two officers (either may be the requester), direct edits of the same person and contact to two and three versions |
| `requests_preferences` | `AppliedExactlyOnce` | three preference items in one request, two of them about one contact, two values, two events of each kind, officers' events among them |
| `suggestions_own` | `SuggestionsStayAtHome` | a member with one address beside another member's, officers archiving and listing meanwhile, one request, one submission at a time between its two halves, the form sent any number of times |
| `imports` | `LandsOnce`, `NothingLandsUnruled`, `NothingIsDoubled`, `ClosedRunsStayClosed` | two exports of three and of two rows, two of them shared; a row that needs a ruling twice over (a lifetime date not confirmed, an e-mail address two people share), one that matches by its id, one confirmed for life; two calls under way, one ruling a row, one edit by an officer, of the person confirmed for life: two commits of one run, a preview or discard that comes after it, a second import of what landed, with a grant, a note or a membership of the officer's in between, or a grant of the first import revoked |
| `sheets` | `FiltersAgree`, `FollowUpDropsOnlyThePaid`, `HandoffIsWhole` | two members, one with waivers that ended and that were revoked, one payment and its correction, two sheets, two days: a follow-up after a payment, after its reversal and after a membership that ended; every day up to a day past the warning for the filters |
| `memberships` | `NoTextIsLost`, `TwoOfficersOneDecision`, `LastAskedEndHolds`, `QueueIsWalkedWhole`, `TimelineIsNewest` | five calls over two memberships, one note, one grant: two edits that read the same text, two decisions on what one page showed, a grant expired between the two halves of an edit; pages of one row and timelines of two, so that both cut, and any of a timeline's queries failing |
| `signin` | `RevocationEndsAccess`, `InvitedRoleIsHeld`, `RecoveryMailsAreBounded`, `RelationsAreHistory`, `NoLockIsForever` | one address, two calls under way, locks of two ticks after two failures, three requests that add rows: a grant given, taken and given again; two calls that counted before either recorded, counts and records that fail; a sign-in that read before the lock and writes after it, and one that takes a lock off after another has set it anew |
| `directory` | `NothingWithheldIsShown`, `PagesAddUp` | three people of whom one has no call sign and one is an associate, two contacts, three changes: two choices of one instant, stored in either order, between any two reads of a page; pages of one and of two rows |
| `signin_relock` | `LockNeedsFailures`, found violated | one call at a time: no interleaving is needed |

`VersionLimit`, `RequestLimit`, `CallLimit` and the like stop the counters; none of
them is in the code. Where the code has limits (failures, links, pages), they are
constants of the models with small values. Symmetry is used for members, keys and
officers, which no definition tells apart.

### The run that finds the code doing something other than it says

`signin_relock`. `authn/service.go:70` calls the end of a lock "Lockout expired —
reset counter." and does reset the stored count, but the count written after a
wrong password is the one read before the reset, plus one (line 86). After the first
lock a single wrong password is enough for the next, and so on until the right one
is given. That the account still comes free each time is `NoLockIsForever`.

### Other disagreements met while modelling

The models have these as the code has them; they follow from the actions named and
no run is spent on them.

* *An amount-only correction restates an old date.* `correct.go:301-303` says that
  correcting an amount leaves coverage alone. The code compares the date only with
  the decision the corrected payment itself granted. Pay through date 1, correct
  the amount (that replacement grants nothing), let the treasurer adjust coverage
  to date 2, correct the amount again: no granted decision is found
  (`correct.go:327-329`) and date 1 is appended over date 2. `RestateCoverage`.
* *A withdrawn request changes a record.* `service.go:565-567` of change requests says
  a retracted request has changed nothing. `DecideItem` does not look at the status,
  so an officer whose page was open applies an item afterwards. `Withdraw`, `Approve`.
* *An approval blanks the licence.* `review.go:395-396` says an approval never blanks
  a field. A name or call sign that is approved empties licence class and examiner
  mark, columns of a later migration (`review.go:397-403`). `ApplyPersonUpdate`.
* *Name and call sign cannot be applied in one go*, as `web/requests.go:795-797` has it:
  both items carry one person version, and applying one makes the other stale for
  good. `Apply`, `NotMoved`.
* *An untouched field is proposed back.* `web/member.go:618-622` says unchanged fields
  give no item. The form is compared with the record at submission, so a field an
  officer corrected meanwhile is proposed back to its old value. `EditItems`.
* *An approved row need not land.* ADR-0008 line 26 has a commit write the staged
  rows. A row ruled `approve_update` that matched nobody changes nothing and is
  counted as updated. `ApplyUpdate`.
* *A payment that is neither in a sheet's rows nor marked on it.*
  `worksheets/service.go:108` marks who has paid "since the sheet was generated". The
  payment whose handler took its instant before the sheet's, and which commits after
  the sheet's reads, is in neither. `LedgerStep`, `EnteredSince`.
* *A decision without its record.* `docs/phase-1-design.md:227` has one approvals row
  per decision. The lifecycle is written first (`members/service.go:371`); when the
  second statement fails, an approved membership has none, and a retry is refused
  as stale. `DecisionStops`.
* *What an officer took back comes with the next import.* `importd/dues.go:163-164` has
  re-importing the same roster "harmless". A lifetime grant that an officer revoked, or
  gave an end, does not count as one, so the next import grants it again
  (`importd/dues.go:170-174`). `EnsureLifetimeGrant`; `NothingIsDoubled` says what does hold.
* *Two accounts of one mailbox.* `memberaccess/service.go:446` normalizes so that two
  spellings are one account. An invitation keeps the spelling it was given, and
  sign-in compares as typed. `CreateInvitation`, `Provision`.

Where no document says which outcome is meant:

* Two overlapping calls that make a contact primary leave two
  (`members/service.go:775-779`); `OnePrimaryPerCall` states exactly how many.
* `ClearPrimary` clears the mark on every kind of contact, where the API speaks
  of "the primary for its kind" (`httpapi/ops_contact.go:222`).
* An add that names no record counts as nothing to apply when a request is
  resolved (`changerequests/service.go:613`), while review would apply it to the
  request's person (`review.go:437`).
* The two preference operations ignore the version an item recorded
  (`review.go:352`).
* A member who honestly sends the same form again later is told of the old, closed
  request (`web/member.go:816`).
* The claim of a deleted draft row outlives it, and the row's id is given to
  another, whose version starts at 1 again (`batches/service.go:433`, `:506`).
* Revoking an FCC check a second time stamps it anew; a membership that has ended
  may be approved again (only the version is compared).
* A person with two memberships in force is listed twice in the directory, and a
  page whose four reads are torn by an edit may show a total, rows and contacts of
  different moments. Refreshing heals it, and nothing withheld is among them.
* Linking a batch checks that it is open and empty and then writes without a
  guard (`worksheets/service.go:521`).
* A person whose only membership has ended gets a new, approved one at the next import
  of their row (`importd/dues.go:242-252`); `MembershipForPerson`, `ApplyUpdate`.
* An upload that stops between its statements leaves a run that is never
  validated and a key that answers with it (`importd/service.go:94`).

## Fairness and liveness

One specification states fairness: `SignIn` has `WF_vars(Tick)`, time goes on. `Tick`
is always enabled there and is what `time.Now` does; nobody is assumed to sign in,
answer or give up. `NoLockIsForever` is the liveness that code owes by itself: a lock
ends although anybody keeps trying, since a locked account is refused before its
password is looked at, and although calls that read it before the lock may still
write a later end; the calls under way are bounded, as requests in flight are.

No other specification states fairness. Every other action is an officer or a
member pressing a button, and no code obliges anyone to: an undecided request or
an open batch may stay so for ever. There is no background work that would have to
finish, no queue that must drain and no lock to wait for beyond SQLite's own
timeout.

## Proofs

All theorems are about the same specifications the runs check, for any values of
the constants that satisfy the named assumptions. Every safety invariant and action
property of the runs is the conclusion of one, except those named at the end. In each
paragraph the inductive invariant is named: it is the operator to read first.

**Ledger** (`LedgerProofs`). `TypeCorrect` is inductive as it stands.

* Coverage needs care: `CoverageIsOneChain` is not inductive, since a second head
  would make `EffectiveCoverage` an arbitrary choice. The inductive invariant is
  `SupersedesLatest`: every decision supersedes the latest earlier one about the same
  member. `HeadIsLatest` and `LatestIsAHead` show that under it the one head *is* the
  latest decision; `ExtendsHistory` names what all four writers have in common, and
  `PostRowsExtendsHistory` is the step with several rows for one member in a single
  transaction. `CoverageChain` follows by `LatestImpliesChain`.
* `TerminalFrozen` and `VersionsCoverRows` come from one lemma about what a step may do
  to a batch (`NextStepsOneOpenBatch`).
* `CorrectionsLinked` is inductive with the types: a step appends no correction, or one
  with its two payments, of a payment that was in force.
* `ReceiptsUnique`, though a deleted row's id is used again: `ReceiptInv` says where
  receipts come from. The payments of a batch exist only once it is posted and carry
  the sequence of a row that is still there (`PaymentsArePosted`), rows are numbered
  upwards (`RowsInOrder`), and a reversal or replacement extends the receipt of the
  payment it corrects by a mark of its own (`TrailsFollowCorrections`).
* `PostedOnce`: a posting numbers its payments and grants as its rows, and no later step
  adds an original to that batch, since it is no longer open.
* `OneKey`: `KeyInv` ties each posted batch and each replacement to the one claim that
  names it, and each claim to work that exists.

**The books** (`TreasuryProofs`). The walks of `LedgerBooks` are recursive functions.
Such a definition is a choice, so each is first shown to have a solution, by giving
one with no recursion in it; from then on its equation may be used. Statements about
every payment are then proved by a least or a greatest counterexample.

* `WalksAgree`: under `ChainInv` each receipt number has one payment in force and one
  original, and the corrections between them are the trail. The walk forward climbs
  in payment numbers and the walk back descends, so they end at these two.
* `BooksImplemented`: `LinesShow` and `HistoriesShow` rewrite the mapping as sets; under
  `ChainInv` and `SupersedesLatest` each step of the ledger is then `Post`, `Correct` or
  `Decide` of the books or leaves them alone (`BookStepCases`).
* `Balanced`: the sum is unfolded to `Total`, which takes out one element at a time;
  that the order does not matter is shown on a smallest set where it would. Then a
  reversal and what it reverses cancel (`BalanceInv`, over all batch numbers, so that
  a batch that does not exist yet is covered before it is posted).

**Worksheets** (`TreasuryProofs`). A sheet's ledger takes one step of its own,
`OpenBatchForRun`; what `LedgerProofs` says of a step of `Next` is used for the rest
(`LedgerTyped`).

* `HandedOverWhole`: `HandoffInv` adds that there is one link for each batch and that a
  link being written was checked against a sheet and a batch that exist.
* `FiltersAgreeAlways` is about every day, every history of grants and decisions, and
  needs only that a membership's last paid day is a number (`PaidThroughIsADay`).
* `FollowUpsDropOnlyThePaid`: `PaperInv` follows a follow-up while it is made. Each line
  of the source is accounted for as a row already read, as one of the list still to be
  read, or as paid (`IsAccounted`); marks of payment are never taken back and sheets
  never rewritten (`SheetsStay`), so steps of the ledger between two reads disturb
  nothing, and the order in which the sheet is printed loses no line
  (`EveryRowIsPrinted`). It assumes finitely many members (`MembersAreFinite`), each with
  an id of its own that breaks ties, as the primary key is (`RollIsKept`).

**Records** (`ChangeRequestProofs`). `RecordsTypeCorrect`, and `PrimariesBounded`: with n
calls at once a member has at most n active primaries. The inductive invariant is
`PrimaryInv`: the active primaries *plus the calls that have cleared and not yet
written* number at most n, a call has one statement under way, and a mark under
way is on a row of the person who was cleared. It assumes the import left at most
one primary (`OneFirstPrimary`), that `Calls` is finite (`CallsAreFinite`), and
that there is a call at all.

**Review** (`ChangeRequestProofs`). `StepOutcome` says what any step does to
requests and items: it files one, rewrites the row of an open one, decides a
pending item, or neither. `DecisionsStand` and `ResolutionStands` follow by those
cases. `StatusFollowsItems` and `ResolvingLosesNothing` share the inductive
invariant `AllTold`, request by request `Told` (the status says which items are
undecided) and `Kept` (a resolved request's undecided items name nothing); the
first is what makes the second survive a decision on a withdrawn or resolved
request. `NoStaleWrite` goes through the adapters: an item becomes applied only by
its own approval (`ApprovalApplies`), and each adapter that rewrites a person or a
contact compared its version (`ApplyChecksVersion`). `AppliedOnce` rests on
`PreferenceInv`: every event a review wrote is named by an item and no two items name
one event, which makes a bijection, and so equal numbers.

**The member's form** (`ChangeRequestProofs`, about `SuggestionSpec`).
`SuggestionsAreOwn`: `SentInv` says that what a form shows was the member's own when it
was rendered, as is what a submission under way is about to file (`SendingHome`), and
contacts never change their owner (`ContactsStay`) nor requests their proposals
(`RequestsStay`); `EditsAreHome` goes through the form field by field.
The claim a replay finds is of the same member: the proof needs the fingerprint to
hold the requester, as `createFingerprint` has it (`SameRequest`).

**Memberships** (`MembershipProofs`). Three invariants of the same kind: a call that
read a row of the current version read the row as it is. `NotesInv`: an edit whose
version is still the note's has read the note's text, and one that has kept what it
read finds it among the revisions; so the one step that replaces a text
(`UpdateNoteWritesKeepsInv`) replaces one that is kept, and `NoteHistoryKept`
follows. `DecisionsInv`: every decision is about a version its membership has left
behind (`Settled`), and versions only grow, so the next decision is about a version
none was about: `OneOfTwoOfficersIsRefused`. `HonorsInv`: an edit whose version is
still the grant's carries the end the grant has or the one it names, which is
`LastAskedEndAlwaysHolds`. `TimelinesAreNewest` and `QueueIsWalked` hold in every state for
what lists are: of two lists cut to their newest and one that is not, the merge cut
again leaves out an event only for a whole page of events no older, and pages that each
ask for one row more than they show meet every application once, in the order they were
made.

**Accounts and relationships** (`AccessProofs`, about `SignIn`'s specification).
`OneRevocationEndsAccess` rests on `OneOfAPair`: two grants in force of one pair are
one grant, so the first one in force, which a revocation picks, is the only one.
`InvitedRoleIsGranted`: role grants only grow (`RolesGrow`), and each account of the
next state was there with the same invitation, was invited to nothing or holds its
role by then (`AccountsAreWelcome`). These two leave open which values accounts are, so
nothing is assumed of what links and pages name. `RelationsStayHistory` follows from
`LinesStand`: no step moves the ends of a line, or anything of an archived one.
`MailsAreBounded`: the mails a count allowed and that are recorded within the window
*plus the calls that such a count allowed and that have yet to record theirs* number at
most the limit and the calls that
may overlap, less one (`MailsInv`); counting one more needs a free call
(`CallsAreCounted`).

**Import** (`ImportProofs`). `ClosedRunsAreFinal` from `RunsInv`: while the version a
call has read is the run's, the run is not closed; every write of a run raises its
version (`Advances`), so calls that were begun before the end are stale after it.
`NothingIsGuessed` from `RulingsInv`: a row that needs an officer keeps its flag until
somebody has said something about it, and takes an action that lands only from a
recorded ruling. `CommitLandsOnce` from `LandsInv`: a run has nothing in the history
before it is committed, and `RunsInv` lets one commit through.
`ReimportsDoubleNothing` goes through the commit statement by statement: each of them
keeps the tables `Harmless` (no import writes a sentence a person has, a date it has
decided for a membership or a lifetime grant beside one that stands, and an external id
names one person), so does a row (`ApplyRowIsHarmless`), and so do the rows of a file
together. For that last step `FoldExists` builds the fold, which is a recursive function
on sets of rows, up by the number of rows, and `FoldIsHarmless` takes a smallest set of
rows that would do harm. What officers write meanwhile does no harm either
(`OfficersDoNoHarm`): the invariant says who wrote a note and a grant, and lets an
officer double what is there. The theorem assumes of the constants that what is on file
at first is as an import and officers could have left it (`NothingTwiceAtFirst`:
`CoveredOnce`, `GrantedOnce`, `NotedOnce`, `NamesOne`; empty tables are), and that a row
has finitely many sentences (`FilesAreLists`).

**Directory** (`DirectoryProofs`). `WithheldStaysWithheld`: a choice is stored after the
choices its instant follows (`ChoicesInv`), so the latest by instant and place in the
history is the one the query picks. `PagesAreTheList` is about the lists: the order of
either list is total, and a page is a piece of it.

**Lists** (`RankingProofs`). `RankedIsSorted`: in a strict total order the ranks of a finite
set are told apart and are as many as its elements, so each is somebody's.
`AscendingIsSorted` for numbers. `LeastNumber` and `MinimalSubset` are what stands in
for induction in all proofs: a least counterexample.

Two definitions were corrected because a proof would not go through: the guards of a
`CASE` that overlapped (`Roster`, `ImportRun`, where the first one was meant), and the
requester missing from `SameRequest`.

Model-checked only: `NoLockIsForever`, which is liveness and out of the prover's reach.
The disagreement of `signin_relock` is a counterexample and needs no proof. The
constants that are bounds of TLC (`BatchLimit`, `RunLimit` and the like) are arbitrary
numbers in the theorems.

## Plan

The components that decide something are modelled, and their safety properties proved.
What is left, in this order:

1. `DraftGrid`: a screen that saves row by row with ids and versions kept on the
   client, retries with keys, and the reuse of row ids.
2. The import's writes over `Records` and `Ledger` themselves in place of its own
   tables, once an instance small enough for a run is found.

## Not modelled, and why

* **Authorization catalog**: a constant table from roles to capabilities. Outside
  `SignIn`, where an officer's step needs a session and a role in force, models start
  where the caller holds the capability; the one rule that depends on state,
  that nobody reviews their own sensitive change, is in `ApprovalAllowed`.
* **Dues rates and suggestions** (`SetRate`, `SuggestFor`): a rate is one version-guarded
  row a year, and it only offers amounts; no payment is validated by it.
* **A failed reset of the failure count after a right password**, which the code ignores
  (`authn/service.go:90`): the session is made and the count stays. The reset at the end
  of a lock, ignored likewise, is modelled.
* **Sessions' `last_seen_at`**, the version column of `users`, `RevokeAllForUser` and
  `Rotate`, which no caller uses.
* **The profile and the member's form about somebody else**: reads, and one remark
  filed as any other item.
* **Text searched for** in the directory, spelling of names and numbers, and reading
  the roster's file.
* **HTTP transport, rendering, flash messages, CSV layout**: decoding, wording and
  headers around the service calls.
* **Audit log and observability**: written after the fact, read by no decision.
* **Password hashing, pepper, cookies, client addresses, backup encryption, mail**:
  computations on bytes, or delivery by an outside server.
* **Generated queries and migrations**: modelled where a service uses them, as the
  rows and constraints of the modules above.
