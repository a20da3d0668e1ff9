# Verification of the scheduling system

TLA+ models of the Ultrakil scheduling system, model-checked with TLC and,
where it matters most, proved with TLAPS: the API and its workers
(`src/apps/api`, NestJS over PostgreSQL), the solver (`src/services/scheduler`,
Python and CP-SAT) and the manager portal (`src/apps/manager-web`). Every
definition is written from the code; the comments in the modules name the
functions, and `PROJECT.json` maps each definition to the lines it stands for.

Contents: 1 the system, 2 the modules and how they correspond to the code,
3 the runs, 4 what the violations show, 5 what is proved, 6 what is only
model-checked, 7 disagreements noted without a run, 8 not modelled, 9 what is
left.

## 1. The system

A manager's schedule goes through five stages, each a component of its own:

| Stage | Code | State it keeps |
|---|---|---|
| Agreements become dated visits | `scheduling/visit-generation` | `generated_visits` (date, window, status, lock, hand-edit flag), `repair_bunching_batches` |
| A **schedule run** is queued, delivered, solved and finished | `scheduling/optimizer/schedule-run*.ts` | `schedule_runs` (status, cancel flag, execution lease, attempt, job id), `schedule_run_dispatch_outbox` (generation, status, message, terminal failure) |
| The solution is written next to what managers do by hand | `persistResult` in `schedule-run.service.ts`, `eligibility/assignments.service.ts`, `visits/visits.service.ts`, `optimizer/*-lock.ts` | `assignments`, `assignment_locks`, `visit_unassigned_reasons`, visit dates |
| A run is published | `optimizer/publishing.service.ts` | assignment status, `publishedAt`, run status, `assignment_notification_outbox` |
| Published work is repaired | `scheduling/repair` | `published_assignment_repairs` (idempotency key, plan hash), superseded and replacement assignments |

Around them stand the eligibility rules (a verdict on one crew, one time, one
visit), the capacity of a branch-day, the CP-SAT solver (a separate process),
the read models of the dispatch board, the calendar and the queue, the master
data (customers, sites, agreements, employees, vehicles and two workbook
imports), an operator's tool that gives a staging branch synthetic teams, and the
manager portal, which fetches, polls and fences answers.

Components of the API interact through PostgreSQL rows only, at READ
COMMITTED, and through one external queue. The deployment chooses the queue:
**BullMQ** (own worker process, heartbeat on the lease, three attempts) or
**QStash** (HTTP deliveries with a budget, three retries, then a signed failure
callback). The portal interacts with the API through HTTP requests whose
answers may arrive in any order, late or never.

### What each component must get right

* **Run execution and dispatch.** At-least-once delivery, crashes, timeouts,
  redrives and cancels race over two rows. One result at most; a cancel keeps
  the result out; a live attempt is not disturbed; every run ends; what the
  manager polls follows one simple status machine.
* **Guarded persistence and publishing.** A solve works on a snapshot for
  minutes. A stale visit must refuse the whole result; a pinned crew or a day
  chosen by hand survives; nobody is booked twice by writers of different
  visits; a move never overfills a branch-day; what was published never changes
  again and its run is closed.
* **Repair.** Preview, approve, apply: applied once per idempotency key, never
  over a changed source; history keeps a line of descent; the crews are told
  what holds; a proposed plan can be applied and heals.
* **Generation.** Planned outside the transaction, applied under locks; what a
  person holds is kept, a run writes only what it was asked about, adding work
  does not overfill a day, a second run is quiet, the report is true, and the
  ledger of a bunching repair names the visits it moved.
* **Solver and eligibility.** The solver's constraints and the engine's
  questions are two statements of one set of rules; they must agree, or every
  run leaves work out that could be staffed. The rules they read from different
  data, the stations, are where they do not.
* **Read models.** Five views pick among the assignments of a visit by rules of
  their own; they must tell one story.
* **Master data.** Edits, activations and imports meet; no edit may bring back
  what another changed, an import may not override a manager, and the synthetic
  teams taken away may not be the ones at work.
* **Portal.** A screen at rest shows what its filters or its link ask for; what
  is confirmed, saved, published or applied is what was shown and signed; no
  spinner stays.

`PROJECT.json` lists the hazards of this code with the line where each bites
and the property that covers it.

## 2. Modules

| Module | Models |
|---|---|
| `RunLifecycle` | Abstract: what a run promises the manager who polls it. |
| `ScheduleRun` | The protocol: run row, outbox row, queue, workers, reconcilers, managers. |
| `ScheduleBoard` | Abstract: the board managers and crews look at, whoever writes it. |
| `ScheduleWriters` | All writers of assignments and visit dates, statement by statement: solve, manual changes, hand edits, pins, publication, withdrawal. |
| `PublishedRepair` | Preview and apply of a repair under an idempotency key, beside draft writers and publication; revisions, intents, recorded answers. |
| `RepairPlanner` | How a plan of a repair is proposed. Extends `PublishedRepair`. |
| `ReadModels` | The board of a day with its lineage, the calendar, a visit, the queue with its facets, an employee's list, over the rows of `PublishedRepair`. |
| `VisitPlanning` | From agreements to dated visits: cadence, pinning, load guard, difference. Operators only. |
| `GenerationReport` | What a preview and a confirm say beside the plan. |
| `VisitGeneration` | Confirm, rolling horizon and bunching repair as a protocol of reads, plan and guarded transaction. |
| `Eligibility` | `evaluateAssignment` and the crew picker. |
| `DayForecast` | The capacity of a branch-day and the proof that a day is impossible. |
| `Solver` | The request, the constraint model, the phases of a solve, its reasons, and the checks made of the answer. |
| `PlanForecast` | What generation would say of the days a solve has planned. Extends `Solver` and `DayForecast`. |
| `MasterTables`, `CatalogRecords`, `WorkforceRecords`, `SyntheticCapacity`, `MasterData` | The tables; requests on customers, sites, agreements and the schedule import; requests on employees, vehicles, grants, absences and the matrix import; the synthetic capacity tool beside the managers who assign its teams; all three together. |
| `Browser`, `ListScreens`, `UnassignedQueue`, `RunHistory`, `PublishDialog`, `CrewEditor`, `RepairDesk`, `ManagerWeb` | A screen and its requests; the screens with rows under filters; the queue of visits without a crew and the drawer of one visit; the run list; the run a link names and the publish dialog; the crew editor; the repair centre; all of them with one user. |
| `MC...` | Instances for TLC: constants, symmetry, the states earlier work left. |
| `...Proofs` | Theorems and proofs, see section 5. |

Operators whose comment begins with `Mutant` are not part of a specification.
They are the definition next to them with a plausible bug put in; for every
property of a passing run there is one under which TLC refutes that property.

### `ScheduleRun`

One action is one SQL statement or one transaction, with the reads of that same
statement. Wherever a handler reads, then awaits, then writes, there are two
actions with a program counter between them, so that all other processes can
act in between.

* `run`, `outbox` are the two rows. A lease is named by the attempt number that
  claimed it, an outbox generation by a number, a message by its position in
  `sent`; 0 is NULL. `run.live` says whether `executionLeaseExpiresAt` is in the
  future, `outbox.stale` whether the last attempt to dispatch is more than five
  minutes old. These are the only two things the code does with time.
* `wk[w]` is a delivery in a worker (or in a QStash execute request):
  `Deliver` (the `isCurrentDispatch` check), `ReadRun`, `SettleCancelled`,
  `Claim`, `ReadAgain` (`claimExecutionLease`), then `Progress`,
  `CheckCancelled`, `Throw`, `Commit`, `MarkCancelled`, `Done`
  (`executeLeased`), `GiveUp` (the catch in `deliver`), `HeartbeatMissed`.
* `rc[r]` is a request that runs recovery code: `Sweep` (`reconcilePending` and
  `reconcileDispatch`), `ReadDispatch`/`Enqueue`/`RecordPublished`/
  `RecordAttemptFailure` (`dispatch`), `Redrive`, `SettleCancellation`/
  `CloseOutbox`, and the statements of `failScheduleRunForQStash`, entered from
  the failure route (`Callback`) or from a sweep.
* `mgr[m]` is a cancel request: the read, the unconditional update, the outbox,
  the remote cancel.
* `queue` is the external queue, a set of messages with the deliveries left; it
  does not order them. `left = 0` is QStash's failure callback.
* `committed` is a history variable: the attempts whose `persistResult`
  transaction committed.
* Faults: `Crash` and `ReconcilerCrash` (a process dies between two
  statements), `Redeliver` (a delivery that is still being worked on is handed
  out again), `EnqueueFails` (a publish, its reply, or its record is lost),
  `CallbackLost`, QStash forgetting a deduplication id (in `Enqueue`),
  `LeaseExpires` under a running owner, `BecomeStale` while a message is under
  way. Each spends one of `MaxFaults`. A solve that throws is not a fault: it is
  allowed at any time.

Assumptions: all processes agree on the time (the code compares with
`new Date()`); the claim, one conditional update whose filter also looks at the
outbox row, is atomic; a transaction that PostgreSQL aborts had no effect. The
first two are listed as hazards. Prisma may load an `include`d row with a second
SELECT; the model takes such a pair as one read, since every write that follows
checks its conditions again. `SUPERSEDED`, the status a later publish gives
a run, is not modelled here: no handler of this protocol tells it from another
settled status. The content of a schedule is "committed or not".

### `ScheduleWriters`

`visits` and `rows` are the generated visits with their assignments, `runs` the
counters and publication of runs, `tx[p]` the transaction of a solve or of a
manager, `visitLock`/`crewLock`/`dayLock` the row locks. A transaction goes
`begun` (what was read outside) → `visits` (visit locks held), and then for a
solve → `days` (crews locked, every entry compared with its visit, branch-days
locked and counted; `JudgeEntry` decides the entries in any order, a step each)
→ `SolveCommit`; for a manager → `checked` (what the screen showed was compared)
→ `judged` (employees locked, crews judged) → commit. An abort is possible
anywhere. `Manage` is assign, unassign, adjust, lock and unlock of pins, and
publish. A day has one
slot, so two bookings of an employee clash exactly on one day; the other
eligibility rules may refuse any crew at any time. A set of locks is taken in one
step: their order matters only for deadlock, which the code excludes by one
global order. A vehicle is booked and locked like an employee and is left out.

`ScheduleBoard` has the state of the board only: the day and the crew of each
visit, and whether the crew was told. `ImplementsBoard` is the refinement.

### `PublishedRepair`, `RepairPlanner`, `ReadModels`

A call to apply goes through the statements of
`published-assignment-repair.service.ts`: key lookup, preflight, visit locks,
employee locks, the second preview, the comparison with the reviewed plan, the
conditional supersession, the notification intents, the recorded answer. A
preview is what the administrator holds; a repeated request carries the same or
another form under the same key. A hash is the value it is taken of, a
fingerprint the facts it covers. The draft writers are one step each (their
interleavings are `ScheduleWriters`). `RepairPlanner` says which plans
`preview` may propose for a selection of assignments: what is withdrawn, what
is sent to the solver, whom nothing but the sources keeps busy. `ReadModels` are
the queries of the five views and what the portal's client makes of an answer;
each is an operator over the same rows, and the two queries of the board read
two states when a repair lands between them.

### `VisitPlanning`, `GenerationReport`, `VisitGeneration`

`PlanOf(ask, seen, visits)` is `build`: `Required` (whole or booked periods,
preferred days, alternatives), `Honoured` (a period with a protected visit is
planned onto its day), `Guarded` (spread, shed and ease over the days),
`Difference` (adds, updates, removals, with the crew-minutes, hours and loads the
transaction will compare). `seen` was read first, the range after it. In
`VisitGeneration` a confirm is `Confirm` or `ReadAgreements`, `ReadRange`, then
`Apply` or `Refuse` by the checks of the transaction; a sweep and a repair are
sequences of confirms; a repair claims a batch under its key, records each move
in a statement after the confirm that made it, completes or fails the batch, and
may crash anywhere. Agreements are numbered in creation order, agreement and
day identify a visit, day feasibility is the case of visits forced to one hour.
The report is a function of the same two reads as the plan, so a job carries no
copy of it.

### `Solver`, `Eligibility`, `DayForecast`, `PlanForecast`

A database of three visits, three people and a van is chosen, then asked,
answered and judged. The request is `buildSolveRequest`; the constraint model of
a window is the set of plans it allows; CP-SAT finds any of the best of them or,
when it runs out of time, any. `LocksComeFirst` and `GapsAreHonest` speak of
windows that were solved to the end. Preferences only break ties and are left
open. `Eligibility` is asked of every entry of the answer; `DayForecast`, in
`PlanForecast`, of every branch-day of it. `IsSnapshot` says what the schema and
the writers of its rows guarantee of a database. The competing queues of the
lookahead are a search by rounds in the code and the least closed set here.

### Master data

A request reads, locks and writes in the transactions of its service. The
schedule import is one transaction that works row by row: a site or an agreement
is looked up and written in two steps, `held` and `existingSites` are what it
could lock at its start, `tx` what it has written. The matrix import is one for
the whole matrix; besides the rows it locks at its start it waits for the
authorizations that another open import has deleted or moved (`Unwritten`), as
`delete` and `update` wait for a row (an attempt to prove `MatrixStands` without
that wait failed, and TLC then found the two imports that break it). The synthetic capacity tool takes its branch, reads what is
asked for and every row of its own, locks those rows, reads whom live assignments
rely on, and writes; a dry run only reads and is left out. No request is about
rows of two of the three parts, so in a behaviour two of them are idle.

### The portal

React runs a render and its effects before the next click, so they are one step
with the event that caused them. A handler that awaits resumes with the values of
the render it was made in: those values travel with the request. A fence is a
generation counter the code compares when an answer comes back, and is modelled
exactly where the code has one.
Three marks record what a late answer may still do where the code has no fence,
and the properties exclude exactly that (see section 7): `lists.astray`, a
handler begun under another question reloads its own, or an overtaken answer of
the queue lands last; `lists.late`, the same in the detail drawer; and
`desk.plan.turned`, a tick withdrawn while a plan is being built.
In `PublishDialog` the run list is refreshed at any moment (when it really is read
is `RunHistory`), and `lists.signed` remembers for which run a doubt was ticked.

## 3. Runs

Deadlock checking is off everywhere: with nothing queued, no edit left and every
request answered these systems really have nothing to do.

| Run | Instance | Question and answer |
|---|---|---|
| `run_bullmq` | 2 workers, 1 reconciler, 1 manager, 2 deliveries, 2 faults; `FairSpec` | `AtMostOneResult`; `NoStrandedRun` (a run still to be worked on keeps an open outbox row); `LiveRunIsOwners` (while a lease is live only its owner, or a cancel, takes the run out of RUNNING); `ImplementsLifecycle`; `EveryRunEnds`; `CancelStopsRun`. All hold, 1.1 million states. |
| `run_qstash` | 2 workers, **2** reconcilers, 1 manager, 2 deliveries, 1 fault | `LiveLeaseIsCurrent` (a live lease belongs to the dispatch on record), `JobIsOutboxMessage` (a cancel names the job that is out), `NoWriteAfterCancel`. Hold. |
| `run_cancel_lost` | 1 worker, BullMQ, `FairSpec` | Violates `CancelSettles`. |
| `run_callback_strands` | 1 worker, QStash | Violates `NoStrandedRun`. |
| `schedule_writers` | 2 visits, employees, days and runs, 1 manager; 2 hand requests, work of at most 2 a visit | `NobodyDoubleBooked`, `BoardTellsTheTruth` (one live assignment, on the day of its visit; status, queue and reason agree), `SystemMovesFit` (where a solve moved work the day is within capacity), `PublishedRunIsWhole`, `DecisionsHold` (what crews were told, pinned crews and days chosen by hand survive every later writer), `SolveOverwritesWhatItRead`, `ImplementsBoard`. All hold, 3.0 million states without symmetry. |
| `withdrawn_visit` | the same | Violates `SolvesOnlyWhatItMaySave`. |
| `repair` | 2 visits, employees, calls and keys, 2 requests or edits, a lineage of 3, one midnight | `CalendarHolds`, `AnswerIsRecorded`, `PlansHeal`, `ViewsTellOneStory`, `ReviewedIsApplied`, `HistoryIsTold`. All hold, 0.6 million states. |
| `generation` | 2 agreements, 3 days in periods of 2 and 1, 2 processes, 2 jobs, 1 hand step, 1 edit, 1 key | `LedgerTellsWhatLanded` (the moves of the calendar, and exactly those, are in the ledger of their key), `WritesOnlyItsOwn`, `AddingKeepsTheCap`, `SecondRunIsQuiet`, `ReportIsHonest`. All hold, 0.4 million states. |
| `generation_over_cap` | the same with 1 process, no hand step, days that carry both agreements, and an agreement whose crew can be reduced | Violates `GuardHoldsTheCap`. |
| `solver` | some 900 databases: 3 visits of 2 agreements at 2 sites, 3 people, a van | `AnswerIsSavable` (the engine refuses a visit exactly when somebody's station there is of other days, and nothing throws the result away), `LocksComeFirst`, `GapsAreHonest`, `PickerAgrees`, `RefusedDaysAreImpossible`. All hold. |
| `master_data` | 3 requests, 3 rows of each table, 2 imports; 2 synthetic teams | `CatalogCoheres`, `EditKeepsTheRest`, `ManagersWordStands`, `WorkbookIsBooked`, `WorkforceStands` (grants, absences and the matrix agree; a crew with live work is never switched off). All hold, 0.5 million states. |
| `manager_web` | each screen alone; 7 clicks on the repair desk, 6 on publishing, 3 on history and dispatch, 4 elsewhere; 3 polls; fairness | `ScreensShowWhatIsAsked` (rows answer the filters, the page, the link), `ActsOnWhatIsShown` (what is confirmed, saved, locked, published or applied is what is shown and signed), `ScreensComeToRest`. All hold, 1.3 million states. |

### Bounds, and why they are enough

* **`ScheduleRun`.** `MaxFaults` is the only bound; attempts, generations and
  messages grow with it and with the deliveries left. Two deliveries per message
  give one that is retried and one that is last, the only distinction
  `retryOnFailure` makes (the code has three or four). Two workers are an old
  owner and its successor; the properties compare two attempts. Two faults
  allow a crash followed by a lost publish, or a duplicated delivery whose first
  copy loses its lease. Two reconcilers with one fault make the sweep race the
  sweep and the callback.
* **`ScheduleWriters`.** A conflict needs two visits on one day and one shared
  employee; a move needs two days; a stale result needs a solve and one writer
  who committed in between, and an overfull day two solves that counted at once.
  `MaxEdits = 2` gives a pin and its removal, or an assignment and its
  publication, inside one solve. The horizons of the two runs overlap in one
  visit.
* **`PublishedRepair`.** Two calls and two keys give the same request twice, two
  requests under one key, and two plans. At the one midnight work of the future
  becomes work of today, so that what was reviewed needs an acknowledgement it did
  not ask for; work of a day gone by, which a guard of the preview refuses, is left
  to the theorems. `MCLegacy` starts with a visit that has
  two published assignments, as data from before the guards may have, because
  several operators exist only for it. A lineage of 3 (10 in the code) is the
  shortest that can be cut in the middle.
* **`VisitGeneration`.** Two agreements compete for a day; a period of two days
  has an alternative; a third day in a period of its own can be clipped off. One
  hand step and one edit between any two reads are what a guard must notice; two
  jobs race. `Starts` hold what earlier generations, edits and releases leave.
* **`Solver`.** Pins, preferred days, leave, a van, work across midnight and
  published crews occur in every combination the three visits can have; stations
  last, hold on one of the two days, change from one site to the other, or are
  over; windows are split as `LookaheadLimit` does.
* **Master data.** Three requests are a reader, a writer and an import; three
  rows of each table leave room for two creations. The four matrices
differ in whom they name and in the vehicles they list, so that two imports open at
one time may share a person, a vehicle or only an authorization. The capacity tool meets a
  manager who judges, one who commits, and a second call of itself.
* **Portal.** Two questions per screen distinguish "mine" from "another's"; the
  clicks are enough to leave a question, return to it and act; the repair desk
  needs seven for a review, an application whose answer is lost, and a retry; the
  publish dialog four to sign for one run, leave it and publish another (leaving and
  giving the reason happen once per opening and are not counted).

Symmetry is used over processes, keys, visits and employees where the model
treats them alike, and never in a run with a liveness property.

### Fairness

`ScheduleRun!FairSpec`: workers and the queue deliver (weak fairness of each
worker's steps); a handler that began goes on unless a fault takes it; sweeps
recur (the polling endpoints run `reconcilePending` on every list request, the
QStash deployment has a scheduled signed reconcile route); an unowned lease runs
out and an outbox row with nothing in flight becomes stale, because time passes.
Managers never have to cancel and faults never have to happen. `EveryRunEnds`
allows one other end, QUEUED with the cancel flag: the state `run_cancel_lost`
finds, and the property says it is the only one.

`ManagerWeb`: every request is answered or fails in the end (`fetch` settles), the
history's oldest poll included; users and timers owe nothing. The other specifications state no
fairness and have safety properties only.

## 4. What the violations show

1. **A cancel is lost** (`schedule-run.service.ts:2149`, `run_cancel_lost`). The
   read saw RUNNING, the worker released the lease for a retry, and the
   unconditional update leaves `QUEUED` with `cancelRequestedAt`: no delivery,
   sweep or recovery clause matches it.
2. **A failure callback strands a run** (`schedule-run-recovery.ts:191`,
   `run_callback_strands`). The first statement sees a live lease, the worker
   releases it, the third reads QUEUED, consumes the marker and cancels the
   outbox. The run is neither failed nor retried.
3. **A withdrawn visit makes every later solve fail**
   (`schedule-run.service.ts:950`, `withdrawn_visit`). A visit whose published
   crew a repair withdrew is offered to the solver, and `persistResult` then
   refuses the whole result because of its publication history.
4. **The load guard reads a day as lighter than it is** (`load-guard.ts:241`,
   `generation_over_cap`). A held visit that the run re-plans is counted with
   the crew of its agreement today, not with the crew on its row, so unbooked
   work is added to a full day.

## 5. Proofs

The proof modules hold for every value of the constants allowed by the
`ASSUME`s of the modules they extend: any number of workers, runs, visits,
employees, days, agreements, requests and keys, any bound on faults and edits.

| Module | Theorem | Statement |
|---|---|---|
| `ScheduleRunProofs` | `TypeCorrect` | `Spec => []TypeOK` |
| | `OneResult` | `Spec => []AtMostOneResult` |
| | `ResultIsFinal` | `Spec => []ResultEndsRun` |
| | `NoResultAfterCancel` | `Spec => NoWriteAfterCancel` |
| | `Refinement` | `Spec => ImplementsLifecycle` |
| | `OwnerOfCurrentDispatch` | `Spec => []LiveLeaseIsCurrent` |
| | `OwnersRun` | `Spec => LiveRunIsOwners` |
| | `JobOnRecord` | `Spec => []JobIsOutboxMessage` |
| | `NoneStranded` | `Provider = "BULLMQ"` gives `Spec => []NoStrandedRun` |
| `ScheduleWritersProofs` | `TypeCorrect` | `Spec => []TypeOK` |
| | `OneAssignmentInForce` | `Spec => []OneLiveAssignment` |
| | `NobodyInTwoPlaces` | `Spec => []NobodyDoubleBooked` |
| | `BoardAgrees` | `Spec => []BoardTellsTheTruth` |
| | `WritersImplementBoard` | `Spec => ImplementsBoard` |
| | `HandDatesAreKept` | `Spec => HandDatesHold` |
| | `SolveReadIsCurrent` | `Spec => SolveOverwritesWhatItRead` |
| | `PublishedStays` | `Spec => PublishedFrozen` |
| | `PinsAreKept` | `Spec => PinsHold` |
| | `DecisionsAreKept` | `Spec => DecisionsHold` |
| | `PublishedRunsAreWhole` | `Spec => []PublishedRunIsWhole` |
| | `MovesFit` | `Spec => []SystemMovesFit` |
| `PublishedRepairProofs` | `RepairHolds` | `Spec => []RepairInv` |
| | `CalendarAlwaysHolds` | `Spec => []CalendarHolds` |
| | `AnswersAreRecorded` | `Spec => []AnswerIsRecorded` |
| | `WhatWasReviewedIsApplied` | `Spec => ReviewedIsApplied` |
| | `HistoryNeverChanges` | `Spec => HistoryIsImmutable` |
| | `PlansAlwaysHeal` | `Spec => []PlansHeal` |
| | `StoryHolds` | `Spec => []StoryInv` |
| | `OneStoryIsTold` | `StoriesFit` gives `Spec => []ViewsTellOneStory` |
| | `HistoryIsAlwaysTold` | `StoriesFit` gives `Spec => HistoryIsTold` |
| `VisitGenerationProofs` | `GenerationTypeCorrect` | `Spec => []TypeInv` |
| | `OnlyItsOwnIsWritten` | `Spec => WritesOnlyItsOwn` |
| | `LedgerIsTrue` | `Spec => []LedgerInv` |
| | `LedgerTellsTheTruth` | `Spec => LedgerTellsWhatLanded` |
| | `AddedWorkFits` | `CrewMinutesKept` gives `Spec => AddingKeepsTheCap` |
| `MasterDataProofs` | `CatalogStands` | `Spec => []CatalogInv` |
| | `CatalogAlwaysCoheres` | `Spec => []CatalogCoheres` |
| | `EditsKeepTheRest` | `Spec => EditKeepsTheRest` |
| | `ManagersWordIsKept` | `Spec => ManagersWordStands` |
| | `WorkbookIsAlwaysBooked` | `Spec => WorkbookIsBooked` |
| | `CapacityStands` | `Spec => []CapacityInv` |
| | `LiveCrewsAlwaysStand` | `Spec => LiveCrewsStand` |
| | `WorkforceRecordsStand` | `Spec => []WorkforceInv` |
| | `GrantsAlwaysStand` | `Spec => GrantsStand` |
| | `MatrixAlwaysStands` | `Spec => MatrixStands` |
| | `PeopleStand` | `Spec => WorkforceStands` |
| `SolverProofs` | `SolveHolds` | `Spec => []SolveInv` |
| | `AnswersAreSavable` | `Spec => []AnswerIsSavable` |
| | `LocksAlwaysComeFirst` | `Spec => []LocksComeFirst` |
| | `GapsAreAlwaysHonest` | `Spec => []GapsAreHonest` |
| | `PickerAlwaysAgrees` | `Spec => []PickerAgrees` |
| `ManagerWebProofs` | `PortalHolds` | `Spec => []PortalInv` |
| | `ScreensAlwaysAnswer` | `Spec => []ScreensShowWhatIsAsked` |
| | `ActsAreOnWhatIsShown` | `Spec => []ActsOnWhatIsShown` |

`FoldTheorems` is a library beside them: what the folds and sums that the
generation, the read models and the solver are built from keep, count and return.

### The run

*Types.* `TypeOK` is not inductive alone: a redelivery subtracts from the
deliveries left, and a handler looks up the generation of its message. `TypeInv`
adds `MessagesOK`: what a process or the queue holds is a message that was sent,
and has a delivery left while it is being worked on.

*Results.* The lemma `Effect` reduces every step to one of five effects on the
run: it keeps the status, restarts or fails an uncancelled active run, finishes
one (the only effect that adds a result), records a cancel, or stops a cancelled
RUNNING run. It needs one auxiliary invariant, `MarkMeansCancel`: a worker about
to mark its run cancelled has read the flag, and the flag is never taken back.
`ResultInv` is inductive: a result is committed only by a RUNNING run, which by
`ResultEndsRun` has none yet, so `AtMostOneResult` follows. The action property
and the refinement follow from `Effect` case by case.

*The lease.* `LiveLeaseIsCurrent` says nothing of a lease that has expired, and
`LiveRunIsOwners` nothing of what a sweep remembers, so neither is inductive.
`LeaseInv` adds three facts. Leases are numbered by attempts, so the next one is
new to everyone (`LeasesNumbered`); a lease that a reconciler found expired is
never live again (`DeadStaysDead`); and the owner of the lease, live or not, was
delivered by the current dispatch (`OwnerIsCurrent`), because the only step that
changes the generation drops the lease with it. A redrive or a failure callback
that reached a live run would need a dead lease equal to the live one, which
`DeadStaysDead` excludes.

*The dispatch.* `JobStep`: each step leaves the job id and the outbox message
alone, sets both, or fails the run. `OpenInv`: without failure callbacks there is
no terminal marker, and the two places that close the outbox are reached only
after a cancel flag was written.

### The writers

The argument goes from locks to rows. `Locks` says which rows each transaction
has locked at each point; from it, `StillFound`: whatever a transaction compared
under a lock is still as it found it, until it commits. `BoardInv` (one live
assignment, on the day of its visit; identities never reused) and `AllClear`
(whoever is judged to be free is free of everything that is committed and not
locked by another) are then inductive, and `NobodyDoubleBooked` with them: two
writers that judged one employee both held the lock of that employee. The
refinement of `ScheduleBoard` follows, as every commit of a judged crew is a
legal step of the board and every other step leaves the board alone.
The theorems about decisions read each action property off the same invariant.

`PublishedRunsAreWhole` needs the life of a run as an invariant: a run is told to
crews only after it was published, a publication covers every draft of its run
under their visit locks, and a run that has finished makes no more rows.
`MovesFit` needs that the ledger of a solve is an upper bound of what the day
carries for as long as it holds the branch-day lock: others may only take work
away, place it by hand or have it wait for the lock.

### The repair

`RepairInv` has four layers. Rows are numbered and every superseded row is named
by exactly one recorded operation. Locks: a call past its locks holds its visits
and employees. What a call judged under them still stands: fingerprints, live
rows, absences of people it will book. The answers recorded are those of the
form sent. The theorems read the properties off it; the only assumption beyond
the types is `LegacyAssumption`, which says what data from before the guards may
look like. `PlansAlwaysHeal` is about the planner on any such board: an
assignment in force is found again by its number (`SourceOnBoard`), every plan is
what an answer of the solver makes of the selection (`PlansAreAnswers`), and what
the request to the solver excluded (`AnswersAreFree`) is all that the review asks
about. That the solver serves as many as it can is not needed.

### The read models

Who replaced whom is found by following `supersedesAssignmentId`, so what a
screen tells depends on the shape of that relation, which the repairs make.
`StoryInv` is that shape: the assignments published before the guards replaced
nothing and are all there; the first that a repair wrote replaced one of them,
every later one its predecessor; and either no repair has touched the visit or
only its newest assignment may be in force. `StoryHolds` proves it inductive on
top of `RepairInv`: a repair must have named the assignment in force, and a
draft that is published is the first of its visit.

From it the lineage is written down, not computed. The visit's published versions
are `Versed`: in the order of their dates, the old ones but the one replaced stand
alone and the rest are a chain. `AppendChain` and the two passes over the versions
are folds, so `RunsAgree` (a fold that has the right value before each turn has it
at the end) gives the history version by version (`LineageIs`), and with it that
each version is told once and behind the one it replaced, and what the cut leaves
out (`HistoryIs`, `StoryIsTold`). The other half is what each view picks. The
board, the calendar, the visit and the queue choose by rules of their own; for a
versed visit each choice is shown to be the newest live assignment or none
(`DispatchIs`, `LiveIs`, `StateIs`), so the rows agree, and the totals of the board,
of the queue and of its facets count the same visits (`TotalsAgree`).
`HistoryIsAlwaysTold` is about two moments: the rows of the first query and the
versions of the second, one repair later (`StoryGrows`: what was live is still a
version). `ReceivedHistoryIs` says what the portal makes of a response with a field
or an entry it cannot read, and `PortalClaims` that it is never more than was told.

The hypothesis `StoriesFit` is that there are finitely many visits and that fewer
assignments of a visit were in force before the guards than a history has entries
(10 in the code, 3 in the instance of `repair`, which satisfies it with 2). It cannot
be dropped: with more, the cut may leave out the one that is dispatched, as
section 7 notes.

### The generation

The planning is a chain of folds over agreements and days, so its proof needs an
induction over data, which the library's theorems cannot give here (they take an
operator as a parameter). It is done by hand once, in `FoldTheorems`: `LeastOf` (a non-empty set of
naturals has a least element), from it `RecursionExists` and `FoldExists` (the
function a fold chooses exists), and `RecursionKeeps`/`FoldKeeps` (what the start
has and each turn keeps, the end has). With these the guard is shown to keep a
placement within each requirement's own period (`SpreadKeeps`, `ShedSettles`,
`EaseKeeps`, `GuardedSettles`), whatever choices it makes, so that a plan touches
only the agreements, range and periods of its ask (`PlanOfIsWithin`). `TypeInv`
carries that fact in a job from the plan to the transaction, over any edits in
between: `MayWrite` is stated in terms of what a manager may ever agree to, not
of what is agreed now. `OnlyItsOwnIsWritten` adds what the transaction checks:
nothing it rewrites or removes is held, and where it adds nothing stands.

What landed is read off the calendar: `landed` takes an entry for every confirm of
a repair that changed it, with the visits that came and those that went
(`Change`), whether the code records that confirm or not. `ApplyLands` shows that
for an accepted plan this is what the code counts from the plan (`PlanIsChange`:
what is added was not there, what is removed was). `LedgerInv` then has one clause
per state of a key. At most one process works under it; the moves that landed are
the moves recorded, but for one between a confirm and the statement that records
it; a key without an open batch has nobody at work. The
step that could break it is a claim: it succeeds only on a key nobody has ever
claimed, and a crash leaves the batch open, so nobody claims it after. A step
that does not touch a key's ledger keeps its clauses (`NothingNewUnder`,
`KeyKept`); the others are the claim, a confirm that moved something, and the
writes to the batch.

`AddedWorkFits` is about the cap. What `MapThenSumSet` counts of a finite set is
shown to take in or lose an element at a time (`SumTakesOne`, `SumRemoves`), to add
up and to grow with its parts (`SumAdds`, `SumDominated`), so the guard's load of a
day is a sum over the requirements put on it and the visits left standing
(`PlannedIsSum`). The pinning leaves no agreement twice on a day and nothing pinned
free to move (`HonouredIsTidy`). A turn of the guard then takes a placing to one in
`Onward`: it never fills a day that fitted, and a day that is `Settled` (it fits,
or nothing is left that the guard may drop) stays so. The hard step is
`ShedSettles`: one turn an agreement is enough, because each turn drops an
agreement's only visit of the day. So every day with capacity is settled at the
end (`GuardedSettles`), and a day that unbooked work is added to fits, or that work
would have been dropped. `PlanMakesRoom` compares this with the calendar: what the
guard counted is no less than what the plan leaves and adds, if what stands weighs
what the guard took it for. `CapInv` carries that from the plan to the transaction,
which either finds the day no fuller than it was or counts again
(`CommitKeepsTheCap`). The hypothesis `CrewMinutesKept` says that an agreement's
visits keep the crew-minutes it was first agreed with. It cannot be dropped:
`generation_over_cap` is the behaviour without it. The instance of `generation`
satisfies it.

### The catalogue

`CatalogInv` says that every row is sound, what a prepared request may count on
(its row stays, its form holds), and what an open import has so far. The import
is the only one, as it holds the lock on the client's name, and the invariant
relates the rows it has written to three things at once. *The rows on record*
(`ClientHolds`, `SitesHold`, `AgreementsHold`): nothing is switched on, what is
confirmed or marked stays so; `LeavesClient`, `LeavesSites` and
`LeavesAgreements` say what others may do beside it, and each step of a manager
is shown to stay within that, because it waits for the locks. *The workbook*
(`RowsLeft`, `NamesHold`, `BookingsHold`): of the rows done so far, each date is
booked on an agreement at its site and nothing else is, which needs that the
parser lists a site once and before its agreements (`WorkbookAssumption`). *What
it has just found* (`FoundHolds`): the row read is the row it will write over, or
else a site somebody has added since, which is confirmed. `CatalogAssumption`
says that what earlier requests have left is sound. `ManagersWordIsKept` and
`WorkbookIsAlwaysBooked` read their properties off the invariant at the commit.
The other two parts of `MasterData` write nothing of the catalogue.

### The workforce

*The capacity tool.* `CapacityInv`: the tool that holds the branch is the only
one, the rows it has planned for are the rows on record, and once it has their
locks the live assignments it has counted are all there are; what a manager
judged stands until it is written, because its rows are locked. `MutateWrites`
says what the tool leaves of each row; who has live work is either asked for
again, with the skills it had, or in a team that is blocked and left alone.

*Managers and the matrix.* `WorkforceInv` has a clause per stage of a call. A row
is locked by one call (`LocksApart`) and is on record or inserted by that call,
so that a row nobody has inserted yet is locked by nobody (`NewRowsUnlocked`). An
open import is described as two things: the rows it has written, which it has
locked (`RowsHold`), and the authorizations it has deleted and added
(`GrantsHold`), each of a person it has written or of a driver of an alias.
`PeopleHold` says that the people done are the first rows of the matrix, as it
has them. `Spares` names what a step must leave alone for this to hold of a call
that did not take it, and `SparedHolds` that it is enough; each step is then
shown to spare the others (`OthersSpared`). The hard case is a commit beside
another open import: `ImportsApart` shows that the two never delete one
authorization (`LostApart`), and that whom one has written drives no alias of
the other (`DrivesTicked`). `WorkforceAssumption` says what the parser and the
refusal of a vehicle spelt twice guarantee of a matrix (`MatrixHolds`), and that
the tables at the start are tables.

### The solver

The constraint model of a window is a fold that gives each visit in turn nothing
or an option; `PlansAre` says what it builds, every plan of the window that `Fits`:
each entry an option, free of what is reserved, any two compatible. `SoundPlans`
restates it for the request, as `PlanIsSound`, and `NarrowedOptions` shows that
what a visit may choose from on one day is what it may choose from at all, that
day. `SolveInv` says that the plan is sound from the empty one on. A day is added
(`DayIsAdded`) to a plan that is `Settled`: what is staffed is on an earlier day,
or closes its day for its agreement, so no agreement gets two visits of a day
although the windows do not see each other.

A sound plan answers the engine: `BookedApart` (a gap of travel between two jobs
is neither an overlap nor too short a way), `SoundVerdict` (each kind of conflict
is excluded by the constraint that states it, but for a station of other days,
which gives that one conflict whenever it is relied on), `EntryIsLegal` (a slot keeps the
window and the hours, on its own day and moved) and `PinsAreKept`. Two windows
are compared with the best by `BestIs`, which needs that the weight of a pinned
visit exceeds all visits together. If the best staffs no more than the answer,
no visit can join it (`NoneCanJoin`); a later day only adds, so what could not
join before cannot join after (`MoreLeavesNoMore`), and keeps the pinned visits
as they are. `ReasonsHold` goes through the reasons one by one. The assumption,
`SnapshotsAreSound`, is that visits last, hours are minutes, bookings do not end
before they start, a draft is on the date of its visit with somebody who leads
it, and that visits and people are finite.

### The portal

The properties of a screen at rest say nothing of what is still in flight, so none
is inductive. `PortalInv` has one clause per screen, on the requests of that
screen and what they may still do; a step of another screen cannot touch it,
since the screen stays open and its wire carries its own kinds of request only.

* *Lists* (`ListInv`): the requests that count are for one question, which is the
  page's unless a handler reloads its own; the crews of the dispatch board and
  the impact of a generation are of the rows and the range beside them.
* *Walk* (`WalkInv`): as long as no customer has left, what was collected is on
  record. When as many rows are held as the total says, the collection is a
  subset of the same size and so the whole (`FiniteSetTheorems`).
* *Queue* (`QueueInv`): the newest request asks what the page asks; one lock is on
  its way at a time; and what was read of a visit is so, unless a lock that is
  done has not been answered.
* *Run list* (`PagerInv`): of the requests in flight, at most one load of the rows
  counts, one summary, and one the user waits for (`Lined`); the rows that count
  are of the page in view, and those the panel has overtaken will not feed it
  (`Paged`). Requests are a sequence that grows at the end and shrinks anywhere:
  `RemovedIs` and `BehindIs` say what each operator does to it.
* *Publish dialog* (`DialogInv`): the boxes ticked are those signed for the run of
  the dialog; what was sent is a subset; what is published was sent, and nobody
  publishes a second time. If the linked run is missing, it is being fetched,
  because the effect runs whenever what it depends on changes (`MissingIs`).
* *Editor* (`EditorInv`): the loads, checks and offers that count are of the visit
  and the form on show.
* *Repair centre* (`DeskInv`): a plan and its key stay together wherever they go,
  so a key stands for one plan; a refusal is for good, because a source that is
  superseded stays so and a key that is taken stays taken (`RefusalsStand`); at
  most one plan is being built, under the tick it needs (`OnePlan`).

Assumed of the constants: questions and pages are numbers from 1, a page of the
walk holds at least one row, there is a window, and `None` is none of the values
it stands for the absence of.

## 6. Only model-checked

* Liveness (`EveryRunEnds`, `CancelStopsRun`, `ScreensComeToRest`): fairness and
  ENABLED are out of the prover's reach.
* `DayForecast`, and `PlanForecast` with it, use RECURSIVE operators (matching,
  flow), which the prover cannot treat: `RefusedDaysAreImpossible`.
* `SecondRunIsQuiet` and `ReportIsHonest` compare two complete plans; a proof
  would have to follow the greedy guard move by move.

## 7. Disagreements noted without a run

Met while modelling; each is in the model as the code has it.

*Run.* A cancel that lands after the run finished turns SUCCEEDED into CANCELLED
although the comment at `schedule-run.service.ts:2119` says a finished run is kept.
*Writers.* `unassign` writes UNASSIGNED with no reason, so the day's
`staffingFailed` counts a visit the queue says was never tried. A pin of a published
assignment can never be released. A swap of two crews, or of two full days, in one
result has its first half refused, because the result is evaluated in order. A FULL
pin whose supervisor lost the qualification, or a TIME pin outside changed hours,
makes every later run fail. No code writes CANCELLED or COMPLETED to a visit.
`updatedAt` has millisecond resolution. *Solver.* A published sibling on the same
day is not seen by the solver although `schemas.py` describes it; the hold-back of
preferred days can cost coverage; `computeBranchDayCapacity` is not the upper bound
its comment promises. The request to the solver carries every permanent station of a
person, whatever its dates (`schedule-run.service.ts:142` and `1113-1115`,
`published-assignment-repair-planner.adapter.ts:118` and `184`), while the engine
and the picker count those in effect on the day (`eligibility.service.ts:281-287`,
`:200`). A person whose station there has ended, or has yet to begin, is proposed
and refused as EMPLOYEE_PERMANENTLY_STATIONED: the visit goes to the queue, though
the solver might have staffed it otherwise (a moved one is first asked about once
more, on the day it had), and a repair plan fails its final validation.
`AnswerIsSavable` excepts exactly this case and claims that it always is refused;
`PlansHeal` has no stations. No code here writes `permanent_assignments`, tests and
the recovery script apart, so the rows are taken to be whatever the schema allows.
`docs/DATA_MODEL.md:39` says that a person with an active row "is never dispatched
elsewhere"; what keeps them is the deployment type, and a mobile person with a row
goes anywhere. *Repair.* A retry of a repair that was refused at preflight is not
replayed, as the recovery design document suggests; a lineage cut at its maximum can
drop the version in force when siblings exceed it; a publication between the two
queries of a day shows a visit as withdrawn for one refresh. *Generation.* Two
confirms can plan the same work twice and only the unique key keeps the second out;
the sweep drops the shortfalls of its confirms, and starts after an agreement's last
visit, so a period dropped in the middle is never revisited; a crash leaves a batch
IN_PROGRESS for good; `demandsOn` counts a protected visit of its own scope twice;
updates are not weighed by `assertTheDaysStillHaveRoom`; a held visit moved away
between a run's reads and its commit is not noticed; a shortfall can be reported
though a held visit stands. The ledger of a bunching repair is behind the calendar
for good wherever a confirm only adds or only removes visits: such an agreement is
queued (`visit-generation.service.ts:852` skips it only when there is neither an
addition nor a removal), its confirm commits, and `:602` (`if (visitsMoved === 0)
continue`) never names it, against the comments that the row "names exactly what has
landed at every instant" (`:565-567`), is "never behind the calendar by more than
the move in flight" (`:610-611`) and "already names every move that landed" (at the
completion). After a failure the administrator is told of fewer agreements than were
changed. `LedgerTellsWhatLanded` claims the ledger for the changes that brought a
visit and took one, and no more. *Master data.* An import revives an agreement
archived by hand when it carries no mark, and refreshes terms without a new version,
against `docs/DATA_MODEL.md:82-89`; a rename lets two people share name and branch;
a race of two updates leaves a permanent station without a site; a matrix import
reactivates people switched off. An import locks the sites and agreements its client
has when it begins (`importer.ts:180-199`): a site added after that and met by the
workbook gets back the branch the import read, confirmed or not since, and an
agreement moved to such a client meanwhile gets the workbook's crew and days;
`ManagersWordStands` excepts exactly these two. *Portal.* The drawer reloads with a
stale request and clears a reason typed for the next visit; the visits, dispatch,
customers and history pages reload from the closure of an older render; after a page
that failed to load, the pager is enabled again over old rows; the list of all
customers may be partial; the repair desk may build a second plan while the first is
applied; the queue of unassigned visits and the detail drawer do not fence their
requests, so a late answer can show the rows of another question or the detail of
another visit; an empty later page of the queue says that nothing is unassigned; a
tick for today's work that is withdrawn, or reset by an application, while a plan is
being built does not discard that plan. *Synthetic capacity.* The tool takes the
seats and the active flag of its rows from a read made before the row locks
(`findSyntheticResources`), although the comment at `synthetic-capacity.ts:618-622`
says a live assignment cannot lose a seat it relies on: a raise of the seats made by
a manager while the tool waits is overwritten. `LiveCrewsStand` excepts exactly that
case.

## 8. Not modelled

Parsing and rendering of workbooks, controllers and DTO validation, generated API
types, the HTTP client, authentication, audit, health, configuration, deployment and
recovery scripts, seed data; in the portal the search for the nearest occupied week,
sign-in, forms and markup, and in the repair centre the plans against planner
conflicts and the view of a user who may not apply. The publish dialog offers any
run that succeeded (the code also wants work in it and no publication of it), and
its run list asks for the linked run while the list is still loading, which
`schedule-history/page.tsx:449` does not: both allow more than the code. None of
them keeps state of the schedule. Vehicles are left out of the writers and of the
repair: they are booked and locked like employees. Lock order is not a property
here: every model takes a set of locks in one step, as the code sorts them.

## 9. What is left

Windows of the day, anchors and versions of agreements in the generation; proofs
of the two properties of whole plans that are only model-checked
(`SecondRunIsQuiet`, `ReportIsHonest`).
