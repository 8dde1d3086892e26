# A TLA+ model of kpi-system

kpi-system evaluates employees: an HR administrator opens an evaluation cycle,
evaluations are generated for its employees, filled in, submitted, reviewed,
approved, calibrated, published and locked, while scores also arrive from CSV
files, crawlers and collectors.  The backend (`src/backend/src`) is a Node
process, or several, over one PostgreSQL database.  Nothing is shared in memory
between requests except the throttle window of the mail worker, so everything
that is hard happens in the database: which row is locked for how long, what is
read before a transaction and written in it, and what a process leaves behind
when it dies.

Paths below are relative to `src/backend/src/modules` unless they start with `src/`.

## Components

| component | state | operations | what makes it correct |
|---|---|---|---|
| evaluation | `evaluation`, `evaluation_item` | save drafts, plan and notes; submit, review, approve, reject, request correction, publish, lock; recalculate, override, apply imported data | statuses, timestamps and locks agree; an approval is never taken back; a locked row is final; each publication completes one review |
| evaluation-cycle | `evaluation_cycle` | create, open (generates the evaluations), transition, lock, create individual cycles | locking a cycle takes every evaluation with it; nobody has two active individual evaluations |
| calibration | `calibration_session`, `calibration_adjustment` | create, adjust a score, finalize (publishes the scope) | the scope ends up closed, the cycle stays open until the commit, no review is completed twice |
| employee: review schedule, review-cadence | `last_evaluation_completed_at`, `next_review_due_date`, `review_cadence`, overrides of employees, defaults of job levels | publish, set an override, move an employee, change a level's default, create, update and delete cadences | one completion for each publication; due dates follow from the cadence in effect; only a publication moves the date they count from |
| notification | `notification_log`, preferences, templates, the window of sent mails | enqueue (inside business transactions), resend, test mail, batches | bounded retries, SENT means sent, throttle, batches end |
| crawl-job: execution queue and staging | `crawl_job_execution`, assignments of jobs to cycles | schedule, run, claim, heartbeat, execute, stage, retry, stop, cancel, recover | one worker per execution, finished is final, one automatic retry, policies, every execution ends |
| crawl-job: AI scoring queue | `crawl_scoring_execution` | enqueue, claim, score, average two sources, retry, rescore, review, apply | one scorer per task, agreeing sources, attempts within the limit, only approved scores applied, every task settles |
| evaluation-data-import | `evaluation_data_import`, `evaluation_data_import_record` | create, stage (from a crawl, merging sources), review, apply, reject; apply a score | an application takes up nothing that was not reviewed when it began, one applier, APPLIED means written or scored, an applied import is final |
| import (CSV) | `import_job`, `import_row` | upload, validate, preview, confirm, process in batches | one job per file, IMPORTED means written, one row per item, skipped rows reported, no row left behind, imports end |
| collector, jira-crawler | write `evaluation` and `evaluation_item` directly | apply member KPIs, apply collected values | they must respect what the handlers promise |
| configuration, kpi, rule-engine | versioned templates, KPI graph, scoring rules | publish versions, relate KPIs, compute scores | not modelled, see the end |
| reports, audit, auth, iam, the rest of organization, i18n, frontend | read models and master data | | not modelled, see the end |

Interactions: `publishEvaluation` and `finalizeSession` call the review schedule
inside their transaction; handlers insert outbox rows inside theirs; the crawl
worker stages imports and enqueues a scoring task for each row of them; `applyImportedKpiData`, the collector and the Jira
controller write the evaluations behind the workflow's back; the lock of a
cycle stops them, or should.

Hard behaviours: check-then-write requests, handlers that lock rows late,
processes that die between two transactions, leases that expire under a busy
worker, retries scheduled from two places, batches without locks, pages over a
list that shrinks, transactions whose repository calls commit on their own.

## Modules

* **EvaluationLifecycle** is the abstract specification: an evaluation is absent,
  in work, approved, published or locked; publication completes one review;
  locking a cycle locks all its evaluations in the same step.
* **EvaluationWorkflow** has one action for each handler of `evaluation.service.ts`,
  `evaluation-cycle.service.ts`, the opening and the individual creation, and for
  the writers outside (collector, Jira controller, imports).  A handler that runs
  in one transaction under `findByIdForUpdate` is one action, because two-phase
  locking makes it atomic.  A draft handler and `applyMemberKpis`, which check on
  the pool (or without a row lock) and write later, are two actions of a request
  in `Requests` with anything in between.  The items of an evaluation are two
  flags: all scored, some flagged as missing.  Permissions are abstracted away:
  any handler may be called at any time.  `updateDraftCycle` is covered by the
  freedom of `OpenCycle` to generate any set of evaluations.
* **Calibration** EXTENDS the workflow with sessions and the requests of
  operators.  `finalizeSession` is two steps: it holds the session and, FOR SHARE,
  its cycle from the first to the second, but the evaluations are only locked when
  they are updated, so the handlers of the workflow run between the steps (all but
  those that write the cycle: `WorkflowStep`).
* **NotificationOutbox** cuts `resendNotification`, `processPendingBatch`,
  `processSingleLog` and `testSmtp` at every await.  The polling loop is left out
  because nothing starts it.  An update that fails and a restart are actions.
* **CrawlExecution** has the rows of the queue, the lease of each, and for each
  worker the point where `runLoop` and `execute` stand.  Time is abstract: a row is
  due when its `wait` is 0, a lease is valid or not.  Any due row may be claimed,
  since SKIP LOCKED passes over rows that others hold.  SUCCESS stands for
  PARTIAL_SUCCESS and FAILED for a TIMEOUT recorded by the worker itself.  A crash
  leaves `claimed_by` naming a process that is gone (worker ids are random).
* **CsvImport** has the upload and the confirmation cut at every statement, since no
  part of the import runs in a transaction.  A job is named by the upload that
  inserts it; which rows are valid is chosen freely, but for the second row of an
  item.  The page of a batch is the one the SQL asks for: rows that are VALID now,
  after an offset that counts the rows of earlier batches.
* **DataImport** has the imports, their records and the requests that review, apply
  and reject them.  The transaction in which a crawl (the step `Stage` of
  CrawlExecution) merges its rows into what others have staged is two steps:
  `BeginStaging` reads the records of the other sources without a lock, and
  `CommitStaging` makes them VALID, whatever has been done with them since; only
  another staging of the cycle is kept out meanwhile.  `ApplyScore` is the other writer of
  records, `applyToEvaluation` of the scoring service, which marks one APPLIED, replaces
  its comment and writes no item.  The review of a crawled record is one transaction;
  of another record it is four statements.  `applyImportedKpiData` is one step that writes
  the records of a chunk unless their evaluation is closed (its effect on the
  evaluation is `ApplyImportedKpiData` of EvaluationWorkflow); the records are marked one
  by one.  `itemWrites`, `scored`, `uncommented` and `mergedLate` are history: what was
  written to an item, marked by a score, taken up to be written without a comment, and
  merged between the check of an application and its read.
* **CrawlScoring** has the second queue: scorers claim in a transaction and score
  outside of it.  Scores are hundredths, so that rounding is the program's.  A call
  of the repository that is given no client commits by itself, also within
  `withAuditedTransaction`.
* **ReviewSchedule** has the tables that decide when a review is due, as committed
  (`db`), and for each request what it has read, locked and written but not committed.
  A transaction locks the levels it concerns, finds the employees that depend on
  what it changes (`FindEmployees`), waits for their rows and checks each again as
  PostgreSQL does (`LockEmployees`, `Rejoin`), writes and reads the cadences
  (`Recalculate`) and commits.  Between a write and the read after it nothing can
  happen that the rows it holds would let matter, so the two are one step.  Dates count
  months.  `updateEmployeeWithSchedule` without a change of level, which only raises
  the version and so makes a move fail, is a `Rollback` of that move.
* The modules named **...Proofs** hold the theorems about the module they extend.
* **MC...** modules give the constants their values for TLC.

Definitions whose comment speaks of a *fault* are plausible mistakes that stand
beside the correct definition; each property below is violated when one of them
replaces it, so no property holds by the shape of the model.

## Runs

| run | question | bounds |
|---|---|---|
| `calibration` | types; nobody gets two active individual evaluations; timestamps agree with the status; locks cover the cycle; each review completed once; the scope ends closed; locked is final; the lifecycle is implemented | a batch cycle of 2 evaluations (interchangeable), 2 sessions of the same scope, or 2 individual cycles of 1 employee, the pair `OneActiveIndividual` speaks of; 2 operators, 1 score, 1 request whose check and write are apart, 1 adjustment; `OneRaceAtATime` below |
| `outbox` | counted retries, SENT, throttle, ends | 2 rows (mandatory and optional), 2 requests at a time and in all, 2 attempts, a window of 1 mail: both limits are reached |
| `crawl` | one worker each, chains of retries, policy, finality | 2 jobs (RETRY_THEN_STOP and CONTINUE), 2 workers (interchangeable), 2 attempts, 2 rows that are no automatic retries, 1 crash, failing statement or switch of a job |
| `crawl_ends` | every execution ends | 1 worker that may die once |
| `csv_import` | one job per file, rows and items, pages, ends | 2 uploads of one file with one key, 2 confirmations, up to 3 rows of which two name the same item, a batch of 1 row, 1 failing statement or restart; `UploadsFirst` below |
| `data_import` | reviews, one applier, written and final | 3 imports of which any 2 are created: one of 1 record, a crawl with records of 2 subjects and a crawl with 1, one subject being in all three, so that a crawl is merged with an import of either kind; 2 requests or stagings at a time (interchangeable), 3 reviews, applications and scores in all, 1 fault; `SharedClosesLate` below |
| `scoring` | one scorer, sources, attempts, approvals, tasks settle | 2 tasks of one subject (scores 1.00 and 4.00), 2 scorers, 2 attempts, 2 requests, 1 fault |
| `review_schedule` | types; due dates are current; only a publication moves the base | 2 employees (interchangeable), 2 levels of which one has a default, 2 cadences of which one may be the system's default, intervals of 1 and 2 months, 2 requests at a time and in all |
| `locked_cycle_writes`, `lost_adjustment`, `outbox_sent_twice`, `crawl_stop_policy` | what the documents say and the code does not do, see below | the smallest instance that shows it |

`calibration`, `csv_import` and `data_import` carry a state constraint.  `OneRaceAtATime` takes the
races one at a time: evaluations of the batch are created, scored and
imported while one session goes on; or two sessions go on over evaluations that
exist and carry no scores; or, with no batch cycle, one of two individual
evaluations is worked on (`OneWorkedOn`).  `UploadsFirst` lets no confirmation begin before the
uploads are over; an upload touches only the job it inserts.
`SharedClosesLate` closes the evaluation of the subject that all imports share, so that an
application is refused in part or altogether, and closes it no earlier than an
application could notice.  They cut what is
explored, never what a step does, and the theorems below have no such bound.
Nothing that `ImportsEnd` speaks of is cut: an upload never waits for a
confirmation.

`DueIsCurrent` excludes the pairs of operations in `MayMiss`, and `overlaps` remembers
that such a pair ran at once.  The list is exact: with any pair taken out of it TLC
finds a due date that stays behind.  Two requests show every pair; a third, tried
with one employee and fewer tables to start from, adds nothing.

`MaxAdjustments`, `MaxRequests`, `MaxInserts`, `MaxImports`, `MaxUpsets`, `MaxMishaps`,
`MaxFaults` and `MaxCalls` are the bounds that the code does not have; they are guards of the
actions they bound.  `MaxAttempts` and `MaxRetries` are limits of the code itself,
and `ImportBatch` is 200 there: with batches of one row, three rows already page.  `MaxRequests` is the
bound of the outbox and of the review schedule alike.  Every run allows the system to
rest (CHECK_DEADLOCK FALSE): all evaluations may be locked, all rows delivered.

**Fairness.**  Safety needs none.  `outbox` assumes weak fairness of each request
that has been started: the promises it awaits settle.  Nothing is assumed of
administrators.  `crawl_ends` assumes weak fairness of each worker's loop, which
restarts after every error, of time, and of the expiry of a lease that nobody
extends; a heartbeat is never required.  Statements do not fail for ever
(`MaxUpsets`).  `csv_import` assumes that a confirmation that has begun goes on, and
`scoring` that each scorer does: the worker's loop polls for ever, and the calls to
the AI answer or time out.  Both promises end at the first failing statement or
restart, because no code resumes what a process leaves IMPORTING or RUNNING.  Interchangeable values (SYMMETRY) are used in runs of invariants
and safety properties only.

## Findings

1. **A locked cycle can still be written** (`locked_cycle_writes`).  The design notes
   promise that a committed LOCKED blocks all business writes; the collector does
   not look, and the draft handlers look too early.
2. **Adjustments may be lost** (`lost_adjustment`).  `adjustScore` takes neither the
   row lock nor the version its notes speak of.
3. **A mail may be sent twice** (`outbox_sent_twice`).  `FOR UPDATE SKIP LOCKED` runs in
   autocommit, so its locks protect nothing.
4. **A stopping policy does not always stop** (`crawl_stop_policy`).  A wrong checksum,
   a result without valid rows, an expired lease and the last retry of
   RETRY_THEN_STOP all let the later jobs run.

Met on the way, without a run: `finalizeSession` publishes evaluations in any
unlocked status, rejected and open ones too (the notes of calibration speak of
approved ones), writes APPROVE and PUBLISH audit rows also for rows it skipped, and
mails nobody, whereas `publishEvaluation` does; the retention purge of mails has no
caller; a globally inactive template skips even the mandatory RESULT_PUBLISHED.

* Nobody processes the outbox but a resend: `OutboxWorkerService.start`
  (`notification/application/outbox-worker.service.ts:42`) has no caller, although
  the notes of the mails speak of an asynchronous worker.
* A CSV job of more than one batch leaves rows behind (`csv-import.service.ts:382`): the
  offset grows by 200 while the rows of the last batch have left VALID, so the next
  page skips as many rows as were processed; the job still ends COMPLETED.  The notes
  of the preview say that a partial import imports all valid rows.  That is why
  `OneBatchLeavesNone` speaks of jobs of one batch.
* A CSV job that two confirmations process may end COMPLETED although one of them
  skipped a row (`starts = 1` in `SkippedIsReported`), and one whose mail cannot be
  enqueued becomes FAILED after it was COMPLETED (`csv-import.service.ts:392-420`).
* A crawl that is staged merges its value into a record that a reviewer has already
  accepted, or that has been applied, and sets it VALID again
  (`crawl-staging.service.ts:417-429`): the comment `ReviewedBeforeApplied` asks for is
  then one on an earlier value.
* A crawled record may even reach an item with no comment at all, which Rule 21 of
  `docs/LLD_Employee_Performance_Evaluation_System.md:1166` forbids.  A staging has read a
  record to review (`crawl-staging.service.ts:332-340`); the record is rejected without a
  comment, or marked by a score, and its import passes the check of an application;
  the staging makes the record VALID and commits; the application reads it
  (`evaluation-data-import.service.ts:471`).  `mergedLate` collects exactly the records
  merged between a check and its read, and `ReviewedBeforeApplied` excludes no others:
  with `uncommented = {}` in its place TLC finds this trace.
* An import that is rejected while it is applied ends APPLIED
  (`evaluation-data-import.service.ts:588`, `535-557`), which is why `OneApplier` admits
  REJECTED; a process that dies in between leaves it APPLYING, which nothing accepts
  again.  For an import that was not crawled even `AppliedIsFinal` fails: its review
  reads the status, and writes it two statements later.
* `applyToEvaluation` of the scoring service marks the record of a row APPLIED and
  writes no item (`crawl-scoring.service.ts:176-210`), so that `AppliedWasWritten` holds of
  the records in `itemWrites` and `scored` together and of the first alone it does not; and `markApplied` commits on its own
  connection although the transaction around it may be rolled back.
* A due date may stay behind.  `review-schedule.service.ts:6` says that it is re-derived on
  any change of the effective cadence, but the employees are found in one statement and
  what it joins is not locked: while a cadence is changed, an employee may get it as
  an override, or as the default of a level, unseen by either transaction; two
  changes of cadences miss each other when one makes employees fall back on the
  other; and a request that only renames a level or a cadence writes back the default or
  the interval it has read.  `MayMiss` in ReviewSchedule lists the pairs.  Only a move
  of an employee is serialized with a new default of its level (`lockJobLevelsForShare`).
* Two publications of one employee may commit in the other order than their dates
  (`review-schedule.service.ts:134`): the base then moves backwards.
* The lock on the cycle that a finalization holds (`getSessionByIdForUpdate`) is not what
  keeps a locked cycle from being published: without it the rows would be locked too,
  and skipped.  `CyclesStayOpen` states what it does.
* Rescoring a task that is RUNNING gives it two scorers (`requeued` in `OneScorer`), and
  two sources scored at the same time miss each other (`overlaps` in `SourcesAgree`).

## Proofs

TLAPS proves, for every value of the constants that satisfies the assumption of
the module (typing, and what the database guarantees: an evaluation has one cycle
and one employee, NULL is no score, limits are positive; the numbers of rows,
requests, workers and operators are arbitrary):

| module | theorem | what |
|---|---|---|
| EvaluationWorkflow | `TypeCorrect` | types |
| | `WorkflowSafe` | `LockCoversCycle`, `StampsAgree`, `ReviewCompletedOnce` |
| | `LockingIsFinal`, `OneActiveIndividualEach` | `LockIsFinal`, `OneActiveIndividual` |
| | `WorkflowImplementsLifecycle` | refinement of `EvaluationLifecycle` |
| Calibration | `CalibrationTypeCorrect`, `CalibrationSafe` | types; the three invariants beside calibration, `CycleHeldOpen`, `FinalizedScopeIsClosed`; `CalibrationLocksCoverCycles`, `CalibrationCompletesOnce` and `CyclesStayOpen` state parts of it |
| | `CalibrationLockIsFinal`, `CalibrationImplementsLifecycle` | `LockIsFinal`, refinement |
| NotificationOutbox | `OutboxTypeCorrect`, `SentIsDelivered`, `ThrottleIsBounded`, `AttemptsRemain` | every invariant of the run, and `RetriesRemain`: a pending row has an attempt left |
| CsvImport | `CsvTypeCorrect`, `OneJobForEachFile`, `ImportedRowsWereWritten`, `EachItemFromOneRow`, `OneBatchLeavesNoneBehind`, `SkippedRowsAreReported` | every invariant of the run; and `SkippedIsReported`: a job of one confirmation does not end COMPLETED when a row was skipped |
| DataImport | `DataTypeCorrect`, `AppliedWasReviewed`, `OneApplierEach`, `AppliedRecordsWereWritten`, `ReadyImportsAreResolved`, `AppliedStaysFinal` | every property of the run |
| CrawlExecution | `CrawlTypeCorrect`, `CrawlOneWorkerEach`, `CrawlHistoryKept`, `CrawlRetriesFormChains`, `CrawlStoppedByFailure` | every property of the run `crawl` |
| | `CrawlResultsStaged`, `CrawlQueueGrows` | an execution that is SUCCESS has its records staged; the queue only grows, by one row at a time, and rows keep what they were inserted with |
| CrawlScoring | `ScoringTypeCorrect`, `OneScorerAtATime`, `TwoSourcesAgree`, `AttemptsAreAccounted`, `OnlyApprovedIsApplied` | every invariant of the run |
| ReviewSchedule | `ScheduleTypeInvariant`, `PublicationsMoveBases` | types, `BaseIsPublished` |
| | `LocksProtectBases` | `HoldersApart`, `BaseAsRead`: what the row locks are for |
| | `DueDatesAreCurrent` | `DueIsCurrent` |
| | `ReadsStayRight`, `CommitsAreSerial` | what a request has read, found and derived holds until its commit, which has the effect of the operation run alone on all employees (both without `overlaps`) |
| | `KeysHold` | no reference to a deleted cadence, one standard cadence (with `overlaps` too) |

The arguments.

* *Workflow.*  `WorkflowInv` is the conjunction of the three invariants, which only
  hold together: that a row is published once needs that the status PUBLISHED and
  `published_at` agree, and that needs that no handler takes a row back from
  PUBLISHED.
* *Calibration.*  `CalibrationInv` adds `OneWriterPerSession` (two requests never
  finalize the same session, because the first holds its row), `CycleHeldOpen` and
  `FinalizedRowsExist` (rows of a finalization in progress do not vanish), without
  which `FinalizedScopeIsClosed` is not inductive: between the read and the commit a
  row may be locked or published by others, but a row that is not published by the
  commit is locked, and `LockCoversCycle` says that it then has status LOCKED.  The
  refinement proofs use the invariants of both: a finalization maps to `Publish(S)`
  with S the rows that were not yet published.
* *Outbox.*  `RowsInv` bounds the retry a batch has read together with the one that is
  stored, because either may be written back last.  `DeliveredInv` knows that a batch
  past its mail has delivered the row it is about to mark.  `ThrottleInv` counts the
  requests between check and count: the window and these requests together never
  exceed the throttle by as many as there are requests.
* *CSV import.*  `JobInv` ties an inserted job to an upload past its insert; `RowInv`
  says that a confirmation about to mark a row has written its item; `FirstRows` that
  a row that is VALID, or was processed, is the first of its item; `SkipInv` that the
  one confirmation of a job remembers in `errors` that it has skipped a row.
  `BatchInv` follows a file that fits in one page: a confirmation that has fetched its
  rows has all rows in hand that are still VALID (`ValidAreToCome`), and every row leaves
  VALID when the confirmation is done with it, so none is VALID at a second fetch or at
  the end; a confirmation that gives up does not write COMPLETED, and one that runs at
  the same time can only take rows out of VALID.
* *Data import.*  `ApplyInv` says who may be applying: the import is APPLYING or
  rejected, so a second application cannot begin and a review is refused by the
  transaction.  `WrittenInv` knows that what the application has in its hands was
  written, and that a review holding the status APPLIED read it of a record that was
  written or scored.  `ReviewInv` adds `CheckedRows` to `ReviewedBeforeApplied`: from the
  check of an application to its read, each record it will take up has a comment or
  is one that was merged late.  Nothing but a merge makes such a record VALID then, since
  reviews are refused while the import is APPLYING and rejections and scores leave it
  REJECTED or APPLIED; a merge before the check leaves it uncommented, and `Reviewed`
  does not pass.  `ReadyRecords` says that the status of a
  crawled import is written in the transaction that counts its records.
* *Crawl executions.*  Every step is shown to be a `RowsMove`: rows keep what is
  written at the insert, a finished row changes in nothing but its wait, and at most
  one row is new.  From that alone follow `FinishedIsFinal` and `Chained` (the row a
  retry follows has failed for good, and a second automatic retry finds the first).
  `Held` adds who has a row in hand: only a claim gives a row to a worker, and only a
  QUEUED one, which nobody has.  `PolicyApplied` follows an execution that is
  `Settled`, failed with no automatic retry and no way to get one: the reason
  "fatal", a used up limit and a closed cycle never change back, so a worker may
  stop the later jobs any time after it has looked.  `HandsStaged` says of a
  worker past the staging that its row is staged, which no step undoes: only such a
  worker writes SUCCESS.
* *Scoring.*  `ScorerInv` says that a task with a scorer is RUNNING or was requeued;
  `AttemptsInv` that a scorer's copy of the attempt number is one it may still count
  from; `SourcesInv` follows the two tasks of a subject through the merge: from the
  read of the other score to the last write, the scorer is the only one at this
  subject, unless they were scored at once.
* *Review schedule.*  `HoldersApart` says that no two transactions hold an employee,
  `BaseAsRead` that what a transaction holds is still in the table; neither is inductive
  without the other, since a commit writes the bases of the employees it holds.  That
  each write of a cadence, a default, an override or a level keeps the schedules
  (`WrittenKeeps`) leaves the commit of a publication as the only step that moves a base.
* *Due dates.*  `DueInv` says what a request relies on (`Relies`), and that it is still
  so: what it has read on the pool (`StillKnown`), whom it has found or locked
  (`StillWanted`: exactly the employees whose schedule its write concerns) and what it
  has derived (`StillRight`: the dates that the tables would give with its write in
  them).  The proof takes one writer and one request beside it.  Either they are a pair
  of `MayMiss`, which `Serialized` excludes; or they touch the same level, which
  `LevelsApart` excludes; or a new id is involved (`CreatedApart`: no one else has it);
  or the write concerns nothing the other depends on.  That the
  writer's own due dates are right after its commit needs that a write leaves alone
  every employee it does not select, which is a lemma for each operation:
  an employee whose cadence in effect changes is one that `lockWhere` selects.
  Two creations or deletions that change the default of the system select the same
  employees, so `HoldersApart` lets the second lock only after the first.
* *Keys.*  `KeysInv` holds without `Serialized`: a transaction that refers to a cadence
  and one that deletes it exclude each other between write and commit
  (`ReferencesHeld`), and so do two that make a cadence standard (`StandardHeld`).

Every invariant and every action property of the passing runs is stated by a theorem.
Only model-checked is the liveness (`RequestsEnd`, `ExecutionsEnd`, `ImportsEnd`,
`TasksSettle`): the prover has no rule for `ENABLED` and fairness.

## What could follow

ItemScoring (items with versions, levels and raw scores; recalculation against
drafts and overrides) and RowLocks (the order in which handlers lock cycle, employee
and evaluation; PostgreSQL resolves a deadlock by aborting one of them) are
hazards that no property covers.  Each needs state that the present modules
abstract: two columns for each item, the locks inside a transaction.

## Not modelled

Most lines of the repository keep no state that two actors share: the pages of the
frontend, the OpenAPI document, controllers that translate requests, report
queries, clients of external portals.  What is modelled is the code behind the
statements that change shared tables.

Permissions, audit rows (inserted in the same transaction, read by nothing),
reports, names, calendars, translations, the frontend, log-ins and HTTP clients,
the script sandbox (it returns, fails for good or fails retryably), mail
transport (it resolves or rejects), the AI that scores rows (a score or an error), the
values of imported records, seeds and migrations.  A test mail without a
configured sender, the read flag of the inbox, and switching a job off
altogether (`setJobActive`, which has the effect of disabling it everywhere) are
left out as well.  PostgreSQL is taken to do what its manual says of row locks
and atomic statements at READ COMMITTED.
