# Specifications of the Enterprise Snowflake Framework

The repository holds a Python package, `enterprise_snowflake_framework`, that generates and
deploys data projects for Snowflake. Most of what it *does* happens elsewhere: in the jobs
of a reusable GitHub workflow that call the Snowflake CLI, and in SQL files the package
writes, which people and tasks execute statement by statement. Snowflake commits each DDL
statement, and outside an explicit transaction each DML statement, on its own. The hard
questions are therefore about protocols: what is true when a job dies between two CLI
calls, when a release file stops between two statements, when two people act at once.
These modules model those protocols. Paths below are relative to
`src/src/enterprise_snowflake_framework/` unless they start with `src/`.

## 1. Inventory

| Part | State it keeps | Operations | What is hard | What makes it correct |
|---|---|---|---|---|
| **Apply-once migration deployment** (`migration_model.py`, `migration_snowflake.py`, `migration_cli.py`, workflow `project-deploy.yml`) | `CONTROL.DEPLOYMENT_HISTORY`: one row per attempt, addressed by attempt id, read as the newest row per path | deploy, baseline, resolve | a CLI call loses its answer; a job dies between two calls; engineers act outside the concurrency group; revisions with other manifests | a file is submitted at most once; in manifest order; a success row is true; an unresolved attempt blocks |
| **Release, registration, lifecycle** (`release_operations.py`, `pipeline_operations.py`, `lifecycle.py`, `control_plane_120_release_readiness.sql`) | one row of `DATASET` (active and candidate pointer, lifecycle), `DATASET_VERSION` statuses, the published views, the tasks | register, activate, roll back, pause, resume, decommission | each is a sequence of committed statements that can stop anywhere and interleave; SQL's three-valued comparisons; reads that are stale when used | pointers, statuses and views agree after every completed file; success is never recorded over a torn cutover; a candidate is never overwritten |
| **Silver apply and replay** (`pipeline_apply.py`, `pipeline_replay.py`, `pipeline_idempotency.py`) | a silver table per version and the `PIPELINE_RUN` and `REPAIR_RUN` rows | apply and bounded replay for append, scd1, scd2, full_refresh | duplicates, late and reordered events, a run repeated after its rows were committed | the table equals a function of the set of events, however they were batched; a replay does not undo newer state |
| **Release evidence** (views of `control_plane_120`, `pipeline_compare.py`, `control_plane_080_…`) | run rows, DQ and comparison results with their timestamps | run, validate, compare, read readiness | freshness compared by timestamps of non-atomic writers | READY only on evidence about the data that will be published |
| **Health, SLA, quality and incidents** (`control_plane_020, 030, 050, 080, 140_*.sql`) | `INCIDENT` rows, the `DATASET_HEALTH` snapshot, SLA policies, DQ and reconciliation results | two evaluators, each a procedure of several committed statements, called by tasks, by operation files and by hand | evaluations that overlap or end half-way, evidence that changes between their statements, tasks that suspend themselves | an incident is opened and resolved for a condition that held or ceased; a lasting condition becomes and stays an incident; the dashboard and the incidents agree when nothing moves |
| **Run evidence API** (`control_plane_060`) and **Dynamic Table observability** (`100`, `110`, `140`) | `INGESTION_RUN`, `DBT_RUN` rows; derived views | begin, complete, fail | late and repeated calls | a call that finds no RUNNING row changes nothing; the row stamped last is what counts |
| **Health evaluation cadence** (`health_cadence.py`, `control_plane_040`, `130`) | the evaluator's task, an audit table | operation files: guard, STARTED row, suspend, set schedule, resume, SUCCEEDED | each statement commits; executions overlap, stop, and may be of one file | a suspended task is explained; the recorded configuration is the actual one |
| **Deployment preflight** (`deployment_preflight.py`, `control_plan.py`) | none; reads the account | plan | staleness of what was read | fails closed |
| **Generated-once scaffolding** (`scaffold.py`, `versioning.py`, `repair.py`, `lifecycle.py`, `plan.py`) | directories of a project | generate a dataset, all datasets, a version, an operation file | a command dies half-way, two commands overlap, files are rendered from a repository that changes afterwards | what has been written once is never written again; what a dead command left is reported; a decommission file covers what existed |
| **Contracts, validation, provenance, query tags, CLI** | none | validate, render | – | – |
| **Certification** (`certification_*.py`) | none of its own | runs scenarios in a live account | – | – |

How they interact: the deployment executes the files of two manifests, `CONTROL` (the
`control_plane_*.sql` files, which create the tables and views all other parts use) and
`SILVER` (which registers versions and creates their pipelines). Registration and release
share the row of `DATASET`; release reads `RELEASE_READINESS_V`, which reads the evidence;
evidence is written by the pipelines, the DQ tasks and the comparison files; the health
tasks read all of it and open incidents. There are no callbacks: everything is shared
tables and files executed by somebody.

## 2. Modules

| Module | What it is |
|---|---|
| `MigrationLedger` | abstract: a migration is new, attempted, settled; its file is sent at most once |
| `ApplyOnceMigrations` | deployment, baseline and resolve, one step per CLI call; its properties |
| `ApplyOnceMigrationsProofs` | type correctness, `AtMostOnce`, `InOrder`, `SuccessIsReal`; if no two baselines overlap, `SequenceLocked`, `UnblockedByReview` and the refinement of `MigrationLedger`; a job only gets nearer to its end: proved |
| `MCApplyOnceMigrations` | three files, five revisions |
| `ReleasePointers` | abstract: what the active and the candidate pointer promise |
| `ReleaseCutover` | registration, release and lifecycle files, one step per statement; its properties |
| `ReleaseCutoverProofs` | type correctness, `CandidateNeverOverwritten`, `SuccessIsWhole`, whatever overlaps; `WholeBetweenFiles`, `OldPathAvailable`, `RetiredStaysOut` and the refinement of `ReleasePointers`, each with the kinds of files kept apart that it needs: proved |
| `MCReleaseCutover` | three versions, two sessions, two choices of what overlaps |
| `ReleaseEvidence` | runs, data-quality results and comparisons of one candidate, and the readiness verdict over them; its properties |
| `ReleaseEvidenceProofs` | type correctness, `CountedIsCurrent`, `RunBlocks` and, for the validation procedure, `FailedDqBlocks`, proved |
| `MCReleaseEvidence` | two DQ checks, one or two comparison checks, one or two sessions |
| `CheckedRelease` | the activate file's readiness read and view switch over `ReleaseEvidence`: is what is published what was checked? |
| `CheckedReleaseProofs` | `PublishedAsAccepted`, proved |
| `MCCheckedRelease` | the instance of `MCReleaseEvidence` and one release |
| `SilverPipelines` | the Silver tables of one version under apply and replay; their properties |
| `SilverPipelinesProofs` | type correctness, `OneRowPerIdentity`, `NothingLost`, `HistoryIsTrue`, `LateEventsHarmless` and `ReplayKeepsBaseline`, proved |
| `MCSilverPipelines` | five events of two keys |
| `HealthIncidents` | run evidence, the verdict views and both evaluators, statement by statement; their properties |
| `HealthIncidentsProofs` | type correctness, `OpenedAndResolvedForCause`, `OpenBounded` and `RedMeansIncident`, proved |
| `MCHealthIncidents` | two versions, one policy, one reconciled stage; two callers, or a task and an operator |
| `DomainOwnership` | abstract: a directory is filled by one command and then belongs to the domain |
| `GeneratedOnce` | the commands that write directories file by file, the reports about them, and a decommission file at work; its properties |
| `GeneratedOnceProofs` | type correctness, `RefusedWritesNothing`, `LeftoverDetected`, `DecommissionStopsKnown` and the refinement of `DomainOwnership`, proved |
| `MCGeneratedOnce` | two datasets, two versions each, all three execution models, two commands at a time |
| `HealthCadence` | cadence operation files, one step per statement; its properties |
| `HealthCadenceProofs` | type correctness, `SuspendedIsExplained` and `RecordedIsActual`, proved |
| `MCHealthCadence` | three operations, three sessions |

Operators named *Faulty* in their comment (`StartDeploymentUngrouped`,
`PostflightWithoutPointers`, …) are not part of any specification: each is an action or
helper with a plausible bug. Putting one in place of the real definition makes a named
property fail, which shows that the property depends on that line of the code.

### ApplyOnceMigrations

State: `history` is the history table, per path and in the order of `STARTED_AT`;
`legacy` says whether managed objects existed before; `file` is what Snowflake has done
with a path's file; `sent` counts submissions and is not in the code. A `Runner` is a
workflow job: `pc`, `rev`, `at`, `known` and `attempt` are the local state of
`deploy_migrations` (where it is, the checked-out revision, the decision it has reached, the
paths the plan skips, the attempt id). `command` is what an engineer's `baseline` or
`resolve` has checked and is about to insert.

Actions: `StartDeployment` is everything up to the plan (it only reads), guarded by the
concurrency group; `Skip`, `RecordStarted`, `SubmitFile`, `ExecutionSucceeds` /
`ExecutionFails`, `RecordSucceeded` / `RecordFailed`, `FinishDeployment` follow the loop of
`deploy_migrations`. `ExecutionFails` is allowed before the file reached Snowflake, while
it runs and after it has run: the CLI returns an error in all three cases.
`SnowflakeEnds` is external: a submitted file goes on whether or not its job lives.
`Crash` ends a job anywhere, and also stands for a history statement that raises.
`CheckBaseline`/`RecordBaseline` and `CheckResolve`/`RecordResolve` are two CLI calls each.

Abstracted: attempt ids (a row number), checksums (model values), timestamps (the order of
rows), run ids and git commits (recorded, never compared).

### ReleaseCutover

State: `active`, `candidate`, `lifecycle` are columns of `DATASET`; `status` is
`DATASET_VERSION`; `view` says which version each published view selects from (two views
for scd2: history and current); `resumed` the running tasks; `script` the file a session
executes, its step and the edge rendered into it. `served` and `interrupted` are history
variables: which versions have ever been active, and whether a file stopped after its
first write.

A file is a sequence of actions, one per committed statement that matters:

- register: `CheckCandidate` (the guard block of `_candidate_registration_guard`),
  `MergeDataset`, `MergeVersion`;
- activate: `StartRelease`, `ReadReadiness`, `CheckEdge`, `PublishView` (once per view),
  `SwitchStatuses`, `MovePointers`, `RetireRuntime`, `CheckPostflight`, `RecordSuccess`;
- roll back: `StartRelease`, `CheckRollback`, and from `PublishView` on the same steps with
  the edge reversed and the guard of the rollback;
- pause and resume: `StartLifecycle`, `SetLifecycle`; decommission: `SuspendAll`,
  `WithdrawDataset`, `RetireVersions`.

`Stop` is a statement that raises, the exception handler, or a lost session.

Granularity: consecutive reads into variables of one file are one step, except the
readiness read and the pointer read of an activate file, which are kept apart because
the difference is observable (see the limits in section 4). The suspends of one decommission are one step.
`SqlDiffers` is SQL's `<>`: with NULL it is not true. The part of the readiness verdict
that only the evidence decides is an input (any verdict); the part that depends on the
pointers and statuses is computed. Registrations do not overlap, because registration
files belong to the silver manifest, which the concurrency group deploys one at a time;
release, rollback and lifecycle files are executed by hand. Nothing in the code keeps them
apart, so the constant `Overlap` says which kinds may be in progress together: it is a
statement about how people work, and each property that needs one names it.

### ReleaseEvidence

One registered candidate that stays registered. State: `flaws` is the candidate's data, as
the set of checks that would fail on it now; `runtime` is the STATUS of the newest row of
`PIPELINE_RUN`; `dq` holds the results of the latest run of `DQ_RESULT`; `compared` the
latest row of `VERSION_VALIDATION` per check; `script` is what a session executes, its step
and, for a validation, the check it is at and what it measured (`V_VIOLATIONS`); `recorded`
is what a session's validation has written under its RUN_ID so far.

Time: every timestamp the views compare is `CURRENT_TIMESTAMP()` of the statement that
writes it. The clock is taken to be strictly increasing, so the newest row is the one
written last, and all that `RELEASE_READINESS_V` can tell about a result is whether it was
written after the newest stamp of a run. That is the field `fresh`; `StampRun`, the only way
a run row is written, clears it everywhere. `DqFresh` takes the newest result of the latest
DQ run (`MAX(CHECKED_AT)`), `ComparisonFresh` the oldest (`OLDEST_VALIDATED_AT`).

Actions: `StartRun` (RUNNING row, autocommitted before the transaction), `CommitRun` (the
transaction's COMMIT: any new data), `FailRun` (ROLLBACK, FAILED, RAISE), `RecordRun`
(SUCCESS; a task goes on with the validation, a procedure called by hand ends);
`StartValidation`, and per check `MeasureCheck` (the query) and `RecordCheck` (the INSERT),
which are two statements in the procedure and one in the validation file of a Dynamic Table
(`RunPerCheck`); `StartComparison` and `RecordComparison` (one INSERT ... SELECT per check);
`Replay` (its transaction, and a row of `REPAIR_RUN`, which no view here reads); `Stop` (a
session is lost, or a statement outside the transaction raises, in particular after the
COMMIT). `Overlap` says which kinds of script may be in progress together: Snowflake does
not start a task that is still running, and everything else is a matter of what people do.

Abstracted: the active version, with which comparisons compare, does not change. Checks of
severity WARN, which only the domain can add, are left out. A refresh of a Dynamic Table
is taken as a run without a validation of its own (its rows are Snowflake's refresh
history, read through `DYNAMIC_TABLE_REFRESH_STATUS_V`).

### CheckedRelease

`ReleaseCutover` takes the evidence's verdict as an input, `ReleaseEvidence` has no release.
This module joins them where it matters to the data. `ReadReadiness` is the preflight of an
activate file: BLOCKED raises, REVIEW_REQUIRED raises unless the file was rendered with
`--allow-review-required`. It remembers which checks had results and which of those had
failed (`release`). `PublishViews` is the replacement of the published views, which reads no
evidence; `StopRelease` is an error or a lost session in between; `OtherStep` is everything
that `ReleaseEvidence` does, beside the release and after it. The file notes that it does
not resume or execute the task after its preflight, and
`src/docs/architecture/RELEASE_READINESS.md:66` says a cutover "must not create a new
transformation run after accepted DQ/comparison evidence and then publish it without
revalidation". The release itself does not; that nobody else does is `DataStands`
(`BesideRelease` holds no kind of run and no replay). The code does not enforce it: with a
run beside the release, TLC finds unchecked data published.

### SilverPipelines

One version of pattern append, scd1 or scd2 (`pattern`). An event is what the source says
once; `KeyOf`, `IdOf`, `TimeOf`, `OrderOf`, `StateOf` and `Tombstone` are what the RAW
contract's business key, idempotency key, source timestamp, ordering columns, tracked
columns and operation column make of it. State: `bronze` counts the rows of each event in
the Bronze table, `pending` those that the version's stream has not delivered; `rows` is the
append table or the scd2 event ledger, with multiplicities, since nothing but the SQL of the
procedures keeps a row from being there twice; `current` is the scd1 table, `history` the
scd2 periods. These tables are the committed ones. `batch` and `staged` are the open
transactions of an apply and of a replay: what each has read, and what it has inserted and
deleted and not committed (`staged` begins with the replay's temporary table).

History variables: `seen`, the events a transaction has committed; `behind`, the identities
that an apply has committed beside a full replay in progress, which had not staged them;
`missing`, those of them that the replay has cleared and nothing has written since;
`doubled`, the identities that an apply and a replay had both inserted before either
committed; `rewound`, the scd1 keys whose row a bounded replay has set back since the last
full one (`Rewinds`).

Actions: `Deliver` (external: Bronze receives a row, late or again). An apply: `BeginApply`
(BEGIN and the read of the stream; with conflicting identities it is rolled back, so nothing
happens), `InsertBatch` (INSERT ... WHERE NOT EXISTS), `CommitAppend` or `CommitHistory` (the
rebuild of the affected keys, then COMMIT, which moves the stream on), for scd1 `ApplyCurrent`
(MERGE and COMMIT), or `AbandonApply`. A replay of append or scd2: `StageReplay`, which reads
Bronze into the temporary table outside the transaction, `ClearTables` (the DELETEs of a full
replay), `InsertReplay`, `FinishReplay` or `AbandonReplay`. A replay of scd1 is
`ReplayCurrent`, which reads Bronze in its MERGE. `PeriodsOf` is the scd2 query: LAG over the
order (`IsBoundary`), LEAD over the boundaries (`After`, `Earliest`), tombstones close a period
and open none.

Granularity and isolation. The two transactions may be open at once: the SQL of a repair
suspends the task (`repair.py:272`), and a run in progress goes on. What Snowflake makes of
that is assumed as follows. A statement sees what is committed and what its own transaction
has written (READ COMMITTED), and an INSERT locks nothing, so `InsertBatch` and
`InsertReplay` miss each other's rows until the COMMIT (`Fresh`, `InsertedByBoth`). A DELETE
or MERGE locks its table until its transaction ends, also when it finds no row there.
Therefore scd1, whose tables are written by DELETE and MERGE only, is written in one step;
the DELETE of the periods and what follows it are one step with the COMMIT; and an scd2 apply
gets no further than its insert while a full replay holds the history (`Cleared`). One reader
at a time consumes a stream, which keeps two applies apart, and a version is replayed by one
session at a time.

Abstracted: `PIPELINE_RUN` and metrics (in `ReleaseEvidence`); `REPAIR_RUN`. Assumed: the
order of events is total and agrees with their timestamps (`EventAssumption`); Bronze rows
are inserted and never changed, so the stream's row action is always INSERT; the stream of a
new version starts empty, whatever Bronze already holds (`Retained`). `full_refresh` copies a
snapshot and is left out.

### HealthIncidents

Every table is keyed by dataset and every join goes through that key, so one dataset stands
for all. State: the evidence (`lifecycle`, `active`, `ingestion` and the run stamped last,
`silver` per version, `gold`, `timing` of each SLA policy, `results` and the `latest` run of
each DQ or reconciliation subject); `open`, the number of OPEN incidents per
`INCIDENT_KEY`; `base`, the snapshot's `OVERALL_STATUS`; `session`, the next statement of a
call and its temporary table of conditions; `failures` and `suspended` of the tasks.

Evidence changes by `BeginIngestion`, `CompleteIngestion`, `FailIngestion` (procedures of the
run API), `StampSilver`, `StampGold`, `RecordResult` (with `OutcomeOf`, the normalisation of
severity and status), `Measure` (time passes or a policy is edited), `SetLifecycle`,
`SetActive`. The views are operators: `SlaStatus` is the CASE of `SLA_EVALUATION_V`,
`Verdict`, `DqVerdict` and `ReconVerdict` the quality views, `BaseStatus` the snapshot,
`OverallStatus` the dashboard.

An evaluator is a sequence of committed statements: `StartDomain` (with the first refresh of
the snapshot) or `StartQuality`, one `Collect…` per INSERT into the temporary table,
`FindMissing` and `OpenMissing` (one INSERT ... WHERE NOT EXISTS, whose read and commit are
kept apart, since Snowflake does not lock what NOT EXISTS read), `ResolveDomain` or
`ResolveQuality`, `RefreshHealth`. `Abort` ends a call after any statement: an error, or the
task's timeout; a task that fails three times in a row is suspended. `ResumeTask` is a
person's. `OpenInvestigation` and `CloseInvestigation` are manual incidents, which no
evaluator may touch.

`seenTrue`, `seenFalse` (what has held and what has not since a call began), `alone` and
`settled` (undisturbed calls) are history variables. Abstracted: severities, reasons, texts
and latencies.

### GeneratedOnce

State: `dir`, for each directory who fills or owns it and what it contains; `command`, what a
running command has yet to prepare, to make and to write; `runtime` and `decommissioned`, the
environment in which versions are deployed. A first version's directory is the dataset's,
and it contains those of the others: `Exists` is `destination.exists()`.

Actions: `Scaffold`, `ScaffoldAll`, `ScaffoldVersion`, `GenerateBundle` start a command with
the directories it wants; `Prepare` loads the contract and renders in memory, `Refuse` is a
contract that does not load or a directory that has appeared; `MakeDirectory` is
`mkdir(exist_ok=False)`; `WriteFile` writes the next file, in the order of the rendered
dictionary; `Die` ends a command in a directory, the file being written absent or empty
(`Refill` is what both make of the directory); `Interrupt` between directories. Engineers complete or delete what is incomplete
(`Complete`, `Discard`), deploy a whole version (`Deploy`) and execute the decommission file
(`RunDecommission`), whose statements raise for a version that was never deployed and are
comments for a version whose model has no scheduler.
`MissingStandardFiles` and `ValidYaml` are what `esf plan` and `esf validate` report.

Abstracted: files that no rule tells apart are one; whether a contract loads is a choice;
the pattern is left out, since the execution model decides which SQL files there are; the
`custom` pattern, whose SQL a domain writes, is not modelled.
`DomainOwnership` is what the documents promise, "Generated once, domain-owned forever", and
`GeneratedOnceDomainOwned` is the refinement.

### HealthCadence

State: `resumed` and `schedule` are the evaluator's task, `rows` the audit table with its
timestamps (`now` counts them), `session` the file a session executes and its next statement.
Actions, one per statement: `CheckDuplicate`, `InsertStarted`, `SuspendTask`, `SetSchedule`
(which raises on a task that another file has resumed), `ResumeTask` (a comment in the files
that leave the task suspended), `RecordSuccess`; `Stop` after any of them;
`SuspendAfterFailures` is the task itself, after three failed evaluations (see
`HealthIncidents`), and sets the history variable `outOfBand`. `Recorded` is the view of
migration 130.

## 3. Runs

| Run | Instance | Question | Result |
|---|---|---|---|
| `migrations` | 2 jobs, 1 engineer, 5 revisions, 2 rows per path, fair | Is every file sent at most once, in order, is every SUCCEEDED row true, is the history a sequence however revisions alternate, is nothing unblocked, and no failure hidden, without a review, is the abstract ledger implemented, and does a job that is not killed end? | holds |
| `release` | 2 sessions, 3 versions, 2 views, all kinds of files; pause and resume overlap any file, a decommission another one | Any sequence of files, each stopping anywhere: are views, pointers and statuses whole between files, are the promises of the pointers kept, is the old path still there when a cutover fails, does a retired version stay out? | holds |
| `release_concurrent` | 2 sessions, 3 versions, 1 view, register, release, decommission | Any interleaving of statements: is success recorded only over a whole cutover, is a candidate never overwritten? | holds |
| `evidence` | 2 sessions, 2 DQ checks, 2 comparison checks, a run overlaps comparisons only, one release with accepted review, no run beside it | Is every result that readiness counts about the data the candidate holds now, does a run in progress block, and does what is published fail only what was accepted? | holds |
| `evidence_overlap` | 2 sessions, 2 DQ checks, 1 comparison check, replays, everything overlaps | Does a validation that ends with a failed check leave the candidate blocked? | holds |
| `dynamic_table_dq` | 1 session, Dynamic Table | The question of `evidence_overlap` for a Dynamic Table | **no**, finding 1 |
| `silver` | 5 events, 2 keys, all three patterns, full and bounded replays, an apply and a replay open at once | Whatever arrives in whatever order, and however the two transactions overlap: is an identity there twice only if both had inserted it before either committed, is nothing lost, does the history say what the events say, does no late event change a key that was never deleted, which rows does a replay make or keep right? | holds |
| `late_delete` | scd1, full replays | Does a late event never regress the table? | **no**, finding 2 |
| `incidents` | 2 sessions that call either evaluator, 2 versions, 2 changes | Any interleaving of statements with changes of the evidence: are incidents opened and resolved for cause and by their own evaluator, how many can be open for one key, do dashboard and incidents agree after undisturbed evaluations? | holds |
| `incidents_live` | 1 task, 1 operator, 1 version, 2 changes, fair | Does a condition that stays become and stay an open incident, and one that stays away become and stay resolved? | holds |
| `generated` | 2 commands at a time, 3 in all, 2 datasets, 2 versions, 3 execution models | However commands overlap, are refused or die: is nothing written twice, is every leftover reported, has a refused command written nothing, does a decommission stop all it should? | holds |
| `cadence` | 3 sessions, 3 operations, 4 rows | Is a suspended task always explained, and is the recorded configuration the actual one? | holds |

**Bounds.** Migrations: two control files are enough to be out of order, to swap and to
lose one; one silver file to have a second scope and an edited checksum. Two jobs are the
smallest group. Two rows per path (`MaxRows`) let an attempt be resolved. Every revision is a complete project, and any of them may be
deployed at any time, which covers redeployment and going back to an older commit.
Releases: three versions are the smallest number with an
active one, one to return to and a newer candidate. Two views make a release stop between
them. The concurrent run keeps one view, since no check of the two-session properties tells
views apart and the second multiplies the interleavings, and leaves pause and resume out,
since no other file reads what they write (the run `release` has them). The first version is deployed in the initial
state. Symmetry is used for interchangeable sessions and, in the two runs about files, versions
that are not there at the start, and in no run that checks liveness.

Evidence: two DQ checks are the smallest number with a first and a last one; the
comparison checks are one that asks for review and one that fails. Two sessions are enough
for one script to overlap another; every script may be executed any number of times, so the
run is exhaustive in time. The overlap run has one comparison check, because its property
is about DQ only. Nothing is bounded but the sets of checks and sessions.

Silver: of one key an insert, an update, a delete at the same timestamp and a second insert of
the state before the delete; of another key an event with the identity of the update. That
is one event for each branch of the scd2 query and of the conflict guard, and a key that a
batch does not touch. The insert and the second insert are in Bronze when the version is
deployed (`Retained`), so only a replay brings the first and the source delivers the other
again (`Copies`) to the stream; every other event arrives once, at any time. The bounded
window starts at an event's timestamp and ends before the last event of each key, so it can
set a row back. There is one apply and one replay in progress, which is all that can be;
their number is not bounded.

Release over evidence: one activate file is enough, since publishing ends the question; it
may stop and be executed again before that.

Incidents: the changes of the evidence and of the dataset row are bounded (`MaxChanges` = 2,
which is a condition that comes and goes, or a change of the active version and a result);
evaluations are not bounded. The two versions are a table and a Dynamic Table, because
their runs are read differently. In the second instance one policy gives a condition that
can last or go away; its operator calls the same evaluator as the task.

Generated once: two commands overlap, the third (`MaxStarts` = 3) is the later one that finds
what they left, or the operation file rendered from it. Cadence: `MaxRows` = 4 rows for three
operations, so that one file can be executed twice.

`CHECK_DEADLOCK FALSE` is stated for the last four runs: when their bounded changes, starts
or rows are used up and every session is idle, the modelled system may have nothing left
to do. Symmetry (sessions, commands, datasets) is used in runs without liveness only.

**Fairness.** `FairSpec` of the migrations, for `DeploymentEnds`: weak fairness of each job's
own steps, as a job is a sequential program on a runner that is not starved (dying is never
fair and never forbidden), and of `SnowflakeEnds`, as a statement ends or times out. Nobody is
obliged to start a deployment, and no engineer to act. `Fairness` of `HealthIncidents`: weak
fairness of `Evaluate` for each task, since a task that is not suspended is started every
minute and each of its statements ends. Weak fairness does not keep a call from aborting
again and again, but then the task suspends itself, and nobody need resume it; the
liveness properties therefore assume `Operated`, that the task is from some time on not
suspended. No release property is a liveness property: files are executed by people.

**What the properties say.** `ImplementsLedger` and `KeepsPromise` are refinements: the
detailed modules, with crashes, implement the small ones. The second
depends on which files overlap, as do three other properties of the release module; section 4
has the list.
`SuccessIsWhole` is what remains whatever overlaps: the postflight reads pointers, statuses and views
again, so a cutover torn by another session is never recorded as SUCCEEDED.
`OldPathAvailable` relates the runtime that a release suspends to what is served at that
moment. `UnblockedByReview` says that nothing but real success or an engineer's resolve
turns a blocking path into a settled one, and that a recorded failure blocks unless a
resolve of the same path followed it. `CountedIsCurrent` compares each result that
counts with what its check would say of the data now; it needs the discipline the
framework's document asks for (`RunsAlone`: while a run is in progress nothing but
comparisons is executed, and nothing is replayed). `HistoryIsTrue` compares the periods
with the ledger at every time: one period that shows the latest state, or none after a
delete. `NothingLost` and `LateEventsHarmless` compare the tables with everything that was
ever committed, which no query of the procedures sees. `OneRowPerIdentity` names the one way to
a second row (`doubled`): both transactions had inserted the identity before either committed;
an apply that begins after a replay has committed, or the other way round, adds none. `ReplayKeepsBaseline` states,
row by row, what a replay of scd1 makes right and what it may make wrong.
`OpenBounded` is the exact limit of the NOT EXISTS: one row per evaluation that can be in
progress at once. `OpenedAndResolvedForCause` relates each opening and resolving to what the
evidence was at some time since that call began. `RedMeansIncident` relates the two programs
that compute health. `DecommissionStopsKnown` relates a file to the repository it was
rendered from, which may have changed since; its exception (`NoScheduler`) is a version that
was `batch_sql` when the file was rendered and has been generated again since.
`SuspendedIsExplained` and `RecordedIsActual` relate the task to what the audit table says
of it, with the exceptions (`outOfBand`, `ExecutedTwice`, `Overlapping`) spelled out.

## 4. Where the code and its documents differ

1. The validation file of a Dynamic Table gives every check its own RUN_ID
   (`dynamic_table_dq`), so the "latest DQ run" is its last check and an earlier failure
   does not block. The validation procedure of the other patterns uses one RUN_ID.
2. An scd1 delete removes the row and with it the order to compare with (`late_delete`): an
   older event that arrives later inserts the key again.

`PROJECT.json` quotes the sentence of the repository that each of them contradicts.

Further limits of the code are in the models, which allow them; the properties that hold
are stated so as to show where they begin.

Deployment and release:

- `resolve` accepts a STARTED attempt without knowing whether its deployment is alive. If that
  deployment then fails, its FAILED row is older than the REMEDIATED one and the next plan
  skips the file. `UnblockedByReview` says that this is the only way to hide a failure.
- The edge check of an activate file compares with `<>`, so a NULL candidate passes: a
  decommission between the readiness read and the pointer read lets a file publish a
  version that is no longer the candidate. The postflight does not record success
  (`SuccessIsWhole`), but the views have been switched.
- A rollback counts ACTIVE rows without asking whose row it is: after a rollback that failed
  between its two updates, another rollback leaves two.
- A run or a replay beside an activate file publishes data nobody has checked
  (`CheckedRelease`, `DataStands`). A pause file executed after the cutover it was not
  rendered for suspends the version it was rendered for.
- A rollback reads the candidate pointer once; a candidate registered afterwards does not
  stop the views and statuses from being switched. The guarded update of the pointers then
  matches no row, and success is not recorded (`SuccessIsWhole`).
- Which files must be kept apart for what. The theorems assume exactly these pairs; for each pair
  TLC finds the property broken when only that overlap is added (for the two marked with a
  star, together with another overlap that alone does no harm):

  | Property | Pairs that must not overlap |
  |---|---|
  | `SuccessIsWhole`, `CandidateNeverOverwritten` | none |
  | `WholeBetweenFiles` | activate and register, decommission and register |
  | `KeepsPromise` | activate and register, activate and decommission, roll back and decommission |
  | `RetiredStaysOut` | activate and activate, activate and decommission, decommission and register, activate and register* |
  | `OldPathAvailable` | two releases of either kind, roll back and register, activate and decommission* |

  The last line has one cause: the UPDATE of the pointers matches no row when they have moved,
  and the next statement suspends the runtime all the same. Nothing a pause or resume file
  does matters to any of them.
- Baseline is check-then-insert, so two of them both insert; the rows are duplicates and no
  file is executed twice (`AppliedAtMostOnce`, for any number of engineers).
- A replay is not runtime evidence: DQ and comparison results from before it count as fresh.
- The readiness view takes the newest result of a DQ run, while for comparisons it
  deliberately takes the oldest, so a validation called by hand during a run of the task
  leaves results of the old data counted.
- A comparison file that stops half-way does not leave *missing* evidence: the summary knows
  only the rows that exist.
- A bounded scd1 replay merges the latest row of its window without comparing order, so one
  whose window ends before the newest event replaces a newer row that was correct;
  `ReplayKeepsBaseline` excludes exactly those rows (`Rewinds`).
- An apply and a replay of append or scd2 that are open at once both find an identity absent and
  both insert it (`doubled`), where `src/docs/architecture/INPUT_IDEMPOTENCY.md:46` speaks of
  "only identities not already persisted". TLC's shortest behaviour, without the exception in
  `OneRowPerIdentity`, is: an apply inserts its batch, a bounded replay stages and inserts the
  same event, and both commit. The SQL of a repair suspends the task first, which does not
  end a run in progress; people avoid it by waiting for that run. Later applies and bounded
  replays leave the second row; the next full replay clears the table and makes it one. The
  periods of scd2 are not affected (`HistoryIsTrue`).
- A full replay of append or scd2 stages Bronze before its transaction begins. An apply that
  commits in between has consumed its events from the stream, and the replay clears them
  (`missing`), be they rows the apply inserted or rows it found there; another replay brings
  them back. People are told to apply after
  the replay (`src/docs/architecture/DATASET_VERSIONING.md:112`). `NothingLost` says that nothing
  else is ever lost.

Health:

- Evaluations that overlap insert an incident each (`OpenBounded`), where
  `src/docs/architecture/SLA_OBSERVABILITY.md:127` speaks of at most one; the next evaluation
  to resolve them resolves them together.
- A retry that is RUNNING is the latest run, so a failure "recovers" when it is tried again;
  likewise SKIPPED after FAILED resolves a dbt failure. Pausing a dataset resolves its
  incidents.
- A DQ or reconciliation run is judged by the results it has recorded so far.
- Two executions of one cadence file at once pass its guard, and one UPDATE completes both
  rows (`ExecutedTwice`).

Generated files:

- A candidate directory that a dead command left incomplete is only reported as existing;
  `LeftoverDetected` is about first versions, which is what the reports look at.
- A decommission file raises at a version that was generated and never deployed. The versions
  before it are suspended then and the dataset is not marked.
- For a `batch_sql` version a decommission file holds a comment. If that directory was
  incomplete, is deleted, generated again with a task and deployed, then the file marks the
  dataset as decommissioned and the task goes on running (`NoScheduler`).

## 5. Proofs

All are checked by TLAPS for every value of the constants that satisfies the named
assumptions of the modules (`ManifestAssumption`: what `load_migrations` accepts;
`VersionAssumption`, `ViewAssumption`; and those named below). Some theorems assume more about
how people work, as their instances do; the assumption is then in the statement:
`BaselinesApart` (nobody runs baseline while another baseline is between its check and its
insert; the environment's concurrency group does not cover the command),
`Apart(a, b)` (files of the kinds a and b are not executed at the same time), `RunsAlone` and
`DataStands` (sections 2 and 3). All three refinements are proved.

- `TypeCorrect`, `AppliedAtMostOnce` (`ApplyOnceMigrationsProofs`). `AtMostOnce` is not
  inductive: a job that is about to submit a file looks the same whether or not it was sent
  before. `OnceInv` adds why it was not: only one job works (`GroupInv`); past its
  decision a job holds the row of its attempt, for a path its plan did not know
  (`AttemptInv`); a submitted file has a row (`SentInv`), so a plan made later knows its
  path; and what a job has yet to submit was never submitted (`UnsentInv`). History rows
  are never removed (`HistoryGrows`), which is all that the engineers' steps have to
  respect. That a path occurs once in a revision's manifests (`MigrationsDistinct`) is used
  exactly where the file is submitted.
- `DeployedInOrder`, `SuccessIsTrue` (same module), for any number of engineers. A job that has
  got to an entry has left only settled ones behind (`OrderInv`); no other job works, and an
  engineer can settle a path or add to it but never unsettle one. A SUCCEEDED row is
  written only by a job whose file has been reported complete (`RealInv`).
- `JobsGetNearer` (same module) is the part of `DeploymentEnds` that needs no fairness.
  `StepsLeft` bounds the steps a job has left by a natural number, from its place in the plan
  (`PlaceInv`) and within an entry; each of its own steps lowers the number, and no step of an
  engineer, of Snowflake or of another job raises it. What is left to TLC is that a job which is
  never killed keeps stepping: it waits for nobody but Snowflake, which ends the file it runs.
- `SequenceIsLocked`, `UnblockedOnlyByReview`, `LedgerImplemented` (same module), of all behaviours
  in which `BaselinesApart` holds, with any number of engineers who resolve at the same time.
  `LockInv` says that a baseline is checked and recorded only in an environment
  without a history, which no job has begun to deploy to (`AdoptInv`); that a review is of a
  recorded attempt at the same file (`ReviewInv`); and that the revision a job deploys has
  every recorded path as it was recorded, and nothing recorded ahead of the job (`PlanInv`).
  Without `BaselinesApart` it is false: two baselines of different revisions, both checked
  before either is recorded, record two sequences. `LedgerImplemented` maps each step to a
  step or a stutter of `MigrationLedger`; the ledger's "at most once" is where `OnceInv` is
  needed.
- `CutoverTypeCorrect`, `CandidateSafe` (`ReleaseCutoverProofs`). The guard of a
  registration and its MERGE are separate statements. `CandidateInv` says that between
  them the pointer is free or already names the version (`PointerFree`), because every
  other file can only set it to NULL and there is one registration at a time
  (`OneRegistration`).
- `ReleaseIsWhole` (same module), for any number of sessions. Nothing is known of what a
  release finds while others run. But while no release has been interrupted and every session
  is outside the writes of a release, readers are served the active version and no other is
  ACTIVE (`FinishedInv`): the last session to leave those writes left them through the
  postflight, which has read pointers, views and statuses again, and no other file changes
  them.
- `FilesLeaveItWhole`, `OldPathKept`, `RetiredStays`, `PromiseKept` (same module), for any number
  of sessions, each from the pairs `Apart` that section 4 lists for it. Every step is that of
  one session, which leaves the files of the others where they are (`StepForms`), and two kinds
  kept apart are never both in progress (`OverlapKept`); so what one file has found can be
  disturbed only by the kinds the theorem lets run beside it. `RowsInv` says whose rows are
  ACTIVE or RETIRED: the active version's and those of a rollback past its check, but not that
  of a version in registration. `RetiredStays` adds `Held`: the candidate an activation has
  found ready stays the candidate, and deployed, until its statuses are switched. `PathOf` says
  what a release has found and published at each statement, up to the pointer that has moved
  when it is about to retire a runtime. `PromiseInv` does without the exclusion of registration
  and decommission: what serves or has served keeps its row, and nothing else is retired while a
  release can still pass its preflight (`ServedInv`); each move of a pointer is then a step of
  `ReleasePointers`. `WholeInv` follows statuses and candidate past the end of a release
  (`CandidateAgrees`, `ActiveAgrees`) and takes the views from `FinishedInv`. Interrupted files
  are what makes these long: their successors start from any mixture of views.
- `EvidenceTypeCorrect`, `EvidenceInvariant`, `CountedCurrent`, `RunInProgressBlocks`
  (`ReleaseEvidenceProofs`), from `CheckAssumption` and, but for the first, `RunsAlone`. That
  readiness counts only current results is not inductive: results become current or stale
  while a run or a validation is half-way. `EvidenceInv` adds that a run has no company but
  comparisons (`CompanyInv`), so the newest stamp is its own RUNNING (`RunningInv`) and
  nothing is committed under a validation in progress, whose results are therefore all
  about one state of the data (`ValidationInv`); and that a latest DQ run with one fresh
  result is fresh altogether, and after a successful run what is fresh is current
  (`FreshInv`). `FailureBlocks` needs no discipline but one RUN_ID for all results of a
  validation (`~RunPerCheck`), which is what finding 1 lacks. The run `evidence` uses an instance that satisfies `RunsAlone`.
- `PublishedWasAccepted` (`CheckedReleaseProofs`), from `RunsAlone` and `DataStands`. The steps
  of `ReleaseSpec` are those of `ReleaseEvidence` or leave its variables alone
  (`EvidenceUnderRelease`), so `EvidenceInv` holds. When readiness is read, what counts is
  current (`InvariantCounts`), hence what has failed is what the data would fail now; the data
  does not change while the release is open (`DataKept`), because no run can be in progress.
- `CadenceTypeCorrect`, `SuspensionIsExplained`, `RecordIsTruth` (`HealthCadenceProofs`), from
  the assumptions on operations and rows. A live session has a row with its operation
  (`BackedInv`). While the task is suspended without another explanation there is an
  unfinished operation that no session is about to complete (`PendingInv`): the session that
  suspended has one, and the resume of a file that resumes ends it. Without overlap
  (`Calm`) the one live session works for the last row and knows what the task is like
  (`StageInv`), and so does the last row when none is live (`DoneInv`); the row completed
  last is the last row (`RecordedIsLast`), by the order of the times (`TimeInv`).
- `IncidentsHaveCause` and `OpenIncidentsBounded` (`HealthIncidentsProofs`), the second from
  `SessionAssumption` (there are finitely many callers). The evidence may change between any
  two statements of a call, so neither is inductive. For the first, `CauseInv` adds what a call
  knows at each statement: the conditions it holds are of its kind and were seen since it
  began, and those it has looked for and does not hold it has seen gone; an INSERT or UPDATE
  then follows from the call's own reads. For the second, `BoundInv` counts more sharply: the
  open incidents of a key are no more than the evaluations of its kind that are *not* waiting
  to insert it. An insertion opens one and ends one wait; a call starts to wait only when it
  finds none open, where the bound is trivial.
- `IncidentTypeCorrect`, `UndisturbedInvariant`, `DashboardAgrees` (same module). `RedInv` follows
  an undisturbed call statement by statement (`AloneCall`): it holds exactly the conditions it
  has looked for, is about to insert exactly those without an open incident, then all it
  holds are open, and after the UPDATE the open incidents of its kind are the conditions of
  its kind (`Agrees`), which is what it leaves (`SettledKind`). Calls of the other kind do not
  disturb it, since no key is of two types. `RedIsCondition` compares the two programs: the
  CASE of the snapshot with the views on one side, the evaluators' queries on the other.
- `SilverTypeCorrect`, `SilverOncePerIdentity`, `SilverEvidence`, `SilverNothingLost`
  (`SilverPipelinesProofs`), from `EventAssumption`, `PatternAssumption`, `BoundAssumption`,
  whatever overlaps. That no period ends before it begins rests on `EarliestIsMember`, and that
  scd1 rows are events on `LatestIsMember`: the order has a first and, there being finitely many
  events, a last element of every set. `StepsInv` says what each open transaction holds at each of
  its statements. `OnceInv` is the strengthening of `OneRowPerIdentity`: a batch has each
  identity once (`Fresh`, which needs the conflict guard exactly where two events share one), and
  what an open transaction has inserted and is committed by now is in `doubled`. `NothingLost`
  is not inductive either: a full replay clears the table. `LostInv` adds that what was committed
  is in Bronze (`EvidenceInv`), that the tables hold nothing else (`SourceInv`), that what was
  committed is therefore in what a full replay has staged, but for
  what applies have committed since (`StagedInv`), and that whatever a transaction has read it
  has inserted or found there, unless a replay has cleared that since (`InsertedInv`).
- `SilverHistoryTrue`, `SilverLateHarmless`, `SilverReplayKeeps` (same module). The periods of
  a key are always what the scd2 query makes of its rows in the ledger (`HistInv`). That needs the
  lock: while a full replay has cleared the history no apply commits, so what it has deleted
  is the whole ledger, and what it rebuilds is all there is. The rest is about the query,
  `PeriodsOf`: at every time the latest boundary up to then has
  the state of the latest event up to then (`LastBoundary`, `PeriodsTrue`). The obvious
  induction over the events is out of the prover's reach; the proof takes the first event
  between the two whose state differs, which would be a boundary. For scd1 nothing is
  assumed about the windows: `ReplayRow` says that a replay shows the latest event of a key it
  touches unless it sets it back, because Bronze holds all that was committed and the window
  leaves out only what is older, and that a full one clears the other keys.
- `FillInvariant`, `GeneratedTypeCorrect`, `RefusalWritesNothing`, `LeftoversAreDetected`,
  `OwnershipImplemented`, `DecommissionStops` (`GeneratedOnceProofs`), from the assumptions on
  constants. `FilledInv` says how far a directory is filled: it holds the first k files of its
  list, the last of them perhaps empty, and a directory that a command holds lacks at least one;
  `WorkInv` says what a command has yet to prepare, make and write, and that it has made
  nothing before all is prepared. That leftovers are reported then rests on the order of the
  list: `version.yml` is written first, so the reports know the execution model, and
  `pipeline.yml` last, so a directory that has it and is well-formed is whole. For the
  decommission, `KnownInv` says that a file lists the versions it knew, and `StoppedInv` that
  the file which withdrew a dataset stays as it was and what it knew is not running, since
  nothing deploys a version of a decommissioned dataset.

Only model-checked are the liveness properties (`DeploymentEnds`,
`LastingConditionStaysOpen`, `GoneConditionStaysResolved`): the prover has no rule for fairness
that it can use here. Of `DeploymentEnds` the bound on a job's steps is proved (`JobsGetNearer`). What is proved under an assumption on how people work is model-checked
under the same assumption, by the instance.

## 6. Not modelled, and the plan

In this order:

1. Silver: `full_refresh`, which copies a snapshot, and the read of an active version beside
   its candidate's replay.
2. The deployment preflight (`deployment_preflight.py`, `control_plan.py`): it reads the account
   and changes nothing, so its question is how stale its answer is when the deployment
   starts.
3. Writers of single files (`init-project`, `sla-sql`, `add-dataset`, `dataset_management.py`),
   which read and rewrite one file without a directory to claim.

Left out for good: text rendering, validation of contracts, template provenance, query tags
and the CLI (no state of their own), and the certification project (it runs the generated
SQL in a live account).
