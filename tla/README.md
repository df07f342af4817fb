# A TLA+ model of dbfresh

dbfresh runs data-freshness and data-quality checks, written in YAML, against
databases.  It keeps every observation in a local SQLite file, compares new
values with stored ones, and shows the results on a command line and in a
terminal UI (Textual).  This directory holds TLA+ models of the parts whose
correctness depends on order: overlapping runs on one store, a history that is
read and written at different moments, and a UI fed by threads it can cancel
but not stop.  All paths below are relative to `src/src/dbfresh/`.

## The system

| Component | State | Operations | Interacts with |
|---|---|---|---|
| run and persist (`runner.py`) | local to a call: `now`, adapters, connection errors, run id, results | `filter_checks`, `run_and_persist` | called by the CLI and by TUI worker threads; calls adapters, engine, store |
| observation store (`store.py`) | SQLite tables `run` and `observation`, WAL mode, busy timeout | `start_run`, `record_observations`, `finish_run`, `prune`, `latest_run`, baseline queries, column migration on open | shared by every process and thread that opens the file; no foreign keys enforced |
| status algebra (`models.py`) | none | `worst_status`, `exit_code`, `split_value` | everything |
| evaluation (`engine.py`, `checks.py`) | a thread pool per source; one adapter per source, used by one thread | `evaluate_check`, `run_checks`, `_evaluate_schema`, `_evaluate_vs_previous` | reads baselines from the store, calls `on_result` from its threads |
| TUI runs (`tui/app.py`, `tui/screens.py`) | workers of one exclusive group, `_live_results`, `last_run`, progress bar, stack of screens, grids | start a full or scoped run, handle worker and progress messages, open, close and repaint screens | one message queue between threads and the event loop; opens a second store connection per run |
| dashboard (`tui/dashboard.py`) | the Home grid's rows, day columns, cursor, filter and search; flash timers on cells | roll-ups per object and day, day markers, repaints, live cells, moving the cursor | reads the store, painted by the TUI |
| configure screen (`tui/configure.py`) | source, object and proposal being edited; a proposal worker | propose, accept, show YAML to paste | configurator, adapters, the files a person edits |
| configurator (`configurator.py`) | none | propose checks, `partition_new_checks` | configuration, adapters |
| configuration (`config.py`) | the loaded config | composition of included files, check sets, `check_id` | read at start-up and on reload |
| business calendar (`calendar.py`) | none | business time between two instants | freshness evaluation, TUI day columns |
| report (`report.py`) | none | text, JSON, rebuilding a run from the store | store |
| command line (`cli.py`) | none | `run`, `prune`, `history`, `show`, `add` | everything |
| adapters (`adapters/`) | one connection and its transaction | scalar queries, introspection | monitored databases |

What is hard about it:

* **Overlap.** Nothing keeps two runs on one store apart: cron beside a person,
  the CLI beside the TUI, two TUI threads of which one was "cancelled".  A run
  is three commits (`start_run`, `record_observations`, `finish_run`) with a
  slow evaluation in the middle, and a prune may commit in any gap.
* **Reuse of run ids.** `run_id INTEGER PRIMARY KEY` without AUTOINCREMENT
  hands the id of a deleted last row out again.
* **Crashes and failures.** A process may die between any two commits; a write
  fails when the lock is held past the busy timeout; a connection to a source
  fails; the evaluation raises.
* **Stale baselines.** A history-based check reads its baseline while it is
  evaluated and its own value is stored later.
* **Threads that outlive their cancellation.** Textual cancels the asyncio task
  of a thread worker, never the thread.  The thread goes on posting results and
  writing the store.
* **Two sources of truth on one screen.** A grid cell comes from the store or
  from a live result, and screens come and go between a result, its commit and
  the message that says so.

PROJECT.json lists the hazards line by line with the properties aimed at them.

What makes each component correct, in short: the store shows its readers whole
runs, with a status that matches their rows (runner, store); a baseline is the
last good value, and a change alarms once (engine); a run the user starts is
reported exactly once, truthfully, and the screens end up showing the store
(TUI); what the Configure screen shows and renders is about one table, the one
last asked for, and a press of Propose always ends (configure screen); a check's outcome does not depend on the checks beside it (engine,
adapters); a check has one identity whatever file it was read from (config,
configurator); business time is additive and a day is counted once (calendar).

## Modules

| Module | Models | Notes |
|---|---|---|
| `Statuses` | `models.py`, `_verdict` of `engine.py`, roll-ups and day markers of `tui/dashboard.py` | pure operators shared by all others |
| `RunLog` | what the store promises its readers | abstract specification |
| `RunStore` | `run_and_persist`, `Store.start_run/record_observations/finish_run/prune` | implements `RunLog` |
| `Baselines` | `_evaluate_schema` (unchanged), `_evaluate_vs_previous`, the baseline queries, `split_value` | one check over many runs |
| `StoreSessions` | `Store.__init__` with `_migrate`, `latest_run` and `observations_for_run` as the report screen and the "last run" line use them | opening and reading, composed with `RunStore` |
| `StoreProofs` | | theorems about `RunStore` and `StoreSessions`, checked by TLAPS |
| `TuiRun` | `run_object_checks`, `_run_checks_worker`, `on_run_progress`, `on_worker_state_changed`, the object detail screen | workers, threads and one queue |
| `HomeGrid` | `refresh_dashboard`, `flash_cell`, the live results, `GridView`, `DrillDownTable`, midnight | the Home grid's cells under one run at a time |
| `Proposal` | `propose_checks`, `offered_column_checks`, `pick_timestamp_column` of `configurator.py` | pure operators over a table's description |
| `ConfigureScreen` | `tui/configure.py` | form, worker, panels and modal, composed with `Proposal` |
| `Evaluation` | what `run_and_persist` relies on while it evaluates | abstract specification |
| `Engine` | `run_checks`, and the adapters `run_and_persist` opens and closes around it | implements `Evaluation` |
| `Config` | `config.py`: interpolation, includes, check sets, tables, building and validating, the three ways to load | pure operators over the contents of files |
| `ConfigEdits` | hand edits, `dbfresh add` (`partition_new_checks`), `dbfresh config migrate` | files as they change, composed with `Config` |
| `Calendar` | `calendar.py` | pure operators over instants and local dates |
| `Schedule` | freshness in `engine.py`, the same-weekday query of `store.py`, the day columns of `tui/dashboard.py` | one check over days, composed with `Calendar` |
| `ScheduleProofs` | | theorems about `Schedule`, checked by TLAPS |
| `EngineProofs`, `BaselinesProofs`, `TuiRunProofs`, `ConfigureScreenProofs`, `HomeGridProofs`, `ConfigEditsProofs` | | theorems about the module of the name, checked by TLAPS |
| `MCRunStore`, `MCBaselines`, `MCTuiRun`, `MCEngine`, `MCConfigEdits`, `MCSchedule`, `MCStoreSessions`, `MCHomeGrid`, `MCConfigureScreen` | | values of the constants for TLC |

A property comes with its comment in the module it is about.  Definitions whose
comment begins with "Mutant of" are altered copies of the definition after them:
plausible bugs that some property must notice.

### RunStore

| State | Code |
|---|---|
| `runTable`, `obsTable` | committed rows of tables `run` and `observation` |
| `writer`, `pending` | SQLite's write lock and the rows of the transaction holding it |
| `pc`, `now`, `scope`, `untried`, `adapters`, `failed`, `results`, `runId` | locals of `run_and_persist`: its position, resolved `now`, filtered checks, sources left to connect, open adapters, `connect_errors`, results, run id |
| `clock` | the wall clock, in ticks |

`Begin` is lines 90-97 of `runner.py` (resolve `now`, filter, collect the
referenced sources); `Connect` one `create_adapter`, successful or not;
`StartRun` the insert and commit of `start_run`; `Evaluate` one result of
`run_checks`; `FinishEvaluation` and `EvaluationRaises` the two ways out of the
`try` whose `finally` closes the adapters; `InsertObservation` one INSERT and
`CommitObservations` the commit of `record_observations`; `FinishRun` the UPDATE
of `finish_run`.  `WriteFails` is any store call raising; the caller's `finally`
closes the store, which rolls back.  `Crash` is the death of the process.
`Prune` is `Store.prune` from another connection, with a cutoff computed at an
earlier moment than its commit.  A verdict is any member of `Verdicts`, a paused
check is SKIPPED, a check on a source without adapter is an ERROR.  Values,
messages and `git_sha` are left out.

`RunLog` is the promise: a set of complete runs to which one step adds one run,
and from which one step removes all runs older than a cutoff.  `LogOf` maps the
two tables to it by reading finished runs with their rows.

### StoreSessions

| State | Code |
|---|---|
| `columns` | the added columns table `observation` has, or that there is no table yet |
| `session`, `existing`, `position` | where a `Store.__init__` is; the column names `_migrate` read; the column its loop looks at |
| `header`, `page` | the rows a reader got from `latest_run` and `observations_for_run` |

`CreateTables` is `executescript(_SCHEMA)`; `ReadColumns`, `SkipColumn`,
`AddColumn`, `AlterRejected` and `Recheck` are `_migrate`, the last two its
`except` branch; an ALTER may be rejected for any reason an `OperationalError`
has, not only because the column is there.  `DieOpening` leaves what was
committed.  `ReadLatestRun` and `ReadObservations` are two statements, and
anything of `RunStore` may commit between them; `Reconstructed` is what the
report screen makes of the two.  Calls and prunes of `RunStore` wait for a
session of their own to be open, and then are exactly `RunStore`'s.

### Engine

| State | Code |
|---|---|
| `fate` | what each check would do alone: paused, off schedule, failing to compile, failing in the database, answering |
| `failed`, `adapters` | `failed_sources`; the adapters that are open |
| `thread`, `out`, `calling` | the future of each source, its `results`, and whether it is about to call `on_result` |
| `aborted` | connections whose transaction the database has aborted |
| `main`, `taken`, `collected` | the calling thread, the groups `pool.map` has handed out, `results` |
| `delivered` | what `on_result` was given |

`Take`, `Evaluate`, `OnResult`, `OnResultRaises` and `FinishSource` are the life of
a pool thread running `run_source`; `Collect` and `CollectRaises` an iteration of
the loop over `pool.map`; `Interrupt` a Ctrl-C while it waits; `LeavePool` the end
of the `with` block, which waits for threads still running; `CloseAdapters` the
`finally` clause of `run_and_persist`.  A second Ctrl-C during that wait is not
modelled.  The adapters never roll back, so on a database that aborts a
transaction on error (PostgreSQL; SQLite, SQL Server and Databricks do not) a
failed query is followed by errors for all later checks of the source.
`ErrorsAreLocal` says that what cannot be evaluated is an ERROR and that no error
crosses from one source to another; that a query error stays with its own check,
as the specification has it, is `QueryErrorsStayOwn`, which the model refutes (see
Findings).  `Evaluation` is the
summary of all this that `RunStore` builds in as `Evaluate`, `FinishEvaluation`
and `EvaluationRaises`.

### Baselines

One check, in one of the configurations of `CheckSpecs`, is evaluated by
`Runners` again and again.  `Start` resolves `now`; `Evaluate` reads the source
and the baseline at once; `Persist` is the commit that makes the observation
visible; `Lose` is a crash or a failed write; `Drift` changes what the source
returns or makes it unreachable; `Prune` deletes the oldest rows.  Off-schedule
runs store SKIPPED rows.  Fingerprints and numbers keep the column
`split_value` gives them, because the baseline queries depend on the column.
Floats are small integers, and the ratio guard is [0.5, 2], the delta guard
[-1, 1].  A row has, beside the `at` of its run, `until`: the runs that had begun
when it was stored, so that the properties can tell a run that began after a row
was there from one that overlapped it.  `shapes` is a history variable, the
fingerprints stored so far.  The `last_same_weekday` baseline is in `Schedule`.

### TuiRun

| State | Code |
|---|---|
| `task`, `thread` | Textual's `Worker` and the thread it waits for |
| `queue` | the app's message queue: `Worker.StateChanged` and `RunProgress` |
| `live` | `DbfreshApp._live_results` |
| `home`, `screen`, `detail` | `overall` cells of the Home grid; the object screen that is open; its cells |
| `covered`, `missed` | History or Help is on top of that screen; history variable: one of its cells should have changed meanwhile |
| `bar`, `sub_title`, `last_run`, `notice` | progress bar, "running checks…", `last_run`, toast of each run |
| `stored`, `at`, `clock`, `others` | committed observations, `now` of each run, runs of other processes |

`PressRun` is `run_object_checks` with the cancellation an exclusive worker group
implies; `StartTask`, `EndTask` and `Receive` stand for Textual and are marked
external in the map.  Each handler is one action that takes one message: the
branches of `on_worker_state_changed` and `on_run_progress`.  A handler runs to
its end before the next (one event loop).  A thread writes in two commits,
`RecordObservations` and `FinishRun`, and `ThreadRaises` may come before either, so
a run reported failed may have stored its observations.  Of the History and Help
screens only this is modelled, that the detail screen under them is not the one on
top; the Store screen, from which no run shows, is left out; filters, search and day cells are in `HomeGrid`, the Report screen's
reads in `StoreSessions`.

### HomeGrid

| State | Code |
|---|---|
| `columns`, `cells`, `cursor` | the painted `DataTable`: day columns, object rows with status, marker and highlight, the cursor's row among headers |
| `timers` | `_cell_flash_timers`, each with the plain cell its `restore` writes |
| `hide_ok`, `search` | `GridView` |
| `today` | the date in the display time zone |
| `phase`, `announced`, `runDay`, `outcome`, `live`, `runs` | a run: how far it is, the day its RUNNING was handled on, the day of its `now`, its verdicts, `_live_results`, how many there were |
| `history` | stored observations |
| `liveRows` | history variable: rows a live result wrote since the last repaint |
| `behind` | history variable: whether a run stored observations that no repaint has shown, and whether that run has failed since |

`Refresh` is `refresh_dashboard` with `cancel_flashes`, `hide_empty_off_days`,
`GridView.apply`, `populate_grid` and `_skip_leading_header_cursor`; it is part of
every action whose handler calls it.  `HandleProgress` is `on_run_progress` down
to the two calls of `flash_cell`; `Restore` a flash timer.  `HandleError` ends a run
that failed before its observations were stored or after.  A search is the set of
objects it matches.  One run at a time: what runs do to each other is in
`TuiRun`.  Every check comes back in a run (no object-scoped runs), and a reload
finds the same configuration.  Of the ways to move the cursor only the arrow
keys are overridden by the code; the table's own (page keys, mouse) are left out.

### Proposal and ConfigureScreen

| State | Code |
|---|---|
| `form` | the selected source and object, as one table, and the timestamp entered |
| `queue` | button presses and worker states the screen has yet to handle |
| `newest`, `asked`, `task`, `thread`, `answer`, `adapters` | per press of Propose: its arguments, Textual's `Worker`, the thread in `_propose_worker`, its `_ProposeOutcome`, its connection |
| `enabled`, `busy` | the Propose button; "proposing checks…" in the title |
| `panels`, `modals` | the mounted boxes with their table and notes; the YAML screens, one on top of another |
| `files`, `parses`, `edits`, `twice` | the checks the files define under their own names; whether every file is YAML; hand edits; whether a check was pasted beside itself |
| `open`, `patient` | the screen exists; each press of Propose waited for the one before to be handled |

A block is what `check_id` hashes: table, metric, column.  A table is described
by its columns (name, category, nullable, conventional or not), its
single-column keys, whether it is a view, and what its dialect can do; composite
keys, which propose nothing, are left out.  `HandlePropose`
cancels the worker of the press before (exclusive group).  `HandleProposalTwice`
mounts boxes beside boxes: their widget ids repeat and Textual raises, which ends
the app (the model: the screen).  So does what `partition_new_checks` raises when a
file is not YAML (`HandleAcceptRaises`).  Where a handler reads an input that may not
parse, it may fail.  A press is a message in the queue and disables nothing before
it is handled, so both buttons can be pressed again (`MaxWaiting` bounds how often),
and two presses of Accept stack two YAML screens.  `Veiled` are checks in the files
whose table is written `${VAR}`, which `partition_new_checks` does not recognize;
how it computes ids is in `ConfigEdits`.

### Config and ConfigEdits

| State | Code |
|---|---|
| `files` | per file: the `checks:` list, the `tables:` list, the `check_sets:` mapping |
| `edits` | hand edits and pasted proposals so far, a bound only |

`Config` translates `load_config`, `load_config_tolerant` and `validate_config`
as three readings of one composition.  A problem is a member of a set of kinds:
the loaders stop at the first, `validate_config` collects.  A table stands for
source and object together, a metric for everything else the derived `check_id`
hashes, and a check's `body` says which step rejects it: flattening, building or
validation.  Variables occur in table names only.  A loaded configuration's
`Meaning` is the set of check identities with their tables and whether they run,
and the tables that are described.

`ConfigEdits` lets people write checks, entries and sets from small libraries
(`CheckForms`, `EntryForms`, `SetForms`) that hold one specimen of each way to be
right or wrong.  dbfresh never writes a configuration: `add` and `config migrate`
print a block, and `AddChecks` and `Migrate` include the paste.  `Migrate` works
on one file as written, with variables unreplaced, and hoists `active` to the
regrouped entry exactly where the code does.

Left out: YAML itself, include patterns and their expansion, included files that
are bare lists, the rules for each field of a check, unknown keys, malformed
metadata, and values of `active` that are not booleans.

### Calendar and Schedule

| State | Code |
|---|---|
| `now`, `modified` | the clock; the newest timestamp of the checked table |
| `obs` | the check's committed observations: instant, weekday, status |
| `check` | its configuration: `calendar`, `max_lag`, `on_holiday`, `by_weekday`, severity, `skip_off_schedule` |

Instants are half hours since midnight UTC of date 0, and the constant `Midnight`
gives the instant each local date begins: a time zone with its clock changes is
any increasing sequence of midnights between UTC-12 and UTC+14.  A country's
holidays, `extra`, `remove` and `workdays` are constants; parsing them is left out.

`Run` is an evaluation of the check with the commit of its row; `RunStore` and
`Baselines` have the steps in between.  A query may fail or answer; a table that
is empty, or whose newest timestamp is in the future, is not modelled.
`LastSameWeekdayObservation`, `History`, `Bucket`, `DayCell` and `Columns` are
readers, evaluated in every state rather than being steps of their own.  The
same-weekday query returns a good row, whatever the metric: the check that reads
it is a numeric one, but its rows are written by the same code.

## Runs

| Run | Bounds | States | Shows |
|---|---|---|---|
| `RunStoreSafety` | 2 calls, 2 checks on 2 sources, retention 1, 3 ticks | 1.4 M | finished runs are complete, runs land and leave whole, the inductive invariant of the proofs (types, ownership of run rows, no orphans among its parts), refinement of `RunLog` |
| `RunStoreLive` | the same, 1 tick, one check paused | 78 k | every call ends |
| `BaselinesHistory` | 2 runners, 4 runs, 6 configurations | 2.8 M | a run alarms for exactly what changed since the last row stored before it began, no new shape passes unnoticed, verdicts agree with the stored history, broken runs never lose a baseline |
| `StoreSessions` | 2 calls and 1 reader, 1 check, 2 added columns, retention 1, 2 ticks | 469 k | an open store has every column; a reader's header and rows belong together |
| `ConfigureScreen` | 2 presses of Propose, 2 waiting at a time, 1 hand edit, several forms and descriptions | 514 k | panels answer the last press; the Propose button; every press ends, its connection closed |
| `HomeGrid` | 2 objects on 2 sources with 3 checks, 2 runs, 2 days of which the first is off, window 2 | 907 k | highlights fade to the cell's own text; the cursor is on an object row; live results land, `overall` and today alike; the grid is the store unless a run in flight, or one that failed after its commit, left it behind |
| `TuiRunScreens` | 2 runs, 2 objects with a check each, nothing covers a detail screen | 2.6 M | each run is reported once and truthfully (`ReportsStand`, `NoticeTellsTruth`); the bar and the sub-title (`ScreenInv`); the grid settles |
| `TuiRunLive` | 2 runs, 1 object with a check, 1 run of another process, History and Help on top | 565 k | every run is eventually reported; the detail screen shows what is known of its check (`DetailAgrees`) |
| `EngineFanOut` | 2 sources with 2 checks each, all fates, any failed connections | 522 k | no missing or closed adapter (`EngineInv`), results in a fixed order, each delivered once, errors stay local, refinement of `Evaluation`, every evaluation ends |
| `ConfigEdits` | 3 edits, 3 files, 10 entry, 5 check and 3 set forms | 85 k | load order is irrelevant (`FilesInv`), `validate` foresees what a load does, pasted proposals load and are not proposed again, migration keeps the meaning and converges |
| `ScheduleDays` | 9 dates, 15 instants, 3 runs, 2 rows fetched | 405 k | business time counts business days and falls only after off days; the weekly baseline is a whole number of weeks old; no failure is hidden by a column or a better end of its day |
| `ConfigVariables` | as `ConfigEdits` | | a counterexample to what the docs say; see Findings |

Why the bounds suffice.  In `RunStore` two calls are what it takes to race for
an id or the lock, with a prune as the third party; three ticks allow a prune
to remove a run, its id to be reused and the second call to be caught at the
edge of the retention; with two sources one can fail while the other answers.
A third call adds no new kind of conflict: every invariant relates at most two
calls, and the proofs cover any number.  In `Baselines` four runs give a
baseline, two runs of any kind in between and the run compared; the scalars
include null, zero, two values within and one outside both guards, and a
Decimal, which is stored as text; two runners overlap, and exchanging them changes
nothing.  In `Engine` two checks per
source let an earlier one affect a later one, and two sources race.  In `TuiRun`
two runs are one superseding the other at every point, and two objects
distinguish a full run from a scoped one and a screen on the touched object
from one on another.  The liveness run needs one object only, since what is
waited for is the thread and the queue; its detail screen has one check, which is
enough for `DetailAgrees`, since the cells of a screen are written one by one and none
depends on another (the theorem has any number).  Covering that screen matters to
`DetailAgrees` alone, so `Overlays` is empty in `TuiRunScreens`.  Calls in `RunStoreSafety` are
symmetric, as are those in `StoreSessions` and in `TuiRunScreens` the two objects, each with its check: no
definition tells one from another.

In `ConfigEdits` three edits write a set, a use and an override of it, or two
entries and a flat check of one table, which is what hoisting looks at; two
included files can be read in two orders.  One set name suffices because sets do
not refer to each other.  `Meant` makes the variable stand for a table nobody
else names; `ConfigVariables` lets it stand for the table the wizard is run for.

In `ScheduleDays` nine dates hold a weekend, a week back to the same weekday, an
extra holiday, a country's holiday and one that is removed; Sunday has 25 hours;
the morning instants have the same date in UTC, the evening ones do not.  Two of
at most three rows are fetched, so that the limit (`_HISTORY_FETCH_LIMIT`, 50 in
the code) can hide the third.  The theorems cover any dates, time zone and limit.

In `StoreSessions` two openers race for two columns, so that one may be behind the
other by one, and a reader is the third.  Its calls have one check and the same
retention as in `RunStoreSafety`.  In `ConfigureScreen` two presses are one
superseding, following or doubling the other, two waiting presses of Accept stack two
YAML screens, and one edit adds or removes a check, or breaks a file, at any time; a third press took TLC far longer and adds
no new pair.  In `HomeGrid` the first object has two checks, so that a row's
roll-up differs from a check's own status, and the other is of another source, so
that hiding the first moves a header; the two checks of the first object are
interchangeable (`Twins`).  Two days give one midnight, before, within, between
and after two runs; the first day is off, so that it has a column only as today
or with data.

`EngineFanOut`, `ScheduleDays`, `StoreSessions`, `ConfigureScreen`, `HomeGrid` and the
two runs of `ConfigEdits` switch deadlock checking off: an evaluation ends, a
refused session or a closed screen stays so, and dates, runs and edits are
bounded.  Nowhere else: `Tick`, `Prune` or
`Repaint` stay enabled there, so "everyone waits" would show up in the liveness
runs, not as a deadlock.

## Fairness

`RunStoreLive`: weak fairness of each call's next step once it has begun.  A
call is a sequential program in a process the operating system schedules; it
blocks only on the write lock, and whoever holds that either commits, fails or
dies.  Starting a call, faults, prunes and time are not fair.  Weak fairness
suffices although the lock comes and goes because only finitely many calls
compete for it; SQLite's busy timeout, which would end the wait by an error,
appears as the fault `WriteFails` and is not relied on.

`EngineFanOut`: weak fairness of each pool thread and of the caller; queries end
(sources have a `timeout`) and so do calls of `on_result`.  Interrupts are not
fair.

`ConfigureScreen`: weak fairness of the screen taking its next message, of each
task's start and end, and of each proposal thread, whose connection and queries
end by timeout or error.  The person is not fair.  `EveryPressEnds` therefore
holds without anyone pressing anything further.

`TuiRunLive`: weak fairness of handling messages (the event loop takes the next
message whenever there is one), of each thread's next step up to `FinishRun` or a failure, and of each task learning that
its thread ended.  The user is not fair, and neither is any other process.

## Proofs

`StoreProofs` proves about `RunStore`, for any number of calls, checks,
sources and objects, and for an unbounded clock up to `MaxClock`:

* `TypeCorrect`: `Spec => []TypeOK`, from `RunStoreAssumption` alone;
* `StoreCorrect`: `Spec => []StoreInv`;
* `FinishedRunsAreComplete`, `RunsLandAndLeaveWhole`: the safety properties of
  `RunStoreSafety`;
* `NoOrphanObservations`, `RunRowsAreOwned`: parts of `StoreInv` by themselves;
* `StoreImplementsRunLog`: `Spec => ImplementsRunLog`.

All but the first assume `MaxRunTime <= Retain`: no run takes longer than the
retention of a prune.  The assumption is necessary: with retention 0 (allowed by
`config.py`, lines 169-179) a prune deletes the row of a run in progress, and
TLC finds orphaned observations.

The argument.  The properties wanted are not inductive: that a finished run's
status is the worst of its rows says nothing about runs still in progress.
`StoreInv` adds, for every call, what its row and its observations look like at
its position (`OwnRunRow`, `AllOrNothingSoFar`, `OneResultPerCheck`), that every
observation carries its run's start time (`StampedWithStart`, which is why a
prune takes a run whole: both deletes compare the same instant), and that a
call's `now` is no older than `MaxRunTime` (`WithinRunTime`, which is why a prune
never takes a run in progress).  A new run row is the largest id, so it is no
live call's, since live calls' rows exist.  Type correctness and the rest are
proved in one induction with one lemma per kind of step (`StartRunStep`,
`EvaluateStep`, `CommitStep`, `FinishRunStep`, `PruneStep`, `TickStep`, and
`LocalStep` for those that touch neither table).  The refinement maps
`FinishRun` to `Publish`, `Prune` to `Expire` and every other step to a stutter.

`ScheduleProofs` proves about `Schedule`, from the assumptions on its constants:

* `TypeCorrect`: `Spec => []TypeOK`;
* `LagBounded`: `Spec => []LagWithinElapsed`, assuming `NoShortDays`;
* `LagFalls`: `Spec => LagFallsOnlyAfterOffDays`;
* `LagCounts`: `Spec => []LagCountsBusinessTime`;
* `BaselineIsWeekly`: `Spec => []SameWeekdayBaseline`;
* `FailuresVisible`: `Spec => []FailuresStayVisible`.

Here `TypeOK` is inductive and strong enough: it says that a row carries the
weekday of its local date and none is in the future.  The rest is what a calendar
grants: dates are ordered like instants (`LocalDateMonotone`), the UTC date of an
instant is at most one off its local date (`DatesOfInstant`), equal weekdays are
whole weeks apart (`SameWeekday`), and there are no more off days between two
dates than dates (`OffDaysBounded`).  So a floor of six days in UTC dates admits
a row five to seven days back in local dates, of which the weekday leaves seven.
`NoShortDays` is needed: see Findings.

`LagCounts` compares a formula with a count over all dates in between, so it is
proved by induction on the date: business time up to a date's midnight is the
time elapsed less 24 hours for each off day before it (`CountedAtMidnight`).  One
date more adds the whole date to one side or the other (`OffDaysGrow`,
`CountedParts`).  The induction is written out as the absence of a least
counterexample (`LeastNatural`, from the well-foundedness of the naturals).

`StoreProofs` also proves about `StoreSessions`, for any number of processes,
readers and added columns:

* `SessionsAreRuns`: `SessionSpec => Spec`, so what is proved of `RunStore`
  holds of processes that first have to open the store;
* `OpenStoresAreCurrent`: `SessionSpec => []OpenStoreIsCurrent`;
* `PagesMatchHeaders`: `SessionSpec => []PageMatchesHeader`, assuming
  `MaxRunTime <= Retain`.

`OpenStoresAreCurrent` rests on `MigrationInv`: columns are only ever added, so
what one opener's single reading saw is still there, and every column its loop
has left behind is there too, because it was seen, added or found by the second
look; nobody's step disturbs another's progress (`OthersProgress`).  The last
rests on `OneRun`: between its two reads a reader holds the row as it is stored,
and finished, or one that has expired.  `FinishedStays` is why: a finish changes
its own call's row only, which reads RUNNING (`OwnRunRow`); a new run never takes
an id that is there; a prune's cutoff is no later than the clock less the
retention.

`EngineProofs` proves about `Engine`, for any checks and sources (each check of
one source), any set of databases that abort transactions, and any fates:

* `EngineCorrect`: `Spec => []IInv`, the invariant the others follow from;
* `AdaptersAreAtHand`, `ResultsComeInOrder`, `ResultsAreDeliveredOnce`,
  `ErrorsStayLocal`: the four invariants of `EngineFanOut`;
* `EngineImplementsEvaluation`: `Spec => ImplementsEvaluation`.

That results are ordered says nothing about the threads before the caller has
collected them, so `IInv` says for each thread that its results are a prefix of
its checks in config order, that `on_result` has had all of them but at most the
one it is being called with (`Deliveries`), and that its connection is aborted
exactly since its first failing query (`Abortions`); for the caller that it takes
finished groups in the order the sources first appear (`Collection`), and that the
adapters are open until it has left the pool, which it does when no thread is
running (`CallerInv`).  The refinement maps each thread's next result to a result
of the summary and the end of the `with` block to the return or the exception;
everything else stutters.

`BaselinesProofs` proves about `Baselines`, for any configurations, scalars and
number of runs:

* `TypeCorrect`: `Spec => []TypeOK`;
* `ChangesAlarm`, `BaselinesSurvive`, `VerdictsMatch`: the other three invariants of
  `BaselinesHistory`, and `NewShapesAlarm`: its action property, for any number of
  runners, overlapping or not.

The invariant is `History`: of the stored rows and the rows that runs under way are
about to leave, each agrees with every row that was stored before its run began
(`StoredFit`, `PendingFit`) about what lies between them.  It must include rows not
yet stored, since the baseline is read when a row is made.  What lies between is all
that began after the earlier row was stored and is there when the later one is:
another run may still put a row there, which only makes the claim weaker
(`MoreBetween`), or a prune take one, but a prune takes the oldest rows, so what lies
between two that stay is what it was.  `ShapesKnown` is for `NewShapesAlarm`: a
fingerprint that passed was once stored.

`TuiRunProofs` proves about `TuiRun`, for any checks, objects and number of runs:

* `RunsCorrect`: `Spec => []IInv`, and from it `BarIsTruthful`,
  `ToastsTellTheTruth` and `ToastsStand`, whatever other processes do;
* `HomeSettles`, `DetailIsCurrent`: `DashboardSettles` and `DetailAgrees`, which are
  about sessions in which no run was superseded or failed and no other process stored
  one (`Undisturbed`), since nothing tells the app of rows others write; for
  `DetailAgrees` any screens may cover the detail screen.

`WorkInv` is about tasks and threads: only the newest run's task may be alive, a
thread may be ahead of a cancelled task but not behind an ended one, and stamps
are handed out once.  `ReportInv` and `BarInv` are about the queue: ends of runs
come in the order of the runs, agree with how they ended, and the last message
that concerns the bar leaves it as it should be.  `DetailInv` reads the queue the
same way for each check: the last message about it is true of the run under way,
or else of the store, and a screen may be wrong only about checks whose message is
still to come (`ScreensTrue`, `LastNewsTrue`, `NewsFollow`, `NewestRun`).

`ConfigureScreenProofs` proves about `ConfigureScreen`, for any tables,
descriptions and numbers of presses and edits:

* `ScreenCorrect`: `Spec => []IInv`;
* `ProposeIsTruthful`, `PanelsAreTheLastAnswer`: the two invariants of its run.

For a `patient` person `Messages` bounds the queue: at most one press of Propose, which found
the button enabled, at most one end, that of the newest press, and the start of a
worker before its end.  Without patience none of this holds, and `IInv` says no
more than types, who works on what (`WorkInv`) and how many presses there are
(`CountInv`).

`HomeGridProofs` proves about `HomeGrid`, for any objects, sources, checks, off
days, window and searches, and any numbers of days and runs:

* `GridCorrect`: `Spec => []IInv`;
* `HighlightsFade`, `LiveResultsAreShown`, `GridShowsTheStore`: the three
  invariants of its run, from the assumptions on the constants alone.

`GridInv` and `LiveResultsLand` need `TimerInv`, that restores are pending only for
cells of rows a live result wrote and put unlit cells there: then two restores
never share a cell, and a restore changes neither a status nor a row that should
read as the store does.  No column is ahead of today (`GridTypes`), so midnight
leaves the grid without a column for the new day rather than with a wrong one.
`PaintInv` is the second part of `GridIsTheStore`: as long as nothing has been
committed that no repaint has shown, the grid is the store.  Between a commit and the
SUCCESS that repaints it is older, and after a run that failed in between it stays so
until the next repaint.  The cursor's part rests on `RowsAreNumbers`: object rows are
numbered, so that there is a first and a last.

`ConfigEditsProofs` proves about `ConfigEdits`, for any number of files, tables,
variables, sets and metrics, any forms of checks, entries and sets, and files of any
length:

* `TypeCorrect`: `Spec => []TypeOK`;
* `OrderIsIrrelevant`, `ValidationForeseesLoad`, `MigrationAlwaysKeepsMeaning`,
  `MigrationAlwaysConverges`: four invariants of its run, from the assumptions on the
  constants alone;
* `AddedChecksAlwaysLoad`: `NoAliases => (Spec => []AddedChecksLoad)`.

`NoAliases` says that no `${VAR}` stands for a table the wizard is run for.  It is
needed: `ConfigVariables` is what happens otherwise (see Findings).

The inductive part is small.  What files can hold does not restrict the invariants,
so each follows from `TypeOK`; the work is in what composing, grouping and
partitioning compute.  The lemmas go up from sequences: what `Picked` and `Where`
return, keep and clash on (`PickedInOrder`, `WhereConcat`), and what flattening a
sequence of sequences holds (`FlattenFacts`, by induction over its length, written
out as the absence of a least counterexample).  Of a composed list only two things
matter, which checks it holds and whether two of its places have the same identity,
and neither depends on the order of the files, nor does who defines a set once none
is defined twice: hence `OrderIsIrrelevant`.  `OneFileChanged` puts it to use for edits:
exchanging one file leaves a configuration loading and meaning the same when the new
file contributes the same checks without a clash, the same sets and the same
descriptions.  For `add`, the pasted entries flatten to the proposed blocks
(`GroupFlattened`), which clash with nothing.  For `migrate`, what is hoisted to an
entry comes back to each of its checks when the entry is flattened again
(`FlattenedRegained`), and set-backed entries stay as they are.  It converges because
grouping a grouped list leaves the order alone (`DistinctAlready`) and no table has
two entries left to unhoist.

These proofs made changes to the models, of form only: parentheses in
`OfferedColumnChecks`, whose precedence the provers read differently; `With` in
`HomeGrid` in place of an operator of module `TLC` that they do not know; and
`Picked` and `Where` in `Config`, which take a part of a sequence by its places or its
elements, in place of `SelectSeq`, whose operator parameter they cannot instantiate.

Proved but in no run's list: `ReferentialIntegrity`, `OwnRunRow` and `TypeOK` of
`RunStore`, which are parts of `StoreInv`; `TypeOK` and `LagWithinElapsed` of
`Schedule`, which their theorems settle; that sessions run as `RunStore` does;
`TypeOK` of `ConfigEdits`, a part of its `FilesInv`; and the inductive invariants of
the other modules above, which TLC also found to hold in the instances of their runs.

Checked by TLC only: liveness (`EveryCallEnds`, `EvaluationEnds`,
`EveryRunIsReported`, `EveryPressEnds`), which is out of the prover's reach.  Every
invariant and action property of a passing run is stated by a theorem.

## Findings

* `ConfigVariables`: `dbfresh add` compares its proposals with the files as written
  (`configurator.py:706`), so a check whose table is a `${VAR}` is proposed again
  although it is "already defined, not proposed again"
  (`src/docs/authoring-checks.md:112`), and the pasted block does not load.

The modules also state sentences of the docs, the comments and a test that the code
does not keep to.  Each is an invariant that TLC refutes in the instance of the run
named, in a minute or less; they are in no run's list.

* `QueryErrorsStayOwn` of `Engine` (`EngineFanOut`).  "Query error (bad column,
  permission, syntax): that check → ERROR" (`src/docs/original-specification.md:954`).
  A source's checks share a connection and a transaction that nothing rolls back
  (`adapters/base.py:224`), so on PostgreSQL the later checks are errors too.
* `ChangeAlarmsExactlyOnce` of `Baselines` (`BaselinesHistory`).  "once a drift is
  detected it alarms (FAIL/WARN) exactly once, and the new shape becomes the baseline
  for the next run" (`engine.py:381`).  Two overlapping runs compare with the same
  baseline: both alarm for one change, or the later row is judged against a third.
* `HeldOpenAgrees` of `TuiRun` (`TuiRunLive`).  "a screen opened mid-run and one held
  open across the same run agree" (`tui/screens.py:787`).  Results and the refresh at
  the end of a run reach a detail screen only while it is on top (`tui/app.py:679`,
  `:866`), and nothing refreshes it when History or Help goes.
* `LiveIsThisRuns` of `TuiRun` (`TuiRunLive`).  "a stale result left over from a
  previous run (or one cancelled mid-flight) must never contribute to this run's live
  rollup" (`tui/app.py:797`).  The thread of a superseded run goes on, and
  `on_run_progress` does not ask whose result it gets; such a message also leaves the
  sub-title at "running checks" for good (`tui/app.py:652`).
* `HiddenRowsReconciled` of `HomeGrid` (`HomeGrid`).  "The end-of-run refresh
  reconciles a hidden row from the store regardless, so it is never left stale"
  (`tui/app.py:707`).  A run whose `finish_run` raises has its observations stored
  (`runner.py:137-140`) and repaints nothing (`tui/app.py:847`).
* `NothingPastedTwice` of `ConfigureScreen` (`ConfigureScreen`).  "accepting twice
  can't produce a duplicate" (`src/docs/tui.md:84`).  A press of Accept does not
  disable it, and the files are read when it is handled: two presses one behind the
  other show the same blocks twice.
* `BusyWhileProposing` of `ConfigureScreen` (`ConfigureScreen`).  "shows a busy state
  the whole time" (`src/tests/test_tui_configure.py:361`, asserted at `:408`).  Of two
  presses in a row the first worker is cancelled, and hearing of that the screen
  enables Propose and clears the title while the second works
  (`tui/configure.py:573`); if the first had already answered, boxes are mounted
  beside boxes of the same id and the app ends.

Seen in the models without a run of their own: adapters are not always closed,
although `run_and_persist` "always closes the adapters afterward"
(`runner.py:76`), since `start_run` runs outside the `try` that closes them
(`runner.py:115`); a Decimal, what drivers return for NUMERIC columns, lands in
`value_text` although "a numeric observation always lands in ``value``"
(`models.py:43`), and never serves as a baseline; the "last run" line may count 0 checks for a run that a prune removed between
its two reads (`tui/dashboard.py:161`); after a midnight during a run live results
reach `overall` but no day cell, until a repaint (`tui/app.py:745`); run ids are not monotonic in start
order (`store.py:257`), since `now` is resolved before connecting and the id
assigned after; a run that errors leaves the cells its results painted
(`tui/app.py:791`), and "Run failed" does not mean that nothing was stored; a flat check that is no mapping ends loading and `config
validate` with an AttributeError instead of a ConfigError (`config.py:1252`,
`config.py:1299`); `config migrate` has no answer for an included file that is a
bare list although `src/docs/configuration.md:598` sends every included file
through it; two TUI runs can write at the
same time although `tui/app.py:589` says they cannot (the superseded thread goes
on); `live_status` answers for runs that have ended (`tui/app.py:683`); a prune
with a retention shorter than a run orphans observations (`store.py:42`); a
FAIL row stored for an empty table has a null value and hides the numeric
baseline before it until the next good value; a repaint of the dashboard in the
middle of a run puts stored statuses back over live ones until the run ends; with
`on_missing: skip` a run without a baseline is stored as SKIPPED, which never
serves as one, so every later run is skipped too (`engine.py:459`), while
`src/docs/history.md:52` names only `--no-store` as the case that never ends;
business time between a Saturday and a Monday around a Sunday of 23 hours may be
negative by up to an hour (`calendar.py:82`), while
`src/tests/test_calendar.py:127` has it "never negative", in a time zone without
clock changes; an alarm of a freshness check by business time can clear itself
without fresh data, when a non-business date ends and its 24 hours are taken off
(`LagFallsOnlyAfterOffDays` says at no other time); `src/docs/tui.md:13` colors a
day cell by the worst status of the day, the code by the last with a marker for
worse ones (`tui/dashboard.py:479`); more than 50 observations of one check within
the seven dates push the oldest out of its day cells, and with them off-day
columns said never to hide information (`tui/dashboard.py:39`, `:325`).

## Not modelled

Check parsing and messages, SQL text, report layout, generated docs, logging,
environment files and URL parsing have no state or order to go wrong in the
sense of these models.  The Databricks adapter looks for the last write among
the newest 20 entries of a table's history (`adapters/databricks.py:320`): enough
OPTIMIZE or VACUUM entries hide it and the table counts as empty rather than
fresh or stale; that is one query and a filter, which a model would only repeat.  What the
History, Store and Help screens show is text over single reads; the confirmation of a
prune in the Store screen leads to `Store.prune`, which is in `RunStore`.  The
`init` interview and the rendering of YAML are text.

## Plan

Done: the store and its runs, baselines, the fan-out, configuration and its
edits, the calendar, the TUI's runs, the Home grid, the Configure screen, opening
and reading the store.  Left:

1. Proofs for every value of the constants are there for every safety property of a
   passing run.  What could follow: liveness arguments by hand, since the prover has
   none, and theorems about the operators of `Calendar` and `Proposal` by themselves.
2. `HomeGrid` composed with two runs that supersede each other, if the state
   space allows.
