------------------------------ MODULE HomeGrid ------------------------------
(***************************************************************************)
(* The Home grid of the TUI (tui/dashboard.py, driven by tui/app.py): one  *)
(* row per object under a header row per source, an `overall` cell and one *)
(* cell per trailing day.  Repaints rebuild it from the store through the  *)
(* user's filter and search; results of a run in flight are written into   *)
(* single cells, lit up for a moment; midnight passes while it shows.      *)
(*                                                                         *)
(* One run at a time: TuiRun has runs that supersede each other, and the   *)
(* message queue.  Here a run's RUNNING message and its thread's `now` may *)
(* come in either order, with midnight in between.                         *)
(***************************************************************************)
EXTENDS Statuses, Sequences

CONSTANTS
  MaxRow,    \* number of objects: the rows, in (source, object) order
  SourceOf,  \* the source of each object
  Checks,    \* the configured checks
  ObjectOf,  \* the object of each check
  Verdicts,  \* statuses a check may come back with
  Needles,   \* what searches match: sets of objects, all of them for ""
  OffDays,   \* days that are not business days
  Window,    \* _TRAILING_DAYS
  MaxDay,    \* bound on the midnights that pass
  MaxRuns    \* bound on the runs started

Objects == 1..MaxRow
Days == 1..MaxDay

ASSUME HomeGridAssumption ==
  /\ MaxRow \in Nat /\ MaxDay \in Nat \ {0} /\ MaxRuns \in Nat /\ Window \in Nat \ {0}
  /\ DOMAIN SourceOf = Objects
  /\ ObjectOf \in [Checks -> Objects]
  /\ Verdicts \subseteq Status
  /\ Needles \subseteq SUBSET Objects /\ Objects \in Needles
  /\ OffDays \subseteq Days

VARIABLES
  today,      \* the date in the display timezone
  runs,       \* runs started
  phase,      \* where the run in flight is
  announced,  \* the day its RUNNING message was handled on, 0 before
  runDay,     \* the day of its `now`, 0 before its thread has one
  outcome,    \* what its checks came back with, as far as it shows
  live,       \* _live_results: check -> status
  history,    \* the stored observations of each check, oldest first
  hide_ok, search,  \* GridView
  columns,    \* the day columns painted
  cells,      \* the object rows painted: object -> column -> cell
  cursor,     \* the cursor's row, counting header rows, from 0
  timers,     \* pending restores: where, and the plain cell they write
  liveRows,   \* history variable: rows a live result wrote since a repaint
  behind      \* history variable: the run, in flight ("run") or "failed",
              \* that has stored rows since a repaint, "no" run otherwise

storeVars == history
runVars == <<runs, phase, announced, runDay, outcome, live>>
viewVars == <<hide_ok, search>>
gridVars == <<columns, cells, cursor, timers, liveRows>>
vars == <<today, runVars, storeVars, viewVars, gridVars, behind>>

Overall == 0  \* the key of the `overall` column, beside the days
Visible == DOMAIN cells

NoOutcome == [k \in {} |-> NoStatus]
ChecksOf == [o \in Objects |-> {k \in Checks : ObjectOf[k] = o}]

-----------------------------------------------------------------------------
(* Rows from the store: _rollup, bucket_by_day, hide_empty_off_days.       *)

Plain(status, marker) == [status |-> status, marker |-> marker, lit |-> FALSE]

TrailingDates(day) == {d \in Days : d <= day /\ day - d < Window}

StatusesOn(k, d) == {history[k][i].status : i \in {j \in DOMAIN history[k] : history[k][j].day = d}}

\* The latest status of a check, on day d or, for d = Overall, ever.
LatestOn(k, d) ==
  LET seen == {i \in DOMAIN history[k] : d \in {Overall, history[k][i].day}}
  IN IF seen = {} THEN NoStatus
     ELSE history[k][CHOOSE i \in seen : \A j \in seen : j <= i].status

RollupOn(o, d) == WorstOrUnknown({LatestOn(k, d) : k \in ChecksOf[o]} \ {NoStatus})

StoreCell(o, d) ==
  IF d = Overall THEN Plain(RollupOn(o, d), NoStatus)
  ELSE LET latest == RollupOn(o, d)
       IN Plain(latest, DayMarker(latest, UNION {StatusesOn(k, d) : k \in ChecksOf[o]}))

\* Mutant of KeptDates: the rows the view hides no longer count.
KeptDatesOfVisible(day) ==
  {d \in TrailingDates(day) :
     \/ d = day
     \/ d \notin OffDays
     \/ \E o \in search : (hide_ok => RollupOn(o, Overall) # "OK")
                          /\ RollupOn(o, d) # NoStatus}

\* Today stays, business days stay, and so does any day with data in any row.
KeptDates(day) ==
  {d \in TrailingDates(day) :
     \/ d = day
     \/ d \notin OffDays
     \/ \E o \in Objects : RollupOn(o, d) # NoStatus}

\* GridView.apply.
Applied(hide, needle) ==
  {o \in needle : hide => RollupOn(o, Overall) # "OK"}

-----------------------------------------------------------------------------
(* The table: header rows, the cursor, repaints.                           *)

\* Where object o's row is, among rows and the headers of their sources.
RowOf(o, visible) ==
  LET upTo == {p \in visible : p <= o}
  IN Cardinality(upTo) + Cardinality({SourceOf[p] : p \in upTo}) - 1

ObjectRows(visible) == {RowOf(o, visible) : o \in visible}

First(rows) == CHOOSE i \in rows : \A j \in rows : i <= j
Last(rows) == CHOOSE i \in rows : \A j \in rows : j <= i

\* _skip_leading_header_cursor, after DataTable.clear put the cursor on row 0.
LeadingRow(visible) == IF visible = {} THEN 0 ELSE First(ObjectRows(visible))

\* Mutant of Refresh: the pending restores are not cancelled.
RefreshWithoutCancel(hide, needle) ==
  LET visible == Applied(hide, needle)
  IN /\ columns' = KeptDates(today)
     /\ cells' = [o \in visible |-> [d \in columns' \cup {Overall} |-> StoreCell(o, d)]]
     /\ cursor' = LeadingRow(visible)
     /\ liveRows' = {} /\ behind' = "no"
     /\ UNCHANGED timers

\* refresh_dashboard: pending restores are cancelled, every row is computed
\* from the store, and those the view lets through are painted.
Refresh(hide, needle) ==
  LET visible == Applied(hide, needle)
  IN /\ columns' = KeptDates(today)
     /\ cells' = [o \in visible |-> [d \in columns' \cup {Overall} |-> StoreCell(o, d)]]
     /\ cursor' = LeadingRow(visible)
     /\ timers' = {}
     /\ liveRows' = {} /\ behind' = "no"

\* on_mount: the first repaint, over whatever is stored.
Init ==
  /\ today = 1
  /\ runs = 0 /\ phase = "idle" /\ announced = 0 /\ runDay = 0
  /\ outcome = NoOutcome /\ live = NoOutcome
  /\ history = [k \in Checks |-> <<>>]
  /\ hide_ok = FALSE /\ search = Objects
  /\ columns = KeptDates(today)
  /\ cells = [o \in Objects |-> [d \in columns \cup {Overall} |-> StoreCell(o, d)]]
  /\ cursor = LeadingRow(Objects)
  /\ timers = {}
  /\ liveRows = {} /\ behind = "no"

-----------------------------------------------------------------------------
(* The user, and the calendar.                                             *)

ToggleFilter ==
  /\ hide_ok' = ~hide_ok
  /\ Refresh(hide_ok', search)
  /\ UNCHANGED <<today, runVars, storeVars, search>>

\* on_input_changed, also when Escape clears the box.
Search ==
  /\ \E needle \in Needles \ {search} : search' = needle
  /\ Refresh(hide_ok, search')
  /\ UNCHANGED <<today, runVars, storeVars, hide_ok>>

Reload ==
  /\ Refresh(hide_ok, search)
  /\ UNCHANGED <<today, runVars, storeVars, viewVars>>

MoveTo(row) ==
  /\ cursor' = row
  /\ UNCHANGED <<today, runVars, storeVars, viewVars, columns, cells, timers, liveRows, behind>>

\* Mutant of CursorUp: the next row up, whatever it is.
CursorUpByOne == cursor > 0 /\ MoveTo(cursor - 1)

\* _move_cursor_skipping_headers: the next object row in that direction, or
\* no move at all.
CursorDown ==
  LET below == {row \in ObjectRows(Visible) : row > cursor}
  IN below # {} /\ MoveTo(First(below))

CursorUp ==
  LET above == {row \in ObjectRows(Visible) : row < cursor}
  IN above # {} /\ MoveTo(Last(above))

Midnight ==
  /\ today < MaxDay
  /\ today' = today + 1
  /\ UNCHANGED <<runVars, storeVars, viewVars, gridVars, behind>>

-----------------------------------------------------------------------------
(* A run.                                                                  *)

\* action_run_checks.
PressRun ==
  /\ phase = "idle"
  /\ runs < MaxRuns
  /\ runs' = runs + 1
  /\ phase' = "running"
  /\ UNCHANGED <<today, announced, runDay, outcome, live, storeVars, viewVars, gridVars, behind>>

\* The thread resolves `now`, which stamps every observation of the run.
ThreadStart ==
  /\ phase = "running"
  /\ runDay = 0
  /\ runDay' = today
  /\ UNCHANGED <<today, runs, phase, announced, outcome, live, storeVars, viewVars, gridVars, behind>>

\* Mutant of HandleRunning: day columns are left as they were painted.
HandleRunningStale ==
  /\ phase = "running"
  /\ announced = 0
  /\ announced' = today
  /\ live' = NoOutcome
  /\ UNCHANGED <<today, runs, phase, runDay, outcome, storeVars, viewVars, gridVars, behind>>

\* RUNNING: earlier results are dropped, and _repaint_stale_day_columns
\* repaints when today has no column.
HandleRunning ==
  /\ phase = "running"
  /\ announced = 0
  /\ announced' = today
  /\ live' = NoOutcome
  /\ IF today \in columns THEN UNCHANGED <<gridVars, behind>> ELSE Refresh(hide_ok, search)
  /\ UNCHANGED <<today, runs, phase, runDay, outcome, storeVars, viewVars>>

\* The results f and check k's.
With(f, k, s) == [j \in DOMAIN f \cup {k} |-> IF j = k THEN s ELSE f[j]]

RollupLive(o) == WorstOrUnknown({live'[k] : k \in ChecksOf[o] \cap DOMAIN live'})

\* Mutant of LiveCell: the day's cell gets the check's own status.
LiveCellOfCheck(o, d, s) ==
  Plain(IF d = Overall THEN RollupLive(o) ELSE s, NoStatus)

\* What a live result s of object o writes to column d: the roll-up of this
\* run's results so far, `overall` and day alike.
LiveCell(o, d, s) == Plain(RollupLive(o), NoStatus)

Restores(o, cols, s) == {[row |-> o, column |-> d, cell |-> LiveCell(o, d, s)] : d \in cols}

\* Mutant of Flash: a restore already pending for a cell is left to fire.
FlashAgain(o, cols, s) ==
  LET shown == cols \cap DOMAIN cells[o]
  IN /\ timers' = timers \cup Restores(o, shown, s)
     /\ cells' = [cells EXCEPT ![o] = [d \in DOMAIN @ |->
                    IF d \in shown THEN [LiveCell(o, d, s) EXCEPT !.lit = TRUE] ELSE @[d]]]

\* flash_cell on each of these columns: a restore pending for the cell is
\* stopped, the cell lights up and its restore is scheduled.  A column the
\* grid does not have is passed over.
Flash(o, cols, s) ==
  LET shown == cols \cap DOMAIN cells[o]
  IN /\ timers' = {t \in timers : t.row # o \/ t.column \notin cols}
                    \cup Restores(o, shown, s)
     /\ cells' = [cells EXCEPT ![o] = [d \in DOMAIN @ |->
                    IF d \in shown THEN [LiveCell(o, d, s) EXCEPT !.lit = TRUE] ELSE @[d]]]

\* The verdict of a check, once and for all.
OutcomesOf(k) == IF k \in DOMAIN outcome THEN {outcome[k]} ELSE Verdicts

\* on_run_progress, one message per check that came back, in any order.  Its
\* object's row, when it shows, has its `overall` and today's cell flashed.
HandleProgress ==
  /\ announced # 0 /\ runDay # 0
  /\ \E k \in Checks \ DOMAIN live : \E s \in OutcomesOf(k) :
       LET o == ObjectOf[k]
       IN /\ outcome' = With(outcome, k, s)
          /\ live' = With(live, k, s)
          /\ IF o \in Visible
             THEN /\ Flash(o, {Overall, today}, s)
                  /\ liveRows' = liveRows \cup {o}
                  /\ UNCHANGED <<columns, cursor>>
             ELSE UNCHANGED gridVars
  /\ UNCHANGED <<today, runs, phase, announced, runDay, storeVars, viewVars, behind>>

\* restore(), some time after the flash: the plain cell, if it is still there.
Restore ==
  /\ \E t \in timers :
       /\ timers' = timers \ {t}
       /\ cells' = [o \in Visible |-> [d \in DOMAIN cells[o] |->
                      IF <<o, d>> = <<t.row, t.column>> THEN t.cell ELSE cells[o][d]]]
  /\ UNCHANGED <<today, runVars, storeVars, viewVars, columns, cursor, liveRows, behind>>

\* record_observations: all rows at once, each under the run's own day,
\* possibly before the last progress message is handled.
RunStored ==
  /\ phase = "running"
  /\ runDay # 0
  /\ phase' = "stored"
  /\ outcome' \in {f \in [Checks -> Verdicts] : \A k \in Checks : f[k] \in OutcomesOf(k)}
  /\ history' = [k \in Checks |->
                   Append(history[k], [day |-> runDay, status |-> outcome'[k]])]
  /\ behind' = "run"
  /\ UNCHANGED <<today, runs, announced, runDay, live, viewVars, gridVars>>

\* The run is over for the app.
EndRun ==
  /\ phase' = "idle"
  /\ announced' = 0
  /\ runDay' = 0
  /\ outcome' = NoOutcome
  /\ UNCHANGED <<today, runs, live, storeVars, viewVars>>

\* Mutant of HandleSuccess: the live results are taken for good.
HandleSuccessKeepsGrid ==
  /\ phase = "stored"
  /\ announced # 0 /\ DOMAIN live = Checks
  /\ EndRun
  /\ liveRows' = {}
  /\ UNCHANGED <<columns, cells, cursor, timers, behind>>

\* SUCCESS: the authoritative repaint.
HandleSuccess ==
  /\ phase = "stored"
  /\ announced # 0 /\ DOMAIN live = Checks
  /\ EndRun
  /\ Refresh(hide_ok, search)

\* ERROR leaves the grid as it is: the run was not stored, or finish_run
\* raised after its observations were committed.
HandleError ==
  /\ \/ phase = "running" /\ runDay # 0
     \/ phase = "stored" /\ DOMAIN live = Checks
  /\ announced # 0
  /\ EndRun
  /\ behind' = IF behind = "run" THEN "failed" ELSE behind
  /\ UNCHANGED gridVars

Next ==
  \/ ToggleFilter
  \/ Search
  \/ Reload
  \/ CursorDown
  \/ CursorUp
  \/ Midnight
  \/ PressRun
  \/ ThreadStart
  \/ HandleRunning
  \/ HandleProgress
  \/ Restore
  \/ RunStored
  \/ HandleSuccess
  \/ HandleError

Spec == Init /\ [][Next]_vars

-----------------------------------------------------------------------------
(* Properties.                                                             *)

Shown == Status \cup {NoStatus}
Cell == [status : Shown, marker : Shown, lit : BOOLEAN]

\* Types; the columns are the same in every row.
TypeOK ==
  /\ today \in Days
  /\ phase \in {"idle", "running", "stored"}
  /\ announced \in 0..today /\ runDay \in 0..today
  /\ DOMAIN live \subseteq Checks
  /\ columns \subseteq Days
  /\ Visible \subseteq search
  /\ \A o \in Visible : cells[o] \in [columns \cup {Overall} -> Cell]
  /\ liveRows \subseteq Visible
  /\ behind \in {"no", "run", "failed"}

\* A highlight fades, and fades to what the cell says: the cells that are
\* lit are those with a restore pending, one each, and it would write the
\* very status and marker the cell shows, however often the cell flashed,
\* the grid was repainted and the view changed since (flash_cell: "a stale
\* clear can never fire later").
RestoresAreCurrent ==
  /\ \A t \in timers : /\ t.row \in Visible /\ t.column \in DOMAIN cells[t.row]
                       /\ cells[t.row][t.column] = [t.cell EXCEPT !.lit = TRUE]
  /\ \A o \in Visible : \A d \in DOMAIN cells[o] :
       cells[o][d].lit => \E t \in timers : t.row = o /\ t.column = d

\* "row cursor never lands on a source header row" (DrillDownTable), by the
\* arrow keys and across every repaint.
CursorOnObject == Visible # {} => cursor \in ObjectRows(Visible)

GridInv == TypeOK /\ RestoresAreCurrent /\ CursorOnObject

\* "the two never read differently mid-run" (_apply_live_result_to_home): a
\* row written live shows the same status in `overall` and in today's cell,
\* with the run's messages, repaints and midnight in any order, whenever the
\* grid has a column for today.
LiveCellsAgree ==
  \A o \in liveRows :
    today \in columns => cells[o][Overall].status = cells[o][today].status

\* From the start of a run to the next midnight, results find their column:
\* no repaint hides today's, be it an off-day without an observation.
TodayHasColumn == announced = today => today \in columns

\* A live result lands in the cells of its object, and says the same in both.
LiveResultsLand == TodayHasColumn /\ LiveCellsAgree

\* The day the grid was last painted on.
PaintedOn == Last(columns)

\* The grid is the store seen through the current view, but for the cells a
\* live result wrote: the rows the filter and the search let through, the
\* columns of the day it was painted on whatever the view hides, and what the
\* store says in every other cell.  Only a run in flight, or one that failed
\* after it had stored its observations, leaves it behind the store.
GridIsTheStore ==
  /\ behind = "run" => phase = "stored"
  /\ behind = "no" =>
       /\ Visible = Applied(hide_ok, search)
       /\ columns = KeptDates(PaintedOn)
       /\ \A o \in Visible \ liveRows : \A d \in DOMAIN cells[o] :
            cells[o][d] = StoreCell(o, d)

\* "The end-of-run refresh reconciles a hidden row from the store regardless,
\* so it is never left stale" (_apply_live_result_to_home): with no run in
\* flight, no row is hidden that the view lets through.  A run that fails
\* after its observations were stored breaks it: see Findings in README.md.
HiddenRowsReconciled == phase = "idle" => Applied(hide_ok, search) \subseteq Visible
=============================================================================
