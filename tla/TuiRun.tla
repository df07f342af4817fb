------------------------------- MODULE TuiRun -------------------------------
(***************************************************************************)
(* Check runs started from the TUI (tui/app.py, with the object-detail     *)
(* screen of tui/screens.py).  A key press starts a worker: an asyncio     *)
(* task that waits for a thread running run_and_persist.  The worker group *)
(* is exclusive, so a later run cancels the task of an earlier one; the    *)
(* thread behind it goes on.  Threads post one message per finished check, *)
(* tasks post their state changes, and the app handles all of them from    *)
(* one queue, in order, between key presses.                               *)
(*                                                                         *)
(* The store is reduced to the rows a reader sees (RunStore has its        *)
(* transactions); every row of the grid is visible (no filter, no search); *)
(* a day cell carries the same status as `overall` and is left out.        *)
(***************************************************************************)
EXTENDS Statuses, Sequences

CONSTANTS
  Checks,     \* the configured checks
  Objects,    \* the objects they are about
  ObjectOf,   \* the object of each check
  Verdicts,   \* statuses a check may come back with
  MaxRuns,    \* bound on the runs started here
  MaxOthers,  \* bound on the runs other processes store
  Overlays,   \* screens that may be opened on top of a detail screen
  Home        \* no detail screen is open

ASSUME TuiRunAssumption ==
  /\ ObjectOf \in [Checks -> Objects]
  /\ Verdicts \subseteq Status
  /\ MaxRuns \in Nat
  /\ MaxOthers \in Nat
  /\ Home \notin Objects

Runs == 1..MaxRuns

VARIABLES
  task,      \* state of each run's worker, its asyncio task
  thread,    \* where each run's thread is in run_and_persist
  scope,     \* the checks of each run
  result,    \* the results each run has produced: check -> status
  at,        \* the `now` of each run, as a position in time
  clock,     \* positions handed out so far
  others,    \* runs other processes stored
  stored,    \* the committed observations
  queue,     \* messages the app has yet to handle
  live,      \* _live_results: check -> status
  home,      \* the `overall` cell of each object on the Home grid
  screen,    \* the object whose detail screen is open, or Home
  covered,   \* whether History or Help is on top of that screen
  detail,    \* the `overall` cells of that screen
  missed,    \* history: whether it was covered when one of them should have
             \* changed, and has not been painted since
  bar,       \* whether the progress bar shows
  sub_title, \* whether the sub-title says that checks are running
  last_run,  \* the run the Report screen would show, 0 before any
  notice     \* the toast each run has had

detailVars == <<screen, covered, detail, missed>>
uiVars == <<live, home, detailVars, bar, sub_title, last_run, notice>>
workVars == <<task, thread, scope, result, at, clock, others, stored>>
vars == <<workVars, queue, uiVars>>

ChecksOf(o) == {k \in Checks : ObjectOf[k] = o}

Message(kind, r) == [kind |-> kind, run |-> r]
Progress(r, k, s) == [kind |-> "progress", run |-> r, check |-> k, status |-> s]

-----------------------------------------------------------------------------
(* What the screens read.                                                  *)

\* latest_observation: the newest stored status of a check.
StoreStatus(k) ==
  IF \E o \in stored : o.check = k
  THEN (CHOOSE o \in stored :
          o.check = k /\ \A p \in stored : p.check = k => p.at <= o.at).status
  ELSE NoStatus

\* _rollup over the store, for an object row of refresh_dashboard.
RollupStore(o) == WorstOrUnknown({StoreStatus(k) : k \in ChecksOf(o)} \ {NoStatus})

HomeFromStore == [o \in Objects |-> RollupStore(o)]

\* live_status: the read side of _live_results.
LiveStatus(results, k) ==
  IF \E e \in results : e.check = k
  THEN (CHOOSE e \in results : e.check = k).status
  ELSE NoStatus

\* The roll-up a live result writes to its object's row: over this run's
\* results so far, without the checks that have not come back.
RollupLive(results, o) ==
  WorstOrUnknown({LiveStatus(results, k) : k \in ChecksOf(o)} \ {NoStatus})

\* Mutant of DetailRows: the screen is built from the store alone.
DetailRowsFromStore(o) == [k \in ChecksOf(o) |-> StoreStatus(k)]

\* refresh_grid: the store's status of each check, overlaid by a live one.
DetailRows(o) ==
  [k \in ChecksOf(o) |-> IF LiveStatus(live, k) # NoStatus
                         THEN LiveStatus(live, k) ELSE StoreStatus(k)]

NoRows == [k \in {} |-> NoStatus]

-----------------------------------------------------------------------------
(* The user.                                                               *)

Init ==
  /\ task = [r \in Runs |-> "none"]
  /\ thread = [r \in Runs |-> "none"]
  /\ scope = [r \in Runs |-> {}]
  /\ result = [r \in Runs |-> NoRows]
  /\ at = [r \in Runs |-> 0]
  /\ clock = 0 /\ others = 0
  /\ stored = {}
  /\ queue = <<>>
  /\ live = {}
  /\ home = [o \in Objects |-> NoStatus]
  /\ screen = Home /\ detail = NoRows /\ covered = FALSE /\ missed = FALSE
  /\ bar = FALSE /\ sub_title = FALSE
  /\ last_run = 0
  /\ notice = [r \in Runs |-> "none"]

\* 'r' runs every check, whatever screen is on top; "Run these checks" is
\* offered by the detail screen.
Selectable == {Checks} \cup (IF screen = Home \/ covered THEN {} ELSE {ChecksOf(screen)})

\* Mutant of PressRun: the previous run is cancelled even when it has ended.
PressRunCancelsLast(r) ==
  /\ task[r] = "none"
  /\ \A q \in Runs : q < r => task[q] \notin {"none", "pending"}
  /\ scope' = [scope EXCEPT ![r] = Checks]
  /\ task' = [task EXCEPT ![r] = "pending"]
  /\ queue' = IF r = 1 THEN queue ELSE Append(queue, Message("cancelled", r - 1))
  /\ UNCHANGED <<thread, result, at, clock, others, stored, uiVars>>

\* A run is started.  The exclusive group
\* cancels the worker before it: its task ends and says so, its thread stops
\* only if it has not begun.  Runs are numbered as they are started, and the
\* event loop goes round between two key presses.
PressRun(r) ==
  /\ task[r] = "none"
  /\ \A q \in Runs : q < r => task[q] \notin {"none", "pending"}
  /\ \E selected \in Selectable :
       scope' = [scope EXCEPT ![r] = selected]
  /\ LET old == {q \in Runs : task[q] = "running"}
     IN /\ task' = [q \in Runs |-> IF q = r THEN "pending"
                                   ELSE IF q \in old THEN "cancelled" ELSE task[q]]
        /\ thread' = [q \in Runs |-> IF q \in old /\ thread[q] = "queued"
                                     THEN "dropped" ELSE thread[q]]
        /\ queue' = IF old = {} THEN queue
                    ELSE Append(queue, Message("cancelled", CHOOSE q \in old : TRUE))
  /\ UNCHANGED <<result, at, clock, others, stored, uiVars>>

\* A drill-down from Home builds the screen from the store and live results.
OpenDetail ==
  /\ screen = Home
  /\ \E o \in Objects : screen' = o /\ detail' = DetailRows(o)
  /\ missed' = FALSE
  /\ UNCHANGED <<workVars, queue, live, home, covered, bar, sub_title, last_run, notice>>

\* A check's row opens its history, '?' the help, on top of the detail screen.
Cover ==
  /\ Overlays # {}
  /\ screen # Home /\ ~covered
  /\ covered' = TRUE
  /\ UNCHANGED <<workVars, queue, live, home, screen, detail, missed, bar, sub_title,
                 last_run, notice>>

\* Nothing refreshes a screen that is on top again.
Uncover ==
  /\ covered
  /\ covered' = FALSE
  /\ UNCHANGED <<workVars, queue, live, home, screen, detail, missed, bar, sub_title,
                 last_run, notice>>

CloseDetail ==
  /\ screen # Home /\ ~covered
  /\ screen' = Home /\ detail' = NoRows
  /\ missed' = FALSE
  /\ UNCHANGED <<workVars, queue, live, home, covered, bar, sub_title, last_run, notice>>

\* refresh_dashboard for another reason than a run: reload, filter, search.
Repaint ==
  /\ home' = HomeFromStore
  /\ UNCHANGED <<workVars, queue, live, detailVars, bar, sub_title, last_run, notice>>

\* Another process completes a run of every check.
OtherRun ==
  /\ others < MaxOthers
  /\ others' = others + 1
  /\ clock' = clock + 1
  /\ \E verdicts \in [Checks -> Verdicts] :
       stored' = stored \cup {[check |-> k, at |-> clock', status |-> verdicts[k]] :
                              k \in Checks}
  /\ UNCHANGED <<task, thread, scope, result, at, queue, uiVars>>

-----------------------------------------------------------------------------
(* Workers: the task on the event loop, the thread behind it.              *)

\* The task's first step: RUNNING is posted, the thread is submitted.
StartTask(r) ==
  /\ task[r] = "pending"
  /\ task' = [task EXCEPT ![r] = "running"]
  /\ thread' = [thread EXCEPT ![r] = "queued"]
  /\ queue' = Append(queue, Message("running", r))
  /\ UNCHANGED <<scope, result, at, clock, others, stored, uiVars>>

\* run_and_persist resolves `now`.
ThreadStart(r) ==
  /\ thread[r] = "queued"
  /\ thread' = [thread EXCEPT ![r] = "evaluating"]
  /\ clock' = clock + 1
  /\ at' = [at EXCEPT ![r] = clock']
  /\ UNCHANGED <<task, scope, result, others, stored, queue, uiVars>>

\* A check comes back on one of the source threads; on_result posts it.
EvaluateCheck(r) ==
  /\ thread[r] = "evaluating"
  /\ \E k \in scope[r] \ DOMAIN result[r], s \in Verdicts :
       /\ result' = [result EXCEPT ![r] = [j \in DOMAIN @ \cup {k} |->
                                             IF j = k THEN s ELSE @[j]]]
       /\ queue' = Append(queue, Progress(r, k, s))
  /\ UNCHANGED <<task, thread, scope, at, clock, others, stored, uiVars>>

RowsOf(r) == {[check |-> k, at |-> at[r], status |-> result[r][k]] : k \in DOMAIN result[r]}

\* Every check is back and record_observations commits, whether or not the
\* task has been cancelled.
RecordObservations(r) ==
  /\ thread[r] = "evaluating"
  /\ DOMAIN result[r] = scope[r]
  /\ thread' = [thread EXCEPT ![r] = "recorded"]
  /\ stored' = stored \cup RowsOf(r)
  /\ UNCHANGED <<task, scope, result, at, clock, others, queue, uiVars>>

\* finish_run commits and the thread's store is closed.
FinishRun(r) ==
  /\ thread[r] = "recorded"
  /\ thread' = [thread EXCEPT ![r] = "returned"]
  /\ UNCHANGED <<task, scope, result, at, clock, others, stored, queue, uiVars>>

\* The store is locked past its busy timeout, the disk is full, ...: also in
\* finish_run, with the observations already committed.
ThreadRaises(r) ==
  /\ thread[r] \in {"evaluating", "recorded"}
  /\ thread' = [thread EXCEPT ![r] = "raised"]
  /\ UNCHANGED <<task, scope, result, at, clock, others, stored, queue, uiVars>>

\* Mutant of EndTask: a run whose checks all came back counts as complete.
EndTaskWhenEvaluated(r) ==
  /\ task[r] = "running"
  /\ thread[r] \in {"returned", "raised"}
  /\ task' = [task EXCEPT ![r] = "ended"]
  /\ queue' = Append(queue, Message(IF DOMAIN result[r] = scope[r] THEN "success"
                                    ELSE "error", r))
  /\ UNCHANGED <<thread, scope, result, at, clock, others, stored, uiVars>>

\* Mutant of EndTask: only a result wakes the task, not an exception.
EndTaskOnResult(r) ==
  /\ task[r] = "running"
  /\ thread[r] = "returned"
  /\ task' = [task EXCEPT ![r] = "ended"]
  /\ queue' = Append(queue, Message("success", r))
  /\ UNCHANGED <<thread, scope, result, at, clock, others, stored, uiVars>>

\* The task learns how its thread ended.  Nobody waits for the thread of a
\* cancelled task.
EndTask(r) ==
  /\ task[r] = "running"
  /\ thread[r] \in {"returned", "raised"}
  /\ task' = [task EXCEPT ![r] = "ended"]
  /\ queue' = Append(queue, Message(IF thread[r] = "returned" THEN "success"
                                    ELSE "error", r))
  /\ UNCHANGED <<thread, scope, result, at, clock, others, stored, uiVars>>

-----------------------------------------------------------------------------
(* The app's message handlers.                                             *)

Receive(kind) ==
  /\ queue # <<>>
  /\ Head(queue).kind = kind
  /\ queue' = Tail(queue)
  /\ UNCHANGED workVars

Notify(r, text) == notice' = [notice EXCEPT ![r] = text]

\* _refresh_topmost_screen: a detail screen under another one is no topmost.
RefreshTopmostScreen ==
  /\ detail' = IF screen = Home \/ covered THEN detail ELSE DetailRows(screen)
  /\ missed' = (screen # Home /\ covered)

\* A run starts: results of earlier runs are dropped, the bar shows, and the
\* grid is repainted when its day columns are out of date.
HandleRunning ==
  /\ Receive("running")
  /\ live' = {}
  /\ bar' = TRUE /\ sub_title' = TRUE
  /\ home' \in {home, HomeFromStore}
  /\ UNCHANGED <<detailVars, last_run, notice>>

\* Mutant of HandleProgress: the screen on top shows every result.
ProgressOnAnyScreen ==
  /\ Receive("progress")
  /\ LET m == Head(queue)
         o == ObjectOf[m.check]
     IN /\ live' = {e \in live : e.check # m.check}
                     \cup {[check |-> m.check, status |-> m.status]}
        /\ home' = [home EXCEPT ![o] = RollupLive(live', o)]
        /\ detail' = IF screen = Home \/ covered THEN detail
                     ELSE [k \in DOMAIN detail \cup {m.check} |->
                             IF k = m.check THEN m.status ELSE detail[k]]
  /\ sub_title' = TRUE
  /\ UNCHANGED <<screen, covered, missed, bar, last_run, notice>>

\* Mutant of HandleProgress: a progress message shows the bar.
ProgressShowsBar ==
  /\ Receive("progress")
  /\ bar' = TRUE /\ sub_title' = TRUE
  /\ UNCHANGED <<live, home, detailVars, last_run, notice>>

\* on_run_progress and _apply_live_result, which do not ask whose result it
\* is.  Home gets it under any screen, a detail screen only when it is on top.
HandleProgress ==
  /\ Receive("progress")
  /\ LET m == Head(queue)
         o == ObjectOf[m.check]
     IN /\ live' = {e \in live : e.check # m.check}
                     \cup {[check |-> m.check, status |-> m.status]}
        /\ home' = [home EXCEPT ![o] = RollupLive(live', o)]
        /\ detail' = IF screen = o /\ ~covered
                     THEN [detail EXCEPT ![m.check] = m.status] ELSE detail
        /\ missed' = (missed \/ (screen = o /\ covered))
  /\ sub_title' = TRUE
  /\ UNCHANGED <<screen, covered, bar, last_run, notice>>

\* The sub-title is left to the run that superseded this one.
HandleCancelled ==
  /\ Receive("cancelled")
  /\ bar' = FALSE
  /\ Notify(Head(queue).run, "cancelled")
  /\ UNCHANGED <<live, home, detailVars, sub_title, last_run>>

\* Mutant of HandleSuccess: only the screen on top is refreshed.
SuccessRefreshesTop ==
  /\ Receive("success")
  /\ bar' = FALSE /\ sub_title' = FALSE
  /\ last_run' = Head(queue).run
  /\ home' = IF screen = Home THEN HomeFromStore ELSE home
  /\ RefreshTopmostScreen
  /\ Notify(Head(queue).run, "complete")
  /\ UNCHANGED <<live, screen, covered>>

\* The authoritative refresh, of the dashboard and of the screen on top.
HandleSuccess ==
  /\ Receive("success")
  /\ bar' = FALSE /\ sub_title' = FALSE
  /\ last_run' = Head(queue).run
  /\ home' = HomeFromStore
  /\ RefreshTopmostScreen
  /\ Notify(Head(queue).run, "complete")
  /\ UNCHANGED <<live, screen, covered>>

\* Nothing is repainted, although the run may have stored its observations.
HandleError ==
  /\ Receive("error")
  /\ bar' = FALSE /\ sub_title' = FALSE
  /\ Notify(Head(queue).run, "failed")
  /\ UNCHANGED <<live, home, detailVars, last_run>>

Handle ==
  \/ HandleRunning
  \/ HandleProgress
  \/ HandleCancelled
  \/ HandleSuccess
  \/ HandleError

User ==
  \/ OpenDetail
  \/ Cover
  \/ Uncover
  \/ CloseDetail
  \/ Repaint
  \/ \E r \in Runs : PressRun(r)

Thread(r) ==
  \/ ThreadStart(r)
  \/ EvaluateCheck(r)
  \/ RecordObservations(r)
  \/ FinishRun(r)
  \/ ThreadRaises(r)

Next ==
  \/ User
  \/ OtherRun
  \/ \E r \in Runs : StartTask(r) \/ Thread(r) \/ EndTask(r)
  \/ Handle

Spec == Init /\ [][Next]_vars

\* The event loop and the threads keep going; the user need not do anything.
Fairness ==
  /\ WF_vars(Handle)
  /\ \A r \in Runs : WF_vars(StartTask(r)) /\ WF_vars(Thread(r)) /\ WF_vars(EndTask(r))

FairSpec == Spec /\ Fairness

-----------------------------------------------------------------------------
(* Properties.                                                             *)

Shown == Status \cup {NoStatus}

\* Types: in particular, a detail screen has a cell for each check of its
\* object and for no other, and there is one live result per check.
TypeOK ==
  /\ task \in [Runs -> {"none", "pending", "running", "cancelled", "ended"}]
  /\ thread \in [Runs -> {"none", "queued", "dropped", "evaluating", "recorded",
                          "returned", "raised"}]
  /\ \A r \in Runs : DOMAIN result[r] \subseteq scope[r] /\ scope[r] \subseteq Checks
  /\ \A o \in stored : o.at \in 1..clock /\ o.status \in Status
  /\ \A e, f \in live : e.check = f.check => e = f
  /\ home \in [Objects -> Shown]
  /\ screen \in Objects \cup {Home}
  /\ detail \in [IF screen = Home THEN {} ELSE ChecksOf(screen) -> Shown]
  /\ covered \in BOOLEAN /\ missed \in BOOLEAN
  /\ screen = Home => ~covered
  /\ bar \in BOOLEAN /\ sub_title \in BOOLEAN
  /\ last_run \in {0} \cup Runs
  /\ notice \in [Runs -> {"none", "cancelled", "complete", "failed"}]

\* A toast that says a run is complete tells the truth, and so does the
\* Report: however runs were superseded, every check of the run is back and
\* its observations are in the store.  ("failed" leaves open whether they
\* are: finish_run may raise after they were committed.)
NoticeTellsTruth ==
  /\ \A r \in Runs : notice[r] = "complete" => /\ DOMAIN result[r] = scope[r]
                                               /\ RowsOf(r) \subseteq stored
  /\ last_run # 0 => notice[last_run] = "complete"

\* What was reported stands: cancelling a run after it ended, or ending after
\* it was cancelled, raises no second toast, and the Report never goes back
\* to an older run, even when a run is superseded between the end of its
\* thread and the handling of its result.
ReportsStand ==
  [][/\ \A r \in Runs : notice[r] # "none" => notice'[r] = notice[r]
     /\ last_run' >= last_run]_vars

\* Once all messages are handled, the progress bar shows exactly while an
\* uncancelled run is under way; messages of a cancelled one do not bring it
\* back.
BarMeansRunning == queue = <<>> => (bar <=> \E r \in Runs : task[r] = "running")

\* So does the sub-title, as long as no run has been superseded: a progress
\* message of a superseded run's thread sets it for good.
SubTitleMeansRunning ==
  queue = <<>> /\ (\A r \in Runs : task[r] # "cancelled")
    => (sub_title <=> \E r \in Runs : task[r] = "running")

\* Types, the bar and the sub-title.
ScreenInv == TypeOK /\ BarMeansRunning /\ SubTitleMeansRunning

\* No run was superseded or failed, and no other process has stored one,
\* of which nothing tells the app.
Undisturbed ==
  /\ \A r \in Runs : task[r] # "cancelled" /\ thread[r] # "raised"
  /\ others = 0

\* Nothing is under way and every message has been handled.
Idle ==
  /\ queue = <<>>
  /\ \A r \in Runs : /\ task[r] \notin {"pending", "running"}
                     /\ thread[r] \notin {"queued", "evaluating", "recorded"}

\* After any sequence of full and scoped runs, screens opened and closed and
\* repaints in the middle of a run, the Home grid shows what the store holds.
DashboardSettles == Idle /\ Undisturbed => home = HomeFromStore

\* What is known of a check: its result in the run under way, as soon as it
\* is back, and what the store holds before.
Latest(k) ==
  IF \E r \in Runs : task[r] = "running" /\ k \in DOMAIN result[r]
  THEN result[CHOOSE r \in Runs : task[r] = "running"][k]
  ELSE StoreStatus(k)

\* With no message outstanding a detail screen shows what is known of its
\* checks, opened before, in the middle of or after the run, unless it was
\* covered when one of them should have changed.
DetailAgrees ==
  queue = <<>> /\ Undisturbed /\ screen # Home /\ ~missed
    => \A k \in ChecksOf(screen) : detail[k] = Latest(k)

\* "a screen opened mid-run and one held open across the same run agree"
\* (_seed_live_statuses): with no message outstanding, the detail screen on
\* top shows what a screen opened now would show.  Covering it breaks this:
\* see Findings in README.md.
HeldOpenAgrees ==
  queue = <<>> /\ Undisturbed /\ screen # Home /\ ~covered
    => detail = DetailRows(screen)

\* "a stale result left over from a previous run (or one cancelled mid-flight)
\* must never contribute to this run's live rollup" (on_worker_state_changed):
\* while a run is under way the live results are its own.  The thread of a
\* superseded run breaks this: see Findings in README.md.
LiveIsThisRuns ==
  queue = <<>> =>
    \A r \in Runs : task[r] = "running" =>
      \A e \in live : e.check \in DOMAIN result[r] /\ e.status = result[r][e.check]

\* Every run the user starts is eventually reported complete, failed or
\* cancelled.
EveryRunIsReported ==
  \A r \in Runs : task[r] = "pending" ~> notice[r] # "none"
=============================================================================
