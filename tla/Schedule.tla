------------------------------ MODULE Schedule ------------------------------
(***************************************************************************)
(* A freshness check over days: its table is refreshed now and then, runs  *)
(* evaluate it (engine.py) and store an observation (store.py), and two    *)
(* readers work by local date: the same-weekday baseline of vs_previous    *)
(* (store.py) and the day columns of the dashboard (tui/dashboard.py).  A  *)
(* calendar is configured; how a run's row is committed is RunStore's      *)
(* subject.                                                                *)
(***************************************************************************)
EXTENDS Calendar, Statuses

CONSTANTS
  Instants,     \* the instants at which something happens
  CheckSpecs,   \* the ways the check may be configured
  None,         \* a key left out of the configuration
  MaxRuns,      \* bound on the runs
  FetchLimit    \* _HISTORY_FETCH_LIMIT, 50 in the code

ASSUME ScheduleAssumption ==
  /\ Instants \subseteq Int
  /\ \A t \in Instants : \E d \in Days : InDate(t, d)
  /\ \A spec \in CheckSpecs :
       /\ spec.calendar \in {None, "business"}
       /\ spec.max_lag \in Nat
       /\ spec.on_holiday \in Nat \cup {None}
       /\ \A w \in DOMAIN spec.by_weekday : w \in 0..6 /\ spec.by_weekday[w] \in Nat
       /\ spec.severity \in {"error", "warn"}
       /\ spec.skip_off_schedule \in BOOLEAN
  /\ MaxRuns \in Nat

VARIABLES
  check,     \* how the check is configured
  now,       \* the present
  modified,  \* the newest timestamp in the checked table
  obs        \* the check's committed observations

vars == <<check, now, modified, obs>>

Init ==
  /\ check \in CheckSpecs
  /\ now \in Instants /\ \A t \in Instants : now <= t
  /\ modified = now
  /\ obs = {}

-----------------------------------------------------------------------------
(* Evaluation.                                                             *)

\* The max_lag in force: on_holiday, else the weekday's own, else expect.
EffectiveExpectation(t) ==
  LET day == LocalDate(t)
  IN  IF check.on_holiday # None /\ IsHoliday(day) THEN check.on_holiday
      ELSE IF Weekday(day) \in DOMAIN check.by_weekday THEN check.by_weekday[Weekday(day)]
      ELSE check.max_lag

ShouldSkip(t) == check.skip_off_schedule /\ ~IsBusinessDay(LocalDate(t))

\* The lag _evaluate_freshness compares and stores.
LagAt(t0, t1) ==
  IF check.calendar = "business" THEN BusinessTimeBetween(t0, t1) ELSE t1 - t0

\* evaluate_check for a freshness check; a query fails or answers.
Outcomes(t) ==
  IF ShouldSkip(t) THEN {"SKIPPED"}
  ELSE {"ERROR", Verdict(check.severity, LagAt(modified, t) <= EffectiveExpectation(t))}

\* _insert_observation: the weekday is the calendar's, the instant UTC.
Row(t, s) == [at |-> t, weekday |-> Weekday(LocalDate(t)), status |-> s]

Run ==
  /\ Cardinality(obs) < MaxRuns
  /\ \A o \in obs : o.at # now
  /\ \E s \in Outcomes(now) : obs' = obs \cup {Row(now, s)}
  /\ UNCHANGED <<check, now, modified>>

Refresh ==
  /\ modified' = now
  /\ UNCHANGED <<check, now, obs>>

Advance ==
  /\ \E t \in Instants : /\ now < t
                         /\ \A u \in Instants : u <= now \/ t <= u
                         /\ now' = t
  /\ UNCHANGED <<check, modified, obs>>

Next == Run \/ Refresh \/ Advance

Spec == Init /\ [][Next]_vars

-----------------------------------------------------------------------------
(* Readers.                                                                *)

NewestOf(S) ==
  IF S = {} THEN None ELSE CHOOSE o \in S : \A p \in S : p.at <= o.at

\* Mutant of FarEnough: a floor of seven days instead of six.
AWeekBack(o, run_date) == UtcDate(o.at) <= run_date - 7

\* The floor compares the UTC date of an observation with a local date.
FarEnough(o, run_date) == UtcDate(o.at) <= run_date - 6

LastSameWeekdayObservation(run_date) ==
  NewestOf({o \in obs : /\ o.weekday = Weekday(run_date)
                        /\ o.status \in CleanStatus
                        /\ FarEnough(o, run_date)})

\* history: the newest FetchLimit rows.
History == {o \in obs : Cardinality({p \in obs : p.at > o.at}) < FetchLimit}

TrailingDates(today) == (today - 6)..today

\* bucket_by_day: the fetched rows of a local date.
Bucket(day) == {o \in History : LocalDate(o.at) = day}

DayStatuses(day) == {o.status : o \in Bucket(day)}

DayLatest(day) == IF Bucket(day) = {} THEN NoStatus ELSE NewestOf(Bucket(day)).status

\* _rollup of one check: a day cell, and the marker beside it.
DayCell(day) == [latest |-> DayLatest(day), marker |-> DayMarker(DayLatest(day), DayStatuses(day))]

\* Mutant of Columns: off days are dropped with what they hold.
BusinessColumns(today) == {d \in TrailingDates(today) : d = today \/ IsBusinessDay(d)}

\* hide_empty_off_days: the day columns of a grid made of this check's row.
Columns(today) ==
  {d \in TrailingDates(today) : d = today \/ IsBusinessDay(d) \/ DayCell(d).latest # NoStatus}

-----------------------------------------------------------------------------
(* Properties.                                                             *)

TypeOK ==
  /\ check \in CheckSpecs
  /\ now \in Instants
  /\ modified \in Instants /\ modified <= now
  /\ \A o \in obs : /\ o.at \in Instants /\ o.at <= now
                    /\ o.weekday = Weekday(LocalDate(o.at))
                    /\ o.status \in Status
  /\ \A o, p \in obs : o.at = p.at => o = p

\* No date is shorter than 24 hours, nor any stretch of dates than its length.
NoShortDays ==
  \A d, e \in 0..(LastDay + 1) : d <= e => Midnight[e] - Midnight[d] >= 48 * (e - d)

\* "Never negative, and never more than the raw wall-clock elapsed time"
\* (test_calendar.py), whatever the time zone, the workdays and the holidays.
LagWithinElapsed ==
  /\ 0 <= BusinessTimeBetween(modified, now)
  /\ BusinessTimeBetween(modified, now) <= now - modified

\* The half hours that fall on business days.
BusinessTime ==
  {t \in Midnight[0]..(Midnight[LastDay + 1] - 1) : IsBusinessDay(LocalDate(t))}

\* Between two business days the lag is the time that fell on business
\* days, if the days in between that did not count had 24 hours.
LagCountsBusinessTime ==
  LET d0 == LocalDate(modified)
      d1 == LocalDate(now)
      Length(d) == Midnight[d + 1] - Midnight[d]
  IN  /\ IsBusinessDay(d0) /\ IsBusinessDay(d1)
      /\ \A d \in OffDaysBetween(d0, d1) : Length(d) = 48
      => BusinessTimeBetween(modified, now) =
           Cardinality((modified..(now - 1)) \cap BusinessTime)

\* As long as the table is not refreshed its lag grows with the clock; only the
\* end of a non-business date may take it back, and with it an alarm.
LagFallsOnlyAfterOffDays ==
  [][/\ modified' = modified
     /\ \A d \in LocalDate(now)..(LocalDate(now') - 1) : IsBusinessDay(d)
     => BusinessTimeBetween(modified, now') =
          BusinessTimeBetween(modified, now) + (now' - now)]_vars

\* "compare this Monday to last Monday" (docs/history.md): although the floor
\* compares dates of two time zones, the baseline is the newest good value
\* whose local date is a whole number of weeks before the run's.
SameWeekdayBaseline ==
  LET today == LocalDate(now)
  IN  LastSameWeekdayObservation(today) =
        NewestOf({o \in obs : /\ o.status \in CleanStatus
                              /\ LocalDate(o.at) < today
                              /\ (today - LocalDate(o.at)) % 7 = 0})

\* A date on which one of the fetched runs failed has a column, and its cell
\* says so: by its status (an ERROR outranks), or by a marker once the date
\* ended better.
FailuresStayVisible ==
  LET today == LocalDate(now)
  IN  \A o \in History :
        LocalDate(o.at) \in TrailingDates(today) /\ o.status = "FAIL" =>
          /\ LocalDate(o.at) \in Columns(today)
          /\ LET cell == DayCell(LocalDate(o.at))
             IN  cell.latest \in {"FAIL", "ERROR"} \/ cell.marker = "FAIL"
=============================================================================
