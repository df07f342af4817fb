------------------------------ MODULE Calendar ------------------------------
(***************************************************************************)
(* The business calendar (calendar.py) over a range of local dates.        *)
(* Instants are half hours since midnight UTC of date 0; Midnight says     *)
(* when each local date begins, so that a date on which clocks change      *)
(* lasts 23 or 25 hours.  Pure operators.                                  *)
(***************************************************************************)
EXTENDS Integers, FiniteSets

CONSTANTS
  LastDay,          \* dates are 0..LastDay
  Midnight,         \* the instant each of them begins, and the one after them
  FirstWeekday,     \* the weekday of date 0, Monday being 0
  Workdays,         \* workdays:, as weekdays
  CountryHolidays,  \* holidays: of the country and its subdivision
  Extra, Remove     \* holidays: extra and remove

Days == 0..LastDay

\* Local midnight is between UTC-12 and UTC+14.
ASSUME CalendarAssumption ==
  /\ LastDay \in Nat
  /\ Midnight \in [0..(LastDay + 1) -> Int]
  /\ \A d, e \in 0..(LastDay + 1) : d < e => Midnight[d] < Midnight[e]
  /\ \A d \in 0..(LastDay + 1) : Midnight[d] \in (48 * d - 28)..(48 * d + 24)
  /\ FirstWeekday \in 0..6
  /\ Workdays \subseteq 0..6

InDate(t, d) == Midnight[d] <= t /\ t < Midnight[d + 1]

LocalDate(t) == CHOOSE d \in Days : InDate(t, d)

UtcDate(t) == t \div 48

Weekday(d) == (d + FirstWeekday) % 7

IsHoliday(d) == d \notin Remove /\ (d \in Extra \/ d \in CountryHolidays)

IsBusinessDay(d) == Weekday(d) \in Workdays /\ ~IsHoliday(d)

\* Mutant of OffDaysBetween: holidays count as business days.
WeekendDaysBetween(d0, d1) == {d \in (d0 + 1)..(d1 - 1) : Weekday(d) \notin Workdays}

\* The non-business dates strictly between two dates.
OffDaysBetween(d0, d1) == {d \in (d0 + 1)..(d1 - 1) : ~IsBusinessDay(d)}

\* Mutant of BusinessTimeBetween: dates are taken in UTC.
BusinessTimeInUtc(t0, t1) ==
  (t1 - t0) - 48 * Cardinality(OffDaysBetween(UtcDate(t0), UtcDate(t1)))

\* Elapsed time minus 24 hours for each of them, however long it lasted.
BusinessTimeBetween(t0, t1) ==
  (t1 - t0) - 48 * Cardinality(OffDaysBetween(LocalDate(t0), LocalDate(t1)))
=============================================================================
