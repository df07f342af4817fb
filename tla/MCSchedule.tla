----------------------------- MODULE MCSchedule -----------------------------
(***************************************************************************)
(* An instance of Schedule for TLC: a Friday to the Saturday of the next   *)
(* week, with the local midnight at 5:00 UTC and, after a first Sunday of  *)
(* 25 hours, at 6:00 UTC.                                                  *)
(***************************************************************************)
EXTENDS Schedule

FallBack == [d \in 0..9 |-> 48 * d + (IF d <= 2 THEN 10 ELSE 12)]

\* In the morning, when the UTC date is the local one, and on some days late
\* in the evening, when it is the next.
MCInstants == {48 * d + 18 : d \in 0..8} \cup {48 * d + 7 : d \in {1, 2, 3, 4, 7, 8}}

MCCheckSpecs ==
  {[calendar |-> "business", max_lag |-> 52, on_holiday |-> 120, by_weekday |-> [w \in {0} |-> 40],
    severity |-> "error", skip_off_schedule |-> skip] : skip \in BOOLEAN}
=============================================================================
