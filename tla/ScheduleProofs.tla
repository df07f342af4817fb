--------------------------- MODULE ScheduleProofs ---------------------------
(***************************************************************************)
(* Theorems about Schedule for any dates, time zone, workdays, holidays    *)
(* and any number of runs.  Both readers of local dates are judged from    *)
(* TypeOK alone; what they need of a calendar are the lemmas before it.    *)
(***************************************************************************)
EXTENDS Schedule, FiniteSetTheorems, WellFoundedInduction, TLAPS

-----------------------------------------------------------------------------
(* Dates and instants.                                                     *)

\* An instant at which something happens has a local date, and falls in it.
LEMMA LocalDateInDays ==
  ASSUME NEW t \in Instants
  PROVE  t \in Int /\ LocalDate(t) \in Days /\ InDate(t, LocalDate(t))
  BY ScheduleAssumption DEF LocalDate

\* The dates there are, and the ones whose midnight is known.
LEMMA DatesInRange ==
  ASSUME NEW d \in Days
  PROVE  d \in Int /\ d \in 0..(LastDay + 1) /\ d + 1 \in 0..(LastDay + 1)
<1>1. LastDay \in Nat
  BY CalendarAssumption
<1> QED
  BY <1>1 DEF Days

\* Midnights are in the order of their dates.
LEMMA MidnightsInOrder ==
  ASSUME NEW d \in 0..(LastDay + 1), NEW e \in 0..(LastDay + 1), d <= e
  PROVE  Midnight[d] \in Int /\ Midnight[e] \in Int /\ Midnight[d] <= Midnight[e]
<1>1. Midnight[d] \in Int /\ Midnight[e] \in Int
  BY CalendarAssumption
<1>2. CASE d = e
  BY <1>1, <1>2
<1>3. CASE d < e
  BY <1>1, <1>3, CalendarAssumption
<1> QED
  BY <1>1, <1>2, <1>3

\* Later instants do not have earlier dates.
LEMMA LocalDateMonotone ==
  ASSUME NEW t \in Instants, NEW u \in Instants, t <= u
  PROVE  LocalDate(t) <= LocalDate(u)
<1> DEFINE d == LocalDate(t)
           e == LocalDate(u)
<1>1. /\ t \in Int /\ d \in Days /\ Midnight[d] <= t
      /\ u \in Int /\ e \in Days /\ u < Midnight[e + 1]
  BY LocalDateInDays DEF InDate
<1>2. SUFFICES ASSUME e < d PROVE FALSE
  BY <1>1 DEF Days
<1>3. e + 1 \in 0..(LastDay + 1) /\ d \in 0..(LastDay + 1) /\ e + 1 <= d
  BY <1>1, <1>2, DatesInRange
<1>4. Midnight[e + 1] \in Int /\ Midnight[d] \in Int /\ Midnight[e + 1] <= Midnight[d]
  BY <1>3, MidnightsInOrder
<1> QED
  BY <1>1, <1>4

\* The local date and the UTC date of an instant are neighbours at most.
LEMMA DatesOfInstant ==
  ASSUME NEW t \in Instants
  PROVE  /\ UtcDate(t) \in Int
         /\ LocalDate(t) - 1 <= UtcDate(t)
         /\ UtcDate(t) <= LocalDate(t) + 1
<1> DEFINE d == LocalDate(t)
<1>1. t \in Int /\ d \in Int /\ d \in 0..(LastDay + 1) /\ d + 1 \in 0..(LastDay + 1)
  BY LocalDateInDays, DatesInRange
<1>2. Midnight[d] \in (48 * d - 28)..(48 * d + 24)
  BY <1>1, CalendarAssumption
<1>3. Midnight[d + 1] \in (48 * (d + 1) - 28)..(48 * (d + 1) + 24)
  BY <1>1, CalendarAssumption
<1>4. Midnight[d] <= t /\ t < Midnight[d + 1]
  BY LocalDateInDays DEF InDate
<1>5. 48 * (d - 1) <= t /\ t < 48 * (d + 2)
  BY <1>1, <1>2, <1>3, <1>4
<1> HIDE DEF d
<1>6. t \div 48 \in Int /\ d - 1 <= t \div 48 /\ t \div 48 <= d + 1
  BY <1>1, <1>5
<1> QED
  BY <1>6 DEF UtcDate, d

\* Dates share a weekday when they are whole weeks apart.
LEMMA SameWeekday ==
  ASSUME NEW d \in Int, NEW e \in Int
  PROVE  Weekday(d) = Weekday(e) <=> (e - d) % 7 = 0
<1>1. FirstWeekday \in Int
  BY CalendarAssumption
<1> QED
  BY <1>1 DEF Weekday

\* The dates strictly between two others that are not business days.
LEMMA OffDaysBounded ==
  ASSUME NEW d \in Int, NEW e \in Int, d <= e
  PROVE  /\ IsFiniteSet(OffDaysBetween(d, e))
         /\ Cardinality(OffDaysBetween(d, e)) \in Nat
         /\ d < e => Cardinality(OffDaysBetween(d, e)) <= e - d - 1
         /\ d = e => Cardinality(OffDaysBetween(d, e)) = 0
<1> DEFINE Between == (d + 1)..(e - 1)
           Off == OffDaysBetween(d, e)
<1>1. Off \subseteq Between
  BY DEF OffDaysBetween
<1>2. IsFiniteSet(Between)
  BY FS_Interval
<1>3. Cardinality(Between) = IF d + 1 <= e - 1 THEN e - d - 1 ELSE 0
  <2>1. d + 1 \in Int /\ e - 1 \in Int
    OBVIOUS
  <2>2. Cardinality(Between) = IF d + 1 > e - 1 THEN 0 ELSE (e - 1) - (d + 1) + 1
    BY <2>1, FS_Interval
  <2> QED
    BY <2>2
<1>4. IsFiniteSet(Off) /\ Cardinality(Off) <= Cardinality(Between)
  BY <1>1, <1>2, FS_Subset
<1>5. Cardinality(Off) \in Nat
  BY <1>4, FS_CardinalityType
<1> HIDE DEF Between, Off
<1>6. (d < e => Cardinality(Off) <= e - d - 1) /\ (d = e => Cardinality(Off) = 0)
  BY <1>3, <1>4, <1>5
<1> QED
  BY <1>4, <1>5, <1>6 DEF Off

-----------------------------------------------------------------------------
(* Type correctness.                                                       *)

\* Every run's row carries the weekday of its local date, and nothing is dated
\* in the future.
THEOREM TypeCorrect == Spec => []TypeOK
<1>1. Init => TypeOK
  BY ScheduleAssumption DEF Init, TypeOK
<1>2. TypeOK /\ [Next]_vars => TypeOK'
  <2> SUFFICES ASSUME TypeOK, [Next]_vars PROVE TypeOK'
    OBVIOUS
  <2> USE DEF TypeOK
  <2>1. CASE Run
    <3>1. PICK s \in Outcomes(now) : obs' = obs \cup {Row(now, s)}
      BY <2>1 DEF Run
    <3>2. s \in Status
      BY <3>1 DEF Outcomes, Verdict, Status
    <3>3. UNCHANGED <<check, now, modified>> /\ \A o \in obs : o.at # now
      BY <2>1 DEF Run
    <3>4. /\ Row(now, s).at = now
          /\ Row(now, s).weekday = Weekday(LocalDate(now))
          /\ Row(now, s).status = s
      BY DEF Row
    <3>5. \A o \in obs' : /\ o.at \in Instants /\ o.at <= now
                          /\ o.weekday = Weekday(LocalDate(o.at))
                          /\ o.status \in Status
      BY <3>1, <3>2, <3>4, ScheduleAssumption
    <3>6. \A o, p \in obs' : o.at = p.at => o = p
      BY <3>1, <3>3, <3>4
    <3> QED
      BY <3>3, <3>5, <3>6
  <2>2. CASE Refresh
    BY <2>2, ScheduleAssumption DEF Refresh
  <2>3. CASE Advance
    <3>1. PICK t \in Instants : now < t /\ now' = t
      BY <2>3 DEF Advance
    <3>2. UNCHANGED <<check, modified, obs>>
      BY <2>3 DEF Advance
    <3>3. now \in Int /\ t \in Int /\ modified \in Int /\ \A o \in obs : o.at \in Int
      BY ScheduleAssumption
    <3> QED
      BY <3>1, <3>2, <3>3
  <2>4. CASE UNCHANGED vars
    BY <2>4 DEF vars
  <2> QED
    BY <2>1, <2>2, <2>3, <2>4 DEF Next
<1> QED
  BY <1>1, <1>2, PTL DEF Spec

-----------------------------------------------------------------------------
(* Business time.                                                          *)

\* If no stretch of dates is shorter than 24 hours a date, business time is
\* never negative and never more than the elapsed time.
THEOREM LagBounded == ASSUME NoShortDays PROVE Spec => []LagWithinElapsed
<1>1. TypeOK => LagWithinElapsed
  <2> SUFFICES ASSUME TypeOK PROVE LagWithinElapsed
    OBVIOUS
  <2> DEFINE d == LocalDate(modified)
             e == LocalDate(now)
             k == Cardinality(OffDaysBetween(d, e))
  <2>1. modified \in Int /\ now \in Int /\ modified <= now
    BY ScheduleAssumption DEF TypeOK
  <2>2. d \in Days /\ e \in Days /\ d \in Int /\ e \in Int
    BY LocalDateInDays, DatesInRange DEF TypeOK
  <2>3. d <= e
    BY LocalDateMonotone DEF TypeOK
  <2>4. /\ k \in Nat
        /\ d < e => k <= e - d - 1
        /\ d = e => k = 0
    BY <2>2, <2>3, OffDaysBounded
  <2>5. BusinessTimeBetween(modified, now) = (now - modified) - 48 * k
    BY DEF BusinessTimeBetween
  <2>6. 48 * k <= now - modified
    <3>1. CASE d = e
      BY <3>1, <2>1, <2>4
    <3>2. CASE d < e
      <4>1. d + 1 \in 0..(LastDay + 1) /\ e \in 0..(LastDay + 1) /\ d + 1 <= e
        BY <3>2, <2>2, DatesInRange
      <4>2. Midnight[e] - Midnight[d + 1] >= 48 * (e - (d + 1))
        BY <4>1 DEF NoShortDays
      <4>3. Midnight[d + 1] \in Int /\ Midnight[e] \in Int
        BY <4>1, MidnightsInOrder
      <4>4. modified < Midnight[d + 1] /\ Midnight[e] <= now
        BY LocalDateInDays DEF TypeOK, InDate
      <4> HIDE DEF d, e, k
      <4> QED
        BY <4>2, <4>3, <4>4, <3>2, <2>1, <2>2, <2>4
    <3> QED
      BY <3>1, <3>2, <2>2, <2>3
  <2> HIDE DEF k
  <2> QED
    BY <2>1, <2>4, <2>5, <2>6 DEF LagWithinElapsed
<1> QED
  BY <1>1, TypeCorrect, PTL

\* As long as the table is not refreshed and no non-business date has ended,
\* its business time since then grows with the clock.
THEOREM LagFalls == Spec => LagFallsOnlyAfterOffDays
<1> DEFINE Fair(t0, t, u) ==
             BusinessTimeBetween(t0, u) = BusinessTimeBetween(t0, t) + (u - t)
<1>1. ASSUME NEW t0 \in Instants, NEW t \in Instants, NEW u \in Instants,
             t0 <= t, t <= u,
             \A d \in LocalDate(t)..(LocalDate(u) - 1) : IsBusinessDay(d)
      PROVE  Fair(t0, t, u)
  <2> DEFINE a == LocalDate(t0)
             d == LocalDate(t)
             e == LocalDate(u)
  <2>1. t0 \in Int /\ t \in Int /\ u \in Int
    BY ScheduleAssumption
  <2>2. a \in Int /\ d \in Int /\ e \in Int /\ a <= d /\ d <= e
    BY <1>1, LocalDateInDays, LocalDateMonotone, DatesInRange
  <2>3. \A x \in d..(e - 1) : IsBusinessDay(x)
    BY <1>1
  <2> HIDE DEF a, d, e
  <2>4. OffDaysBetween(a, d) = OffDaysBetween(a, e)
    BY <2>2, <2>3 DEF OffDaysBetween
  <2>5. Cardinality(OffDaysBetween(a, e)) \in Nat
    BY <2>2, OffDaysBounded
  <2>6. BusinessTimeBetween(t0, t) = (t - t0) - 48 * Cardinality(OffDaysBetween(a, d))
    BY DEF BusinessTimeBetween, a, d
  <2>7. BusinessTimeBetween(t0, u) = (u - t0) - 48 * Cardinality(OffDaysBetween(a, e))
    BY DEF BusinessTimeBetween, a, e
  <2> QED
    BY <2>1, <2>4, <2>5, <2>6, <2>7
<1>2. TypeOK /\ TypeOK' /\ [Next]_vars
        => [/\ modified' = modified
            /\ \A d \in LocalDate(now)..(LocalDate(now') - 1) : IsBusinessDay(d)
            => BusinessTimeBetween(modified, now') =
                 BusinessTimeBetween(modified, now) + (now' - now)]_vars
  <2> SUFFICES ASSUME TypeOK, TypeOK', [Next]_vars, modified' = modified,
                      \A d \in LocalDate(now)..(LocalDate(now') - 1) : IsBusinessDay(d)
               PROVE  Fair(modified, now, now')
    OBVIOUS
  <2>1. modified \in Instants /\ now \in Instants /\ now' \in Instants /\ modified <= now
    BY DEF TypeOK
  <2>2. now <= now'
    <3>1. now \in Int /\ now' \in Int
      BY <2>1, ScheduleAssumption
    <3>2. now' = now \/ \E t \in Instants : now < t /\ now' = t
      BY DEF Next, Run, Refresh, Advance, vars
    <3> QED
      BY <3>1, <3>2
  <2> HIDE DEF Fair
  <2> QED
    BY <1>1, <2>1, <2>2
<1> QED
  BY <1>2, TypeCorrect, PTL DEF Spec, LagFallsOnlyAfterOffDays

-----------------------------------------------------------------------------
(* Business time, counted.                                                 *)

\* A set of natural numbers has a least element.
LEMMA LeastNatural ==
  ASSUME NEW T, T \subseteq Nat, T # {}
  PROVE  \E m \in T : \A n \in T : m <= n
<1>1. PICK m \in T : \A n \in T : <<n, m>> \notin OpToRel(<, Nat)
  BY NatLessThanWellFounded, WFMin
<1>2. \A n \in T : ~(n < m)
  BY <1>1 DEF OpToRel
<1> QED
  BY <1>2

\* An instant is in one date only.
LEMMA DateIsUnique ==
  ASSUME NEW t \in Int, NEW d \in Days, InDate(t, d)
  PROVE  LocalDate(t) = d
<1>1. ASSUME NEW e \in Days, InDate(t, e) PROVE e = d
  <2>1. /\ d \in Int /\ d \in 0..(LastDay + 1) /\ d + 1 \in 0..(LastDay + 1)
        /\ e \in Int /\ e \in 0..(LastDay + 1) /\ e + 1 \in 0..(LastDay + 1)
    BY DatesInRange
  <2>2. /\ Midnight[d] <= t /\ t < Midnight[d + 1]
        /\ Midnight[e] <= t /\ t < Midnight[e + 1]
    BY <1>1 DEF InDate
  <2>3. /\ Midnight[d] \in Int /\ Midnight[d + 1] \in Int
        /\ Midnight[e] \in Int /\ Midnight[e + 1] \in Int
    BY <2>1, CalendarAssumption
  <2>4. ~(d < e)
    <3> SUFFICES ASSUME d < e PROVE FALSE
      OBVIOUS
    <3>1. d + 1 <= e
      BY <2>1
    <3>2. Midnight[d + 1] <= Midnight[e]
      BY <3>1, <2>1, MidnightsInOrder
    <3> QED BY <3>2, <2>2, <2>3
  <2>5. ~(e < d)
    <3> SUFFICES ASSUME e < d PROVE FALSE
      OBVIOUS
    <3>1. e + 1 <= d
      BY <2>1
    <3>2. Midnight[e + 1] <= Midnight[d]
      BY <3>1, <2>1, MidnightsInOrder
    <3> QED BY <3>2, <2>2, <2>3
  <2> QED BY <2>1, <2>4, <2>5
<1>2. LocalDate(t) \in Days /\ InDate(t, LocalDate(t))
  BY DEF LocalDate
<1> QED BY <1>1, <1>2

\* The half hours from t to u that fall on business days.
Counted(t, u) == {x \in t..(u - 1) : IsBusinessDay(LocalDate(x))}

\* How many they are: none are lost between two stretches, a business day's
\* all count, and another day's do not.
LEMMA CountedParts ==
  ASSUME NEW t \in Int, NEW u \in Int, NEW v \in Int, t <= u, u <= v,
         NEW d \in Days, Midnight[d] <= u, v <= Midnight[d + 1]
  PROVE  /\ IsFiniteSet(Counted(t, u)) /\ Cardinality(Counted(t, u)) \in Nat
         /\ IsBusinessDay(d) =>
              Cardinality(Counted(t, v)) = Cardinality(Counted(t, u)) + (v - u)
         /\ ~IsBusinessDay(d) => Counted(t, v) = Counted(t, u)
<1>1. IsFiniteSet(Counted(t, u)) /\ Cardinality(Counted(t, u)) \in Nat
  <2>1. Counted(t, u) \in SUBSET (t..(u - 1)) /\ IsFiniteSet(t..(u - 1))
    BY FS_Interval DEF Counted
  <2> QED BY <2>1, FS_Subset, FS_CardinalityType
<1>2. Midnight[d] \in Int /\ Midnight[d + 1] \in Int
  BY DatesInRange, CalendarAssumption
<1>3. \A x \in u..(v - 1) : LocalDate(x) = d
  <2> SUFFICES ASSUME NEW x \in u..(v - 1) PROVE LocalDate(x) = d
    OBVIOUS
  <2>1. x \in Int /\ Midnight[d] <= x /\ x < Midnight[d + 1]
    BY <1>2
  <2> QED BY <2>1, DateIsUnique DEF InDate
<1>4. \A x \in Int : x \in t..(v - 1) <=> x \in t..(u - 1) \/ x \in u..(v - 1)
  OBVIOUS
<1>5. CASE IsBusinessDay(d)
  <2> DEFINE A == Counted(t, u)
             B == u..(v - 1)
  <2>1. Counted(t, v) = A \cup B
    <3>1. \A x : x \in Counted(t, v) <=> x \in Int /\ x \in t..(v - 1) /\ IsBusinessDay(LocalDate(x))
      BY DEF Counted
    <3>2. \A x : x \in A <=> x \in Int /\ x \in t..(u - 1) /\ IsBusinessDay(LocalDate(x))
      BY DEF Counted
    <3>3. \A x : x \in B => x \in Int /\ IsBusinessDay(LocalDate(x))
      BY <1>3, <1>5
    <3> HIDE DEF A
    <3>4. \A x : x \in Counted(t, v) <=> x \in A \/ x \in B
      BY <1>4, <3>1, <3>2, <3>3
    <3> QED BY <3>4
  <2>2. A \cap B = {}
    <3>1. \A x \in A : x \in Int /\ x <= u - 1
      BY DEF Counted
    <3>2. \A x \in B : x \in Int /\ u <= x
      OBVIOUS
    <3>3. \A x \in A : x \notin B
      BY <3>1, <3>2
    <3> QED BY <3>3
  <2>3. IsFiniteSet(B) /\ Cardinality(B) = v - u
    <3>1. IsFiniteSet(B) /\ Cardinality(B) = IF u > v - 1 THEN 0 ELSE (v - 1) - u + 1
      BY FS_Interval
    <3> QED BY <3>1
  <2> HIDE DEF A, B
  <2>4. Cardinality(A \cup B) = Cardinality(A) + Cardinality(B) - Cardinality(A \cap B)
    BY <1>1, <2>3, FS_Union DEF A
  <2>5. Cardinality(A \cap B) = 0
    BY <2>2, FS_EmptySet
  <2>6. Cardinality(A) \in Nat
    BY <1>1 DEF A
  <2>7. Cardinality(A \cup B) = Cardinality(A) + (v - u)
    BY <2>3, <2>4, <2>5, <2>6
  <2> QED BY <1>1, <1>5, <2>1, <2>7 DEF A
<1>6. CASE ~IsBusinessDay(d)
  <2>1. \A x : x \in Counted(t, v) <=> x \in Int /\ x \in t..(v - 1) /\ IsBusinessDay(LocalDate(x))
    BY DEF Counted
  <2>2. \A x : x \in Counted(t, u) <=> x \in Int /\ x \in t..(u - 1) /\ IsBusinessDay(LocalDate(x))
    BY DEF Counted
  <2>3. \A x : x \in Counted(t, v) <=> x \in Counted(t, u)
    BY <1>3, <1>4, <1>6, <2>1, <2>2
  <2>4. Counted(t, v) = Counted(t, u)
    BY <2>3
  <2> QED BY <1>1, <1>6, <2>4
<1> QED BY <1>5, <1>6

\* One date more is one more off day, or none.
LEMMA OffDaysGrow ==
  ASSUME NEW d \in Int, NEW e \in Int, d < e
  PROVE  /\ OffDaysBetween(d, d + 1) = {}
         /\ IsBusinessDay(e) => OffDaysBetween(d, e + 1) = OffDaysBetween(d, e)
         /\ ~IsBusinessDay(e) =>
              /\ e \in OffDaysBetween(d, e + 1)
              /\ Cardinality(OffDaysBetween(d, e + 1)) = Cardinality(OffDaysBetween(d, e)) + 1
<1>1. OffDaysBetween(d, d + 1) = {}
  <2>1. \A x \in (d + 1)..(d + 1 - 1) : FALSE
    OBVIOUS
  <2> QED BY <2>1 DEF OffDaysBetween
<1>2. \A x : x \in OffDaysBetween(d, e) <=> x \in Int /\ d + 1 <= x /\ x <= e - 1 /\ ~IsBusinessDay(x)
  BY DEF OffDaysBetween
<1>3. \A x : x \in OffDaysBetween(d, e + 1) <=> x \in Int /\ d + 1 <= x /\ x <= e /\ ~IsBusinessDay(x)
  BY DEF OffDaysBetween
<1>4. \A x : x \in OffDaysBetween(d, e + 1) <=>
               x \in OffDaysBetween(d, e) \/ (x = e /\ ~IsBusinessDay(e))
  BY <1>2, <1>3
<1>5. IsBusinessDay(e) => OffDaysBetween(d, e + 1) = OffDaysBetween(d, e)
  BY <1>4
<1>6. ASSUME ~IsBusinessDay(e)
      PROVE  /\ e \in OffDaysBetween(d, e + 1)
             /\ Cardinality(OffDaysBetween(d, e + 1)) = Cardinality(OffDaysBetween(d, e)) + 1
  <2>1. e \in OffDaysBetween(d, e + 1)
    BY <1>4, <1>6
  <2>2. OffDaysBetween(d, e + 1) = OffDaysBetween(d, e) \cup {e}
    BY <1>4, <1>6
  <2>3. e \notin OffDaysBetween(d, e)
    BY <1>2
  <2>4. IsFiniteSet(OffDaysBetween(d, e))
    BY OffDaysBounded
  <2> QED BY <2>1, <2>2, <2>3, <2>4, FS_AddElement
<1> QED BY <1>1, <1>5, <1>6

\* At the midnight that begins a date, business time so far is what has been
\* counted, if the dates left out had 24 hours.  By induction on the dates.
LEMMA CountedAtMidnight ==
  ASSUME NEW t \in Int, NEW d \in Days, NEW e \in Days, d < e,
         InDate(t, d), IsBusinessDay(d),
         \A x \in OffDaysBetween(d, e) : Midnight[x + 1] - Midnight[x] = 48
  PROVE  Cardinality(Counted(t, Midnight[e])) =
           (Midnight[e] - t) - 48 * Cardinality(OffDaysBetween(d, e))
<1> DEFINE P(f) == Cardinality(Counted(t, Midnight[f])) =
                     (Midnight[f] - t) - 48 * Cardinality(OffDaysBetween(d, f))
           T == {n \in Nat : d + 1 + n <= e /\ ~P(d + 1 + n)}
<1>0. d \in Int /\ e \in Int /\ d \in Nat
  BY DatesInRange, CalendarAssumption DEF Days
<1>1. P(d + 1)
  <2>1. /\ Midnight[d] \in Int /\ Midnight[d + 1] \in Int
        /\ Midnight[d] <= t /\ t < Midnight[d + 1]
    BY DatesInRange, CalendarAssumption DEF InDate
  <2>2. Cardinality(Counted(t, Midnight[d + 1])) = Cardinality(Counted(t, t)) + (Midnight[d + 1] - t)
    BY <2>1, CountedParts
  <2>3. Counted(t, t) = {}
    <3>1. \A x \in t..(t - 1) : FALSE
      OBVIOUS
    <3> QED BY <3>1 DEF Counted
  <2>4. Cardinality(Counted(t, t)) = 0
    BY <2>3, FS_EmptySet
  <2>5. Cardinality(OffDaysBetween(d, d + 1)) = 0
    BY <1>0, OffDaysGrow, FS_EmptySet
  <2> QED BY <2>1, <2>2, <2>4, <2>5
<1>2. ASSUME NEW f \in Int, d < f, f < e, P(f)
      PROVE  P(f + 1)
  <2>1. f \in Days /\ f \in 0..(LastDay + 1) /\ f + 1 \in 0..(LastDay + 1)
    <3>1. f \in Days
      BY <1>0, <1>2, CalendarAssumption DEF Days
    <3> QED BY <3>1, DatesInRange
  <2>2. d + 1 \in 0..(LastDay + 1) /\ d + 1 <= f
    BY <1>0, <1>2, DatesInRange
  <2>3. /\ Midnight[f] \in Int /\ Midnight[f + 1] \in Int
        /\ t <= Midnight[f] /\ Midnight[f] <= Midnight[f + 1]
    <3>1. t < Midnight[d + 1] /\ Midnight[d + 1] \in Int
      BY <2>2, CalendarAssumption DEF InDate
    <3>2. Midnight[d + 1] <= Midnight[f] /\ Midnight[f] \in Int
      BY <2>1, <2>2, MidnightsInOrder
    <3>3. Midnight[f] <= Midnight[f + 1] /\ Midnight[f + 1] \in Int
      BY <2>1, MidnightsInOrder
    <3> QED BY <3>1, <3>2, <3>3
  <2>4. /\ Cardinality(Counted(t, Midnight[f])) \in Nat
        /\ IsBusinessDay(f) => Cardinality(Counted(t, Midnight[f + 1])) =
             Cardinality(Counted(t, Midnight[f])) + (Midnight[f + 1] - Midnight[f])
        /\ ~IsBusinessDay(f) => Counted(t, Midnight[f + 1]) = Counted(t, Midnight[f])
    BY <2>1, <2>3, CountedParts
  <2>5. Cardinality(OffDaysBetween(d, f)) \in Nat
    BY <1>0, <1>2, OffDaysBounded
  <2>6. CASE IsBusinessDay(f)
    <3>1. OffDaysBetween(d, f + 1) = OffDaysBetween(d, f)
      BY <1>0, <1>2, <2>6, OffDaysGrow
    <3> QED BY <1>2, <2>3, <2>4, <2>5, <2>6, <3>1
  <2>7. CASE ~IsBusinessDay(f)
    <3>1. Cardinality(OffDaysBetween(d, f + 1)) = Cardinality(OffDaysBetween(d, f)) + 1
      BY <1>0, <1>2, <2>7, OffDaysGrow
    <3>2. f \in OffDaysBetween(d, e)
      BY <1>0, <1>2, <2>7 DEF OffDaysBetween
    <3>3. Midnight[f + 1] - Midnight[f] = 48
      BY <3>2
    <3> QED BY <1>2, <2>3, <2>4, <2>5, <2>7, <3>1, <3>3
  <2> QED BY <2>6, <2>7
<1> HIDE DEF P
<1>3. T = {}
  <2> SUFFICES ASSUME T # {} PROVE FALSE
    OBVIOUS
  <2>1. PICK m \in T : \A n \in T : m <= n
    BY LeastNatural
  <2>2. m \in Nat /\ d + 1 + m <= e /\ ~P(d + 1 + m)
    BY <2>1
  <2>3. m # 0
    <3> SUFFICES ASSUME m = 0 PROVE FALSE
      OBVIOUS
    <3>1. d + 1 + m = d + 1
      BY <1>0
    <3> QED BY <3>1, <2>2, <1>1
  <2>4. m - 1 \in Nat /\ m - 1 \notin T
    <3>1. m - 1 \in Nat /\ m - 1 < m
      BY <2>2, <2>3
    <3> QED BY <3>1, <2>1, <2>2
  <2>5. P(d + 1 + (m - 1))
    <3>1. d + 1 + (m - 1) <= e
      BY <1>0, <2>2
    <3> QED BY <3>1, <2>4
  <2>6. d + 1 + (m - 1) = d + m /\ d + m \in Int /\ d < d + m /\ d + m < e
        /\ d + 1 + m = (d + m) + 1
    BY <1>0, <2>2, <2>3
  <2>7. P((d + m) + 1)
    BY <2>5, <2>6, <1>2
  <2> QED BY <2>2, <2>6, <2>7
<1>4. PICK n \in Nat : d + 1 + n = e
  <2>1. e - d - 1 \in Nat /\ d + 1 + (e - d - 1) = e
    BY <1>0
  <2> QED BY <2>1
<1>5. P(d + 1 + n)
  <2>1. d + 1 + n <= e
    BY <1>0, <1>4
  <2>2. n \notin T
    BY <1>3
  <2> HIDE <1>3
  <2> QED BY <2>1, <2>2
<1>6. P(e)
  BY <1>4, <1>5
<1> QED BY <1>6 DEF P

\* Between two business days business time is the time that fell on business
\* days, if the days left out had 24 hours (business_time_between).
THEOREM LagCounts == Spec => []LagCountsBusinessTime
<1>1. TypeOK => LagCountsBusinessTime
  <2> DEFINE d == LocalDate(modified)
             e == LocalDate(now)
  <2> SUFFICES ASSUME TypeOK, IsBusinessDay(d), IsBusinessDay(e),
                      \A x \in OffDaysBetween(d, e) : Midnight[x + 1] - Midnight[x] = 48
               PROVE  BusinessTimeBetween(modified, now) =
                        Cardinality((modified..(now - 1)) \cap BusinessTime)
    BY DEF LagCountsBusinessTime
  <2>1. modified \in Int /\ now \in Int /\ modified <= now
    BY ScheduleAssumption DEF TypeOK
  <2>2. /\ d \in Days /\ e \in Days /\ d \in Int /\ e \in Int
        /\ InDate(modified, d) /\ InDate(now, e)
    BY LocalDateInDays, DatesInRange DEF TypeOK
  <2>3. d <= e
    BY LocalDateMonotone DEF TypeOK
  <2>4. (modified..(now - 1)) \cap BusinessTime = Counted(modified, now)
    <3>1. LastDay + 1 \in 0..(LastDay + 1) /\ 0 \in 0..(LastDay + 1)
          /\ d \in 0..(LastDay + 1) /\ e + 1 \in 0..(LastDay + 1)
          /\ 0 <= d /\ e + 1 <= LastDay + 1
      <4>1. LastDay \in Nat
        BY CalendarAssumption
      <4>2. d \in 0..LastDay /\ e \in 0..LastDay
        BY <2>2 DEF Days
      <4> HIDE DEF d, e
      <4> QED BY <4>1, <4>2
    <3>2. Midnight[0] \in Int /\ Midnight[d] \in Int /\ Midnight[0] <= Midnight[d]
      BY <3>1, MidnightsInOrder
    <3>3. /\ Midnight[e + 1] \in Int /\ Midnight[LastDay + 1] \in Int
          /\ Midnight[e + 1] <= Midnight[LastDay + 1]
      BY <3>1, MidnightsInOrder
    <3>4. Midnight[d] <= modified /\ now < Midnight[e + 1]
      BY <2>2 DEF InDate
    <3> HIDE DEF d, e
    <3>5. \A x \in modified..(now - 1) : x \in Midnight[0]..(Midnight[LastDay + 1] - 1)
      BY <2>1, <3>2, <3>3, <3>4
    <3> QED BY <3>5 DEF BusinessTime, Counted
  <2>5. BusinessTimeBetween(modified, now) = (now - modified) - 48 * Cardinality(OffDaysBetween(d, e))
    BY DEF BusinessTimeBetween
  <2>6. Cardinality(Counted(modified, now)) = (now - modified) - 48 * Cardinality(OffDaysBetween(d, e))
    <3> HIDE DEF d, e
    <3>1. Midnight[d] <= modified /\ Midnight[e] <= now /\ now < Midnight[e + 1]
          /\ Midnight[e] \in Int /\ Midnight[e + 1] \in Int
      BY <2>2, DatesInRange, CalendarAssumption DEF InDate
    <3>2. CASE d = e
      <4>1. Cardinality(Counted(modified, now)) = Cardinality(Counted(modified, modified)) + (now - modified)
        BY <2>1, <2>2, <3>1, <3>2, CountedParts
      <4>2. Counted(modified, modified) = {}
        <5>1. \A x \in modified..(modified - 1) : FALSE
          BY <2>1
        <5> QED BY <5>1 DEF Counted
      <4>3. Cardinality(Counted(modified, modified)) = 0
        BY <4>2, FS_EmptySet
      <4>4. Cardinality(OffDaysBetween(d, e)) = 0
        BY <2>2, <3>2, OffDaysBounded
      <4> QED BY <4>1, <4>3, <4>4, <2>1
    <3>3. CASE d < e
      <4>1. Cardinality(Counted(modified, Midnight[e])) =
              (Midnight[e] - modified) - 48 * Cardinality(OffDaysBetween(d, e))
        BY <2>1, <2>2, <3>3, CountedAtMidnight
      <4>2. modified <= Midnight[e]
        <5>1. d + 1 \in 0..(LastDay + 1) /\ e \in 0..(LastDay + 1) /\ d + 1 <= e
          BY <2>2, <3>3, DatesInRange
        <5>2. modified < Midnight[d + 1] /\ Midnight[d + 1] \in Int
              /\ Midnight[d + 1] <= Midnight[e]
          BY <5>1, <2>2, MidnightsInOrder DEF InDate
        <5> QED BY <5>2, <2>1, <3>1
      <4>3. Cardinality(Counted(modified, now)) =
              Cardinality(Counted(modified, Midnight[e])) + (now - Midnight[e])
        BY <2>1, <2>2, <3>1, <4>2, CountedParts
      <4>4. Cardinality(OffDaysBetween(d, e)) \in Nat
        BY <2>2, <2>3, OffDaysBounded
      <4> QED BY <4>1, <4>3, <4>4, <2>1, <3>1
    <3> QED BY <2>2, <2>3, <3>2, <3>3
  <2> QED BY <2>4, <2>5, <2>6
<1> QED
  BY <1>1, TypeCorrect, PTL

-----------------------------------------------------------------------------
(* Readers.                                                                *)

\* The baseline of a run is from a whole number of weeks before it, and none
\* of those is left out, in every time zone.
THEOREM BaselineIsWeekly == Spec => []SameWeekdayBaseline
<1>1. TypeOK => SameWeekdayBaseline
  <2> SUFFICES ASSUME TypeOK PROVE SameWeekdayBaseline
    OBVIOUS
  <2> DEFINE today == LocalDate(now)
  <2>1. today \in Int
    BY LocalDateInDays, DatesInRange DEF TypeOK
  <2>2. ASSUME NEW o \in obs
        PROVE  o.weekday = Weekday(today) /\ FarEnough(o, today)
                 <=> LocalDate(o.at) < today /\ (today - LocalDate(o.at)) % 7 = 0
    <3> DEFINE d == LocalDate(o.at)
               u == UtcDate(o.at)
    <3>1. o.at \in Instants /\ o.weekday = Weekday(d)
      BY DEF TypeOK
    <3>2. d \in Int /\ u \in Int /\ d - 1 <= u /\ u <= d + 1
      BY <3>1, LocalDateInDays, DatesInRange, DatesOfInstant
    <3>3. o.weekday = Weekday(today) <=> (today - d) % 7 = 0
      BY <2>1, <3>1, <3>2, SameWeekday
    <3>4. FarEnough(o, today) <=> u <= today - 6
      BY DEF FarEnough
    <3> HIDE DEF d, u, today
    <3>5. (today - d) % 7 = 0 => (u <= today - 6 <=> d < today)
      BY <2>1, <3>2
    <3> QED
      BY <3>3, <3>4, <3>5 DEF d
  <2>3. {o \in obs : /\ o.weekday = Weekday(today)
                     /\ o.status \in CleanStatus
                     /\ FarEnough(o, today)}
        = {o \in obs : /\ o.status \in CleanStatus
                       /\ LocalDate(o.at) < today
                       /\ (today - LocalDate(o.at)) % 7 = 0}
    BY <2>2
  <2> QED
    BY <2>3 DEF SameWeekdayBaseline, LastSameWeekdayObservation
<1> QED
  BY <1>1, TypeCorrect, PTL

\* Of some observations there is a newest.
LEMMA NewestExists ==
  ASSUME TypeOK, NEW S, S \subseteq obs, S # {}
  PROVE  NewestOf(S) \in S /\ \A p \in S : p.at <= NewestOf(S).at
<1>1. now \in Int /\ \A o \in S : o.at \in Int /\ now - o.at \in Nat
  <2>1. now \in Int
    BY ScheduleAssumption DEF TypeOK
  <2>2. ASSUME NEW o \in S
        PROVE  o.at \in Int /\ now - o.at \in Nat
    <3>1. o.at \in Int /\ o.at <= now
      BY ScheduleAssumption DEF TypeOK
    <3> QED
      BY <2>1, <3>1
  <2> QED
    BY <2>1, <2>2
<1>2. \E m \in {now - o.at : o \in S} : \A n \in {now - o.at : o \in S} : m <= n
  BY <1>1, LeastNatural
<1>3. PICK o \in S : \A p \in S : now - o.at <= now - p.at
  BY <1>2
<1>4. \A p \in S : p.at <= o.at
  BY <1>1, <1>3
<1> QED
  BY <1>4 DEF NewestOf

\* FAIL is worse than any status but itself and ERROR.
LEMMA FailOutranks ==
  ASSUME NEW s \in Status \ {"FAIL", "ERROR"}
  PROVE  WorstStatus({"FAIL", s}) = "FAIL"
<1>1. Severity["FAIL"] = 2 /\ Severity[s] \in {0, 1}
  BY DEF Severity, Status
<1>2. {Severity[x] : x \in {"FAIL", s}} = {2, Severity[s]}
  BY <1>1
<1>3. \A r \in 0..3 : (/\ r \in {Severity[x] : x \in {"FAIL", s}} \cup {0}
                        /\ \A x \in {"FAIL", s} : Severity[x] <= r)
                      <=> r = 2
  BY <1>1, <1>2
<1>4. WorstRank({"FAIL", s}) = 2
  BY <1>3 DEF WorstRank
<1> QED
  BY <1>4 DEF WorstStatus, RankStatus

\* No failure among the fetched runs of the last seven dates is hidden, neither
\* with its column nor behind a better end of its day.
THEOREM FailuresVisible == Spec => []FailuresStayVisible
<1>1. TypeOK => FailuresStayVisible
  <2> SUFFICES ASSUME TypeOK, NEW o \in History,
                      LocalDate(o.at) \in TrailingDates(LocalDate(now)), o.status = "FAIL"
               PROVE  LET d == LocalDate(o.at)
                      IN  /\ d \in Columns(LocalDate(now))
                          /\ DayCell(d).latest \in {"FAIL", "ERROR"} \/ DayCell(d).marker = "FAIL"
    BY DEF FailuresStayVisible
  <2> DEFINE d == LocalDate(o.at)
             latest == DayLatest(d)
  <2>1. Bucket(d) \subseteq obs /\ o \in Bucket(d)
    BY DEF Bucket, History
  <2>2. latest = NewestOf(Bucket(d)).status /\ NewestOf(Bucket(d)) \in obs
    BY <2>1, NewestExists DEF DayLatest
  <2>3. latest \in Status /\ latest # NoStatus
    BY <2>2 DEF TypeOK, Status, NoStatus
  <2>4. DayCell(d).latest = latest /\ DayCell(d).marker = DayMarker(latest, DayStatuses(d))
    BY DEF DayCell
  <2>5. d \in Columns(LocalDate(now))
    BY <2>3, <2>4 DEF Columns
  <2>6. ASSUME latest \notin {"FAIL", "ERROR"}
        PROVE  DayMarker(latest, DayStatuses(d)) = "FAIL"
    <3>1. "FAIL" \in DayStatuses(d)
      BY <2>1 DEF DayStatuses
    <3>2. WorstStatus({"FAIL", latest}) = "FAIL"
      BY <2>3, <2>6, FailOutranks
    <3> QED
      BY <2>3, <2>6, <3>1, <3>2 DEF DayMarker, Qualifies
  <2> QED
    BY <2>4, <2>5, <2>6
<1> QED
  BY <1>1, TypeCorrect, PTL
=============================================================================
