--------------------------- MODULE HomeGridProofs ---------------------------
(***************************************************************************)
(* TLAPS proofs about HomeGrid, for any objects, sources, checks, verdicts,*)
(* searches, calendar, window and numbers of days and runs.                *)
(***************************************************************************)
EXTENDS HomeGrid, FiniteSetTheorems, WellFoundedInduction, TLAPS

-----------------------------------------------------------------------------
(* The inductive invariants.                                               *)

Observation == [day : Days, status : Status]

Unlit == [status : Shown, marker : Shown, lit : {FALSE}]

\* Types of the run and of the store.
RunTypes ==
  /\ today \in Days
  /\ phase \in {"idle", "running", "stored"}
  /\ announced \in 0..today /\ runDay \in 0..today
  /\ DOMAIN live \subseteq Checks /\ \A k \in DOMAIN live : live[k] \in Status
  /\ DOMAIN outcome \subseteq Checks /\ \A k \in DOMAIN outcome : outcome[k] \in Status
  /\ history \in [Checks -> Seq(Observation)]

\* Types of the grid; no column is ahead of its time.
GridTypes ==
  /\ columns \subseteq Days /\ columns \subseteq 1..today
  /\ Visible \subseteq search /\ search \subseteq Objects
  /\ \A o \in Visible : cells[o] \in [columns \cup {Overall} -> Cell]
  /\ liveRows \subseteq Visible
  /\ behind \in {"no", "run", "failed"}
  /\ cells = [o \in Visible |-> cells[o]]

\* Restores are pending for cells of rows a live result wrote, and put plain
\* cells there.
TimerInv ==
  /\ timers \subseteq [row : liveRows, column : Days \cup {Overall}, cell : Unlit]
  /\ RestoresAreCurrent

\* What the store says of each row, in each column.
Rollups == [o \in Objects |-> [d \in Days \cup {Overall} |-> RollupOn(o, d)]]
StoreRows == [o \in Objects |-> [d \in Days \cup {Overall} |-> StoreCell(o, d)]]

\* The rows and the columns painted from roll-ups f.
RowsPainted(f, hide, needle) == {o \in needle : hide => f[o][Overall] # "OK"}

ColumnsPainted(f, day) ==
  {d \in TrailingDates(day) :
     \/ d = day
     \/ d \notin OffDays
     \/ \E o \in Objects : f[o][d] # NoStatus}

\* Only a run that is stored or failed leaves the grid behind the store; with
\* none since the last repaint, the grid is the store as it was last painted.
PaintInv ==
  /\ behind = "run" => phase = "stored"
  /\ behind = "no" =>
       /\ Visible = RowsPainted(Rollups, hide_ok, search)
       /\ columns = ColumnsPainted(Rollups, PaintedOn)
       /\ \A o \in Visible \ liveRows : \A d \in DOMAIN cells[o] :
            cells[o][d] = StoreRows[o][d]

IInv == RunTypes /\ GridTypes /\ TimerInv /\ CursorOnObject /\ LiveResultsLand /\ PaintInv

-----------------------------------------------------------------------------
(* Statuses, stamps and rows.                                              *)

\* The roll-up of some statuses is a status, or none.
LEMMA WorstIsStatus ==
  ASSUME NEW S, S \subseteq Status
  PROVE  WorstOrUnknown(S) \in Shown
<1> DEFINE T == {Severity[s] : s \in S} \cup {0}
<1>0. \A s \in Status : Severity[s] \in 0..3
  BY DEF Severity, Status
<1>1. T \subseteq 0..3 /\ 0 \in T
  BY <1>0
<1>2. \E r \in 0..3 : r \in T /\ \A t \in T : t <= r
  <2> HIDE DEF T
  <2>1. CASE 3 \in T
    BY <1>1, <2>1
  <2>2. CASE 3 \notin T /\ 2 \in T
    BY <1>1, <2>2
  <2>3. CASE 3 \notin T /\ 2 \notin T /\ 1 \in T
    BY <1>1, <2>3
  <2>4. CASE 3 \notin T /\ 2 \notin T /\ 1 \notin T
    BY <1>1, <2>4
  <2> QED BY <2>1, <2>2, <2>3, <2>4
<1>3. \E r \in 0..3 : r \in T /\ \A s \in S : Severity[s] <= r
  BY <1>2
<1>4. WorstRank(S) \in 0..3
  BY <1>3 DEF WorstRank
<1>5. WorstStatus(S) \in Status
  BY <1>4 DEF WorstStatus, RankStatus, Status
<1> QED BY <1>5 DEF WorstOrUnknown, Shown, Status

\* Of some natural numbers, one comes first.
LEMMA FirstIs ==
  ASSUME NEW T, T \subseteq Nat, T # {}
  PROVE  First(T) \in T
<1>1. PICK m \in T : \A n \in T : <<n, m>> \notin OpToRel(<, Nat)
  BY NatLessThanWellFounded, WFMin
<1>2. \A n \in T : ~(n < m)
  BY <1>1 DEF OpToRel
<1>3. \A n \in T : m <= n
  BY <1>2
<1> QED BY <1>3 DEF First

\* Of some natural numbers up to a bound, one comes last.
LEMMA LastIs ==
  ASSUME NEW b \in Nat, NEW T, T \subseteq 0..b, T # {}
  PROVE  Last(T) \in T /\ \A n \in T : n <= Last(T)
<1> DEFINE U == {b - t : t \in T}
<1>1. U \subseteq Nat /\ U # {}
  <2>1. \A t \in T : t \in 0..b
    OBVIOUS
  <2>2. \A t \in 0..b : b - t \in Nat
    OBVIOUS
  <2>3. \A t \in T : b - t \in Nat
    BY <2>1, <2>2
  <2>4. \E t : t \in T
    OBVIOUS
  <2> QED BY <2>3, <2>4
<1>2. PICK m \in U : \A n \in U : <<n, m>> \notin OpToRel(<, Nat)
  <2> HIDE DEF U
  <2> QED BY <1>1, NatLessThanWellFounded, WFMin
<1>3. \A n \in U : ~(n < m)
  BY <1>1, <1>2 DEF OpToRel
<1>4. PICK t \in T : m = b - t
  BY <1>2
<1>5. \A u \in T : u <= t
  <2> SUFFICES ASSUME NEW u \in T PROVE u <= t
    OBVIOUS
  <2>1. ~(b - u < b - t)
    BY <1>3, <1>4
  <2>2. t \in 0..b /\ u \in 0..b
    OBVIOUS
  <2> QED BY <2>1, <2>2
<1> QED BY <1>4, <1>5 DEF Last


\* The number of an object's row, among rows and headers.
LEMMA RowBound ==
  ASSUME NEW V, V \subseteq Objects, NEW o \in V
  PROVE  RowOf(o, V) \in 0..2 * MaxRow
<1> DEFINE upTo == {p \in V : p <= o}
           sources == {SourceOf[p] : p \in upTo}
           f == [p \in upTo |-> SourceOf[p]]
<1>0. MaxRow \in Nat
  BY HomeGridAssumption
<1>1. IsFiniteSet(1..MaxRow) /\ Cardinality(1..MaxRow) <= MaxRow
  BY <1>0, FS_Interval
<1>2. upTo \in SUBSET (1..MaxRow)
  BY DEF Objects
<1>3. IsFiniteSet(upTo) /\ Cardinality(upTo) <= MaxRow
  <2> HIDE DEF upTo
  <2>1. IsFiniteSet(upTo) /\ Cardinality(upTo) <= Cardinality(1..MaxRow)
    BY <1>1, <1>2, FS_Subset
  <2>2. Cardinality(upTo) \in Nat /\ Cardinality(1..MaxRow) \in Nat
    BY <2>1, <1>1, FS_CardinalityType
  <2> QED BY <2>1, <2>2, <1>1, <1>0
<1>4. upTo # {}
  BY <1>0 DEF Objects
<1>5. f \in Surjection(upTo, sources)
  BY DEF Surjection
<1>6. IsFiniteSet(sources) /\ Cardinality(sources) <= Cardinality(upTo)
  <2> HIDE DEF f, sources, upTo
  <2> QED BY <1>3, <1>5, FS_Surjection
<1>7. Cardinality(upTo) \in Nat \ {0} /\ Cardinality(sources) \in Nat
  <2> HIDE DEF f, sources, upTo
  <2> QED BY <1>3, <1>4, <1>6, FS_CardinalityType, FS_EmptySet
<1>8. RowOf(o, V) = Cardinality(upTo) + Cardinality(sources) - 1
  BY DEF RowOf
<1> HIDE DEF f, sources, upTo
<1> QED BY <1>0, <1>3, <1>6, <1>7, <1>8

\* Rows have numbers; the first of some rows, and the last, are among them.
LEMMA RowsAreNumbers ==
  ASSUME NEW V, V \subseteq Objects
  PROVE  /\ ObjectRows(V) \subseteq 0..2 * MaxRow
         /\ V # {} => LeadingRow(V) \in ObjectRows(V)
         /\ \A R \in SUBSET ObjectRows(V) : R # {} => First(R) \in R /\ Last(R) \in R
<1>0. 2 * MaxRow \in Nat
  BY HomeGridAssumption
<1>1. ObjectRows(V) \subseteq 0..2 * MaxRow
  BY RowBound DEF ObjectRows
<1>2. ObjectRows(V) \subseteq Nat
  BY <1>0, <1>1
<1>3. V # {} => ObjectRows(V) # {}
  BY DEF ObjectRows
<1>4. V # {} => LeadingRow(V) \in ObjectRows(V)
  BY <1>2, <1>3, FirstIs DEF LeadingRow
<1>5. \A R \in SUBSET ObjectRows(V) : R # {} => First(R) \in R /\ Last(R) \in R
  <2> SUFFICES ASSUME NEW R \in SUBSET ObjectRows(V), R # {}
               PROVE  First(R) \in R /\ Last(R) \in R
    OBVIOUS
  <2>1. R \subseteq Nat /\ R \subseteq 0..2 * MaxRow
    BY <1>1, <1>2
  <2> QED BY <2>1, <1>0, FirstIs, LastIs
<1> QED BY <1>1, <1>4, <1>5

-----------------------------------------------------------------------------
(* What the store says.                                                    *)

\* Among stored rows of known statuses, roll-ups and cells are well formed,
\* and cells that come from the store are not lit.
LEMMA StoreTypes ==
  ASSUME history \in [Checks -> Seq(Observation)]
  PROVE  /\ Rollups \in [Objects -> [Days \cup {Overall} -> Shown]]
         /\ StoreRows \in [Objects -> [Days \cup {Overall} -> Unlit]]
<1>1. ASSUME NEW k \in Checks, NEW d
      PROVE  LatestOn(k, d) \in Shown
  <2> DEFINE h == history[k]
             seen == {i \in DOMAIN h : d \in {Overall, h[i].day}}
             latest == CHOOSE i \in seen : \A j \in seen : j <= i
  <2>1. h \in Seq(Observation) /\ Len(h) \in Nat /\ DOMAIN h = 1..Len(h)
    OBVIOUS
  <2>2. CASE seen = {}
    BY <2>2 DEF LatestOn, Shown
  <2>3. CASE seen # {}
    <3>1. seen \subseteq 0..Len(h)
      BY <2>1
    <3>2. latest \in seen
      <4> HIDE DEF seen, h
      <4>1. latest = Last(seen)
        BY DEF Last
      <4> HIDE DEF latest
      <4> QED BY <2>1, <2>3, <3>1, <4>1, LastIs
    <3>3. LatestOn(k, d) = h[latest].status
      BY <2>3 DEF LatestOn
    <3>4. latest \in DOMAIN h
      BY <3>2
    <3> HIDE DEF latest, seen, h
    <3>5. h[latest] \in Observation
      BY <2>1, <3>4
    <3> QED BY <3>3, <3>5 DEF Observation, Shown
  <2> QED BY <2>2, <2>3
<1>2. ASSUME NEW o \in Objects, NEW d
      PROVE  RollupOn(o, d) \in Shown
  <2>1. {LatestOn(k, d) : k \in ChecksOf[o]} \ {NoStatus} \subseteq Status
    BY <1>1 DEF ChecksOf, Shown
  <2> QED BY <2>1, WorstIsStatus DEF RollupOn
<1>3. ASSUME NEW o \in Objects, NEW d
      PROVE  StoreCell(o, d) \in Unlit
  <2>1. NoStatus \in Shown
    BY DEF Shown
  <2>2. \A latest, S : DayMarker(latest, S) \in Shown
    BY DEF DayMarker, Shown, Status
  <2>3. \A s \in Shown, m \in Shown : Plain(s, m) \in Unlit
    BY DEF Plain, Unlit
  <2> QED BY <1>2, <2>1, <2>2, <2>3 DEF StoreCell
<1> QED BY <1>2, <1>3 DEF Rollups, StoreRows

\* A repaint paints the rows and the columns by what the store says, today's
\* column among them and last.
LEMMA PaintFacts ==
  ASSUME RunTypes
  PROVE  /\ \A hide : \A needle \in SUBSET Objects :
              Applied(hide, needle) = RowsPainted(Rollups, hide, needle)
         /\ \A day : KeptDates(day) = ColumnsPainted(Rollups, day)
         /\ KeptDates(today) \subseteq 1..today
         /\ KeptDates(today) \subseteq Days
         /\ today \in KeptDates(today)
         /\ Last(KeptDates(today)) = today
<1>1. \A o \in Objects : \A d \in Days \cup {Overall} : Rollups[o][d] = RollupOn(o, d)
  BY DEF Rollups
<1>2. \A hide : \A needle \in SUBSET Objects :
         Applied(hide, needle) = RowsPainted(Rollups, hide, needle)
  <2> SUFFICES ASSUME NEW hide, NEW needle \in SUBSET Objects
               PROVE  Applied(hide, needle) = RowsPainted(Rollups, hide, needle)
    OBVIOUS
  <2>1. \A o \in needle : RollupOn(o, Overall) = Rollups[o][Overall]
    BY <1>1
  <2> QED BY <2>1 DEF Applied, RowsPainted
<1>3. \A day : KeptDates(day) = ColumnsPainted(Rollups, day)
  <2> SUFFICES ASSUME NEW day PROVE KeptDates(day) = ColumnsPainted(Rollups, day)
    OBVIOUS
  <2>1. \A d \in TrailingDates(day) : \A o \in Objects : RollupOn(o, d) = Rollups[o][d]
    BY <1>1 DEF TrailingDates
  <2> QED BY <2>1 DEF KeptDates, ColumnsPainted
<1>4. today \in Days /\ Days \subseteq Nat /\ Days = 1..MaxDay /\ MaxDay \in Nat
  BY HomeGridAssumption DEF RunTypes, Days
<1>5. \A d \in KeptDates(today) : d \in Days /\ d <= today
  BY DEF KeptDates, TrailingDates
<1>6. today \in KeptDates(today)
  BY <1>4, HomeGridAssumption DEF KeptDates, TrailingDates
<1>7. KeptDates(today) \subseteq 1..today
  BY <1>4, <1>5
<1>8. Last(KeptDates(today)) = today
  <2> DEFINE K == KeptDates(today)
  <2> HIDE DEF K
  <2>1. K \subseteq 0..today /\ today \in Nat /\ today \in K /\ K # {}
    BY <1>4, <1>6, <1>7 DEF K
  <2>2. Last(K) \in K /\ \A d \in K : d <= Last(K)
    BY <2>1, LastIs
  <2>3. Last(K) \in 0..today /\ today <= Last(K)
    <3> DEFINE l == Last(K)
    <3> HIDE DEF l
    <3>1. l \in K /\ \A d \in K : d <= l
      BY <2>2 DEF l
    <3>2. l \in 0..today /\ today <= l
      BY <2>1, <3>1
    <3> QED BY <3>2 DEF l
  <2>4. Last(K) = today
    <3> DEFINE l == Last(K)
    <3> HIDE DEF l
    <3>1. l \in 0..today /\ today <= l
      BY <2>3 DEF l
    <3>2. l = today
      BY <2>1, <3>1
    <3> QED BY <3>2 DEF l
  <2> QED BY <2>4 DEF K
<1> QED BY <1>2, <1>3, <1>5, <1>6, <1>7, <1>8

\* What is stored decides what the store says.
LEMMA StoreSame ==
  ASSUME history' = history
  PROVE  Rollups' = Rollups /\ StoreRows' = StoreRows
<1>1. Rollups' = Rollups
  BY DEF Rollups, RollupOn, LatestOn
<1>2. StoreRows' = StoreRows
  BY DEF StoreRows, StoreCell, RollupOn, LatestOn, StatusesOn
<1> QED BY <1>1, <1>2

-----------------------------------------------------------------------------
(* Repaints.                                                               *)

\* A repaint, through whatever view, puts the grid right.
LEMMA Refreshed ==
  ASSUME RunTypes, NEW hide, NEW needle \in SUBSET Objects, Refresh(hide, needle),
         hide_ok' = hide, search' = needle, history' = history, today' = today
  PROVE  GridTypes' /\ TimerInv' /\ CursorOnObject' /\ LiveResultsLand' /\ PaintInv'
<1> DEFINE V == Applied(hide, needle)
           C == KeptDates(today)
<1>1. /\ columns' = C /\ timers' = {} /\ liveRows' = {} /\ behind' = "no"
      /\ cells' = [o \in V |-> [d \in C \cup {Overall} |-> StoreCell(o, d)]]
      /\ cursor' = LeadingRow(V)
  BY DEF Refresh
<1>2. /\ V = RowsPainted(Rollups, hide, needle)
      /\ C = ColumnsPainted(Rollups, today)
      /\ C \subseteq Days /\ C \subseteq 1..today /\ today \in C /\ Last(C) = today
  BY PaintFacts
<1>3. V \subseteq needle /\ V \subseteq Objects
  BY DEF Applied
<1>4. \A o \in V : \A d \in C \cup {Overall} :
         StoreCell(o, d) = StoreRows[o][d] /\ StoreRows[o][d] \in Unlit
  <2> HIDE DEF V, C
  <2>1. StoreRows \in [Objects -> [Days \cup {Overall} -> Unlit]]
    BY StoreTypes DEF RunTypes
  <2> QED BY <2>1, <1>2, <1>3 DEF StoreRows
<1>5. Rollups' = Rollups /\ StoreRows' = StoreRows
  BY StoreSame
<1>6. PaintedOn' = today
  BY <1>1, <1>2 DEF PaintedOn, Last
<1> HIDE DEF V, C
<1>7. Visible' = V /\ \A o \in V : cells'[o] = [d \in C \cup {Overall} |-> StoreCell(o, d)]
  BY <1>1 DEF Visible
<1>8. \A o \in V : \A d \in C \cup {Overall} :
         cells'[o][d] = StoreRows[o][d] /\ cells'[o][d] \in Unlit
  <2>1. \A o \in V : \A d \in C \cup {Overall} : cells'[o][d] = StoreCell(o, d)
    BY <1>7
  <2> QED BY <2>1, <1>4
<1>9. Unlit \subseteq Cell
  BY DEF Unlit, Cell
<1>10. GridTypes'
  <2>1. \A o \in V : cells'[o] \in [C \cup {Overall} -> Cell]
    BY <1>7, <1>8, <1>9
  <2>2. cells' = [o \in V |-> cells'[o]]
    BY <1>1
  <2> QED BY <2>1, <2>2, <1>1, <1>2, <1>3, <1>7 DEF GridTypes
<1>11. TimerInv'
  <2>1. \A o \in V : \A d \in DOMAIN cells'[o] : cells'[o][d].lit = FALSE
    BY <1>7, <1>8 DEF Unlit
  <2> QED BY <2>1, <1>1, <1>7 DEF TimerInv, RestoresAreCurrent
<1>12. CursorOnObject'
  <2>1. V # {} => cursor' \in ObjectRows(V)
    BY <1>1, <1>3, RowsAreNumbers
  <2> QED BY <2>1, <1>7 DEF CursorOnObject, ObjectRows, RowOf
<1>13. LiveResultsLand'
  BY <1>1, <1>2 DEF LiveResultsLand, TodayHasColumn, LiveCellsAgree
<1>14. PaintInv'
  <2>1. Visible' = RowsPainted(Rollups', hide_ok', search')
    BY <1>2, <1>5, <1>7
  <2>2. columns' = ColumnsPainted(Rollups', PaintedOn')
    BY <1>1, <1>2, <1>5, <1>6
  <2>3. \A o \in V : \A d \in DOMAIN cells'[o] : cells'[o][d] = StoreRows'[o][d]
    BY <1>5, <1>7, <1>8
  <2>4. behind' # "run"
    BY <1>1
  <2> QED BY <2>1, <2>2, <2>3, <2>4, <1>7 DEF PaintInv
<1> QED BY <1>10, <1>11, <1>12, <1>13, <1>14

\* A repaint is not needed where nothing of the grid or of the store changes.
LEMMA GridLeft ==
  ASSUME IInv, UNCHANGED <<today, gridVars, viewVars>>,
         behind' \in {"no", "run", "failed"}, behind' = "run" => phase' = "stored",
         behind' = "no" => behind = "no" /\ history' = history,
         announced' = today => today \in columns
  PROVE  GridTypes' /\ TimerInv' /\ CursorOnObject' /\ LiveResultsLand' /\ PaintInv'
<1> USE DEF gridVars, viewVars, IInv
<1>1. GridTypes'
  BY DEF GridTypes, Visible
<1>2. TimerInv'
  BY DEF TimerInv, RestoresAreCurrent, Visible
<1>3. CursorOnObject'
  BY DEF CursorOnObject, Visible, ObjectRows, RowOf
<1>4. LiveResultsLand'
  BY DEF LiveResultsLand, TodayHasColumn, LiveCellsAgree
<1>5. PaintInv'
  <2> SUFFICES ASSUME behind' = "no" PROVE PaintInv'
    BY DEF PaintInv
  <2>1. Visible' = Visible /\ PaintedOn' = PaintedOn
    BY DEF Visible, PaintedOn, Last
  <2>2. Rollups' = Rollups /\ StoreRows' = StoreRows
    BY StoreSame
  <2> QED BY <2>1, <2>2 DEF PaintInv
<1> QED BY <1>1, <1>2, <1>3, <1>4, <1>5

-----------------------------------------------------------------------------
(* Live results and their highlights.                                      *)

\* A live result's cells are well formed, and not lit once restored.
LEMMA LiveCellType ==
  ASSUME \A k \in DOMAIN live' : live'[k] \in Status, NEW o, NEW d, NEW s
  PROVE  /\ LiveCell(o, d, s) = Plain(RollupLive(o), NoStatus)
         /\ LiveCell(o, d, s) \in Unlit
<1>1. {live'[k] : k \in ChecksOf[o] \cap DOMAIN live'} \subseteq Status
  OBVIOUS
<1>2. RollupLive(o) \in Shown
  BY <1>1, WorstIsStatus DEF RollupLive
<1> QED BY <1>2 DEF LiveCell, Plain, Unlit, Shown

\* Flashing the cells of a live result.
LEMMA Flashed ==
  ASSUME IInv, NEW o \in Visible, NEW s, Flash(o, {Overall, today}, s),
         \A k \in DOMAIN live' : live'[k] \in Status,
         liveRows' = liveRows \cup {o},
         UNCHANGED <<today, announced, phase, history, hide_ok, search, columns, cursor, behind>>
  PROVE  GridTypes' /\ TimerInv' /\ CursorOnObject' /\ LiveResultsLand' /\ PaintInv'
<1> DEFINE cols == {Overall, today}
           shown == cols \cap DOMAIN cells[o]
           plain == LiveCell(o, Overall, s)
           bright == [plain EXCEPT !.lit = TRUE]
           kept == {t \in timers : t.row # o \/ t.column \notin cols}
<1>0. GridTypes /\ TimerInv /\ RunTypes
  BY DEF IInv
<1>1. plain \in Unlit /\ \A d : LiveCell(o, d, s) = plain
  BY LiveCellType
<1> HIDE DEF plain
<1>2. timers' = kept \cup {[row |-> o, column |-> d, cell |-> plain] : d \in shown}
  BY <1>1 DEF Flash, Restores
<1>3. cells' = [cells EXCEPT ![o] = [d \in DOMAIN @ |-> IF d \in shown THEN bright ELSE @[d]]]
  BY <1>1 DEF Flash
<1>4. bright \in Cell /\ bright.lit /\ bright = [plain EXCEPT !.lit = TRUE]
  BY <1>1 DEF Unlit, Cell
<1>5. DOMAIN cells[o] = columns \cup {Overall} /\ shown \subseteq DOMAIN cells[o]
  BY <1>0 DEF GridTypes
<1> HIDE DEF kept, bright
<1>6. /\ DOMAIN cells' = DOMAIN cells /\ Visible' = Visible
      /\ \A p \in Visible : p # o => cells'[p] = cells[p]
      /\ cells'[o] = [d \in DOMAIN cells[o] |-> IF d \in shown THEN bright ELSE cells[o][d]]
      /\ cells' = [p \in Visible |-> cells'[p]]
  <2>1. o \in DOMAIN cells
    BY DEF Visible
  <2>2. /\ DOMAIN cells' = DOMAIN cells
        /\ \A p \in DOMAIN cells : p # o => cells'[p] = cells[p]
        /\ cells'[o] = [d \in DOMAIN cells[o] |-> IF d \in shown THEN bright ELSE cells[o][d]]
        /\ cells' = [p \in DOMAIN cells |-> cells'[p]]
    <3> HIDE DEF shown
    <3> QED BY <2>1, <1>3
  <2> QED BY <2>2 DEF Visible
<1>7. /\ DOMAIN cells'[o] = DOMAIN cells[o]
      /\ \A d \in shown : cells'[o][d] = bright
      /\ \A d \in DOMAIN cells[o] \ shown : cells'[o][d] = cells[o][d]
  BY <1>5, <1>6
<1> HIDE DEF shown
<1>8. \A p \in Visible : DOMAIN cells'[p] = DOMAIN cells[p]
  BY <1>6, <1>7
<1>9. GridTypes'
  <2>1. ASSUME NEW p \in Visible
        PROVE  cells'[p] \in [columns \cup {Overall} -> Cell]
    <3>1. CASE p # o
      BY <3>1, <1>0, <1>6 DEF GridTypes
    <3>2. CASE p = o
      <4>1. \A d \in columns \cup {Overall} : cells[o][d] \in Cell
        BY <1>0 DEF GridTypes
      <4> QED BY <3>2, <4>1, <1>4, <1>5, <1>6
    <3> QED BY <3>1, <3>2
  <2>2. liveRows' \subseteq Visible
    BY <1>0 DEF GridTypes
  <2> QED BY <2>1, <2>2, <1>0, <1>6 DEF GridTypes
<1>10. TimerInv'
  <2>1. ASSUME NEW t \in timers'
        PROVE  /\ t \in [row : liveRows', column : Days \cup {Overall}, cell : Unlit]
               /\ t.row \in Visible /\ t.column \in DOMAIN cells'[t.row]
               /\ cells'[t.row][t.column] = [t.cell EXCEPT !.lit = TRUE]
    <3>1. CASE t \in kept
      <4>1. t \in timers /\ (t.row # o \/ t.column \notin cols)
        BY <3>1 DEF kept
      <4>2. /\ t \in [row : liveRows, column : Days \cup {Overall}, cell : Unlit]
            /\ t.row \in Visible /\ t.column \in DOMAIN cells[t.row]
            /\ cells[t.row][t.column] = [t.cell EXCEPT !.lit = TRUE]
        BY <4>1, <1>0 DEF TimerInv, RestoresAreCurrent
      <4>3. t.row = o => t.column \in DOMAIN cells[o] \ shown
        BY <4>1, <4>2 DEF shown
      <4>4. t \in [row : liveRows', column : Days \cup {Overall}, cell : Unlit]
        BY <4>2
      <4>5. cells'[t.row][t.column] = cells[t.row][t.column]
        BY <4>2, <4>3, <1>6, <1>7
      <4> QED BY <4>2, <4>4, <4>5, <1>8
    <3>2. CASE t \notin kept
      <4>1. PICK d \in shown : t = [row |-> o, column |-> d, cell |-> plain]
        BY <3>2, <1>2
      <4>2. t.row = o /\ t.column = d /\ t.cell = plain
        BY <4>1
      <4>3. d \in Days \cup {Overall}
        BY <1>0, <1>5 DEF GridTypes
      <4>4. d \in DOMAIN cells'[o]
        BY <1>5, <1>7
      <4> QED BY <4>1, <4>2, <4>3, <4>4, <1>1, <1>4, <1>7
    <3> QED BY <3>1, <3>2
  <2>2. ASSUME NEW p \in Visible, NEW d \in DOMAIN cells'[p], cells'[p][d].lit
        PROVE  \E t \in timers' : t.row = p /\ t.column = d
    <3>1. CASE p = o /\ d \in shown
      <4>1. [row |-> o, column |-> d, cell |-> plain] \in timers'
        BY <3>1, <1>2
      <4> QED BY <4>1, <3>1
    <3>2. CASE p # o \/ d \notin shown
      <4>1. d \in DOMAIN cells[p] /\ cells'[p][d] = cells[p][d]
        BY <3>2, <1>6, <1>7, <1>8
      <4>2. PICK t \in timers : t.row = p /\ t.column = d
        BY <2>2, <4>1, <1>0 DEF TimerInv, RestoresAreCurrent
      <4>3. t \in kept
        BY <3>2, <4>1, <4>2 DEF kept, shown
      <4> QED BY <4>2, <4>3, <1>2
    <3> QED BY <3>1, <3>2
  <2>3. timers' \subseteq [row : liveRows', column : Days \cup {Overall}, cell : Unlit]
    BY <2>1
  <2> QED BY <2>1, <2>2, <2>3, <1>6 DEF TimerInv, RestoresAreCurrent
<1>11. CursorOnObject'
  BY <1>6 DEF IInv, CursorOnObject, Visible, ObjectRows, RowOf
<1>12. LiveResultsLand'
  <2>1. TodayHasColumn'
    BY DEF IInv, LiveResultsLand, TodayHasColumn
  <2>2. ASSUME NEW p \in liveRows', today' \in columns'
        PROVE  cells'[p][Overall].status = cells'[p][today'].status
    <3>1. CASE p = o
      <4>1. Overall \in shown /\ today \in shown
        BY <2>2, <1>5 DEF shown
      <4> QED BY <3>1, <4>1, <1>7
    <3>2. CASE p # o
      <4>1. p \in liveRows /\ p \in Visible
        BY <3>2, <1>0 DEF GridTypes
      <4> QED BY <2>2, <3>2, <4>1, <1>6 DEF IInv, LiveResultsLand, LiveCellsAgree
    <3> QED BY <3>1, <3>2
  <2> QED BY <2>1, <2>2 DEF LiveResultsLand, LiveCellsAgree
<1>13. PaintInv'
  <2>1. PaintedOn' = PaintedOn
    BY DEF PaintedOn, Last
  <2>2. Rollups' = Rollups /\ StoreRows' = StoreRows
    BY StoreSame
  <2>3. \A p \in Visible \ liveRows' : cells'[p] = cells[p] /\ p \in Visible \ liveRows
    BY <1>6
  <2> QED BY <2>1, <2>2, <2>3, <1>6 DEF IInv, PaintInv
<1> QED BY <1>9, <1>10, <1>11, <1>12, <1>13

\* A restore takes the light from its cell, and nothing else.
LEMMA Restored ==
  ASSUME IInv, Restore
  PROVE  GridTypes' /\ TimerInv' /\ CursorOnObject' /\ LiveResultsLand' /\ PaintInv'
<1>0. GridTypes /\ TimerInv
  BY DEF IInv
<1>1. PICK t \in timers :
        /\ timers' = timers \ {t}
        /\ cells' = [o \in Visible |-> [d \in DOMAIN cells[o] |->
                       IF <<o, d>> = <<t.row, t.column>> THEN t.cell ELSE cells[o][d]]]
  BY DEF Restore
<1>2. UNCHANGED <<today, announced, phase, history, hide_ok, search, columns, cursor, liveRows,
                behind>>
  BY DEF Restore, runVars, storeVars, viewVars
<1>3. \A u \in timers :
        /\ u \in [row : liveRows, column : Days \cup {Overall}, cell : Unlit]
        /\ u.row \in Visible /\ u.column \in DOMAIN cells[u.row]
        /\ cells[u.row][u.column] = [u.cell EXCEPT !.lit = TRUE]
  BY <1>0 DEF TimerInv, RestoresAreCurrent
<1>4. /\ Visible' = Visible
      /\ cells' = [o \in Visible |-> cells'[o]]
      /\ \A o \in Visible : cells'[o] = [d \in DOMAIN cells[o] |->
           IF <<o, d>> = <<t.row, t.column>> THEN t.cell ELSE cells[o][d]]
  BY <1>1 DEF Visible
<1>5. \A o \in Visible : DOMAIN cells'[o] = DOMAIN cells[o]
  BY <1>4
<1>6. cells'[t.row][t.column] = t.cell
  BY <1>3, <1>4
<1>7. \A o \in Visible : \A d \in DOMAIN cells[o] :
        o # t.row \/ d # t.column => cells'[o][d] = cells[o][d]
  BY <1>4
<1>8. t.cell \in Unlit /\ t.cell \in Cell /\ t.cell.lit = FALSE
  BY <1>3 DEF Unlit, Cell
<1>9. cells[t.row][t.column].status = t.cell.status
  BY <1>3, <1>8 DEF Unlit
<1>10. \A o \in Visible : \A d \in DOMAIN cells[o] : cells'[o][d].status = cells[o][d].status
  BY <1>6, <1>7, <1>9
<1>11. GridTypes'
  <2>1. ASSUME NEW o \in Visible
        PROVE  cells'[o] \in [columns \cup {Overall} -> Cell]
    <3>1. cells[o] \in [columns \cup {Overall} -> Cell]
      BY <1>0 DEF GridTypes
    <3>2. \A d \in columns \cup {Overall} : cells'[o][d] \in Cell
      BY <3>1, <1>6, <1>7, <1>8
    <3> QED BY <3>1, <3>2, <1>4
  <2> QED BY <2>1, <1>0, <1>2, <1>4 DEF GridTypes
<1>12. TimerInv'
  <2>1. ASSUME NEW u \in timers'
        PROVE  /\ u.row \in Visible /\ u.column \in DOMAIN cells'[u.row]
               /\ cells'[u.row][u.column] = [u.cell EXCEPT !.lit = TRUE]
    <3>1. u \in timers /\ u # t
      BY <1>1
    <3>2. u.row # t.row \/ u.column # t.column
      <4> SUFFICES ASSUME u.row = t.row, u.column = t.column PROVE FALSE
        OBVIOUS
      <4>1. [u.cell EXCEPT !.lit = TRUE] = [t.cell EXCEPT !.lit = TRUE]
        BY <3>1, <1>3
      <4>2. u.cell \in Unlit /\ t.cell \in Unlit
        BY <3>1, <1>3
      <4>3. u.cell = t.cell
        <5> DEFINE a == u.cell
                   b == t.cell
        <5> HIDE DEF a, b
        <5>1. a \in Unlit /\ b \in Unlit /\ [a EXCEPT !.lit = TRUE] = [b EXCEPT !.lit = TRUE]
          BY <4>1, <4>2 DEF a, b
        <5>2. a.status = b.status /\ a.marker = b.marker /\ a.lit = FALSE /\ b.lit = FALSE
          <6>1. \A c \in Unlit : /\ [c EXCEPT !.lit = TRUE].status = c.status
                                 /\ [c EXCEPT !.lit = TRUE].marker = c.marker
                                 /\ c.lit = FALSE
            BY DEF Unlit
          <6> QED BY <5>1, <6>1
        <5>3. \A c \in Unlit : c = [status |-> c.status, marker |-> c.marker, lit |-> c.lit]
          BY DEF Unlit
        <5>4. a = b
          BY <5>1, <5>2, <5>3
        <5> QED BY <5>4 DEF a, b
      <4>4. /\ u = [row |-> u.row, column |-> u.column, cell |-> u.cell]
            /\ t = [row |-> t.row, column |-> t.column, cell |-> t.cell]
        BY <3>1, <1>3
      <4> QED BY <3>1, <4>3, <4>4
    <3> QED BY <3>1, <3>2, <1>3, <1>5, <1>7
  <2>2. ASSUME NEW o \in Visible, NEW d \in DOMAIN cells'[o], cells'[o][d].lit
        PROVE  \E u \in timers' : u.row = o /\ u.column = d
    <3>1. o # t.row \/ d # t.column
      BY <2>2, <1>6, <1>8
    <3>2. d \in DOMAIN cells[o] /\ cells[o][d].lit
      BY <2>2, <3>1, <1>5, <1>7
    <3>3. PICK u \in timers : u.row = o /\ u.column = d
      BY <3>2, <1>0 DEF TimerInv, RestoresAreCurrent
    <3> QED BY <3>1, <3>3, <1>1
  <2>3. timers' \subseteq [row : liveRows', column : Days \cup {Overall}, cell : Unlit]
    BY <1>1, <1>2, <1>3
  <2> QED BY <2>1, <2>2, <2>3, <1>4 DEF TimerInv, RestoresAreCurrent
<1>13. CursorOnObject'
  BY <1>2, <1>4 DEF IInv, CursorOnObject, Visible, ObjectRows, RowOf
<1>14. LiveResultsLand'
  <2>1. TodayHasColumn'
    BY <1>2 DEF IInv, LiveResultsLand, TodayHasColumn
  <2>2. ASSUME NEW o \in liveRows, today \in columns
        PROVE  cells'[o][Overall].status = cells'[o][today].status
    <3>1. o \in Visible /\ Overall \in DOMAIN cells[o] /\ today \in DOMAIN cells[o]
      BY <2>2, <1>0 DEF GridTypes
    <3>2. cells[o][Overall].status = cells[o][today].status
      BY <2>2 DEF IInv, LiveResultsLand, LiveCellsAgree
    <3> QED BY <3>1, <3>2, <1>10
  <2> QED BY <2>1, <2>2, <1>2 DEF LiveResultsLand, LiveCellsAgree
<1>15. PaintInv'
  <2>1. PaintedOn' = PaintedOn
    BY <1>2 DEF PaintedOn, Last
  <2>2. Rollups' = Rollups /\ StoreRows' = StoreRows
    BY <1>2, StoreSame
  <2>3. t.row \in liveRows
    BY <1>3
  <2>4. \A o \in Visible \ liveRows : \A d \in DOMAIN cells[o] :
           cells'[o][d] = cells[o][d]
    BY <2>3, <1>7
  <2> QED BY <2>1, <2>2, <2>4, <1>2, <1>4, <1>5 DEF IInv, PaintInv
<1> QED BY <1>11, <1>12, <1>13, <1>14, <1>15

-----------------------------------------------------------------------------
(* Every step.                                                             *)

\* One check's result more.
LEMMA ResultAdded ==
  ASSUME NEW f, NEW k, NEW s \in Status, \A j \in DOMAIN f : f[j] \in Status
  PROVE  /\ DOMAIN With(f, k, s) = DOMAIN f \cup {k}
         /\ \A j \in DOMAIN f \cup {k} : With(f, k, s)[j] \in Status
  BY DEF With

\* Types of the run and of the store are kept.
LEMMA RunTypesKept == RunTypes /\ [Next]_vars => RunTypes'
<1> SUFFICES ASSUME RunTypes, [Next]_vars PROVE RunTypes'
  OBVIOUS
<1>0. MaxDay \in Nat \ {0} /\ Days = 1..MaxDay /\ today \in 1..MaxDay
  BY HomeGridAssumption DEF Days, RunTypes
<1>1. CASE UNCHANGED <<today, runVars, storeVars>>
  BY <1>1 DEF RunTypes, runVars, storeVars
<1>2. CASE Midnight
  <2>1. today' \in Days /\ 0..today \subseteq 0..today'
    BY <1>0, <1>2 DEF Midnight
  <2> QED BY <1>2, <2>1 DEF Midnight, RunTypes, runVars, storeVars
<1>3. CASE PressRun
  BY <1>3 DEF PressRun, RunTypes, storeVars
<1>4. CASE ThreadStart
  BY <1>0, <1>4 DEF ThreadStart, RunTypes, storeVars
<1>5. CASE HandleRunning
  <2>1. UNCHANGED <<today, phase, runDay, outcome, history>> /\ live' = NoOutcome
        /\ announced' = today
    BY <1>5 DEF HandleRunning, storeVars
  <2>2. DOMAIN live' = {}
    BY <2>1 DEF NoOutcome
  <2> QED BY <1>0, <2>1, <2>2 DEF RunTypes
<1>6. CASE HandleProgress
  <2>1. UNCHANGED <<today, phase, announced, runDay, history>>
    BY <1>6 DEF HandleProgress, storeVars
  <2>2. PICK k \in Checks \ DOMAIN live : \E s \in OutcomesOf(k) :
          outcome' = With(outcome, k, s) /\ live' = With(live, k, s)
    BY <1>6 DEF HandleProgress
  <2>3. PICK s \in OutcomesOf(k) :
          outcome' = With(outcome, k, s) /\ live' = With(live, k, s)
    BY <2>2
  <2>4. s \in Status
    BY <2>3, HomeGridAssumption DEF OutcomesOf, RunTypes
  <2>5. \A f : (\A j \in DOMAIN f : f[j] \in Status) =>
          /\ DOMAIN With(f, k, s) = DOMAIN f \cup {k}
          /\ \A j \in DOMAIN f \cup {k} : With(f, k, s)[j] \in Status
    BY <2>4, ResultAdded
  <2>6. DOMAIN outcome' = DOMAIN outcome \cup {k} /\ \A j \in DOMAIN outcome' : outcome'[j] \in Status
    BY <2>3, <2>5 DEF RunTypes
  <2>7. DOMAIN live' = DOMAIN live \cup {k} /\ \A j \in DOMAIN live' : live'[j] \in Status
    BY <2>3, <2>5 DEF RunTypes
  <2> QED BY <2>1, <2>2, <2>6, <2>7 DEF RunTypes
<1>7. CASE RunStored
  <2>1. UNCHANGED <<today, announced, runDay, live>> /\ runDay # 0 /\ phase' = "stored"
    BY <1>7 DEF RunStored
  <2>2. outcome' \in [Checks -> Status]
    BY <1>7, HomeGridAssumption DEF RunStored
  <2>3. runDay \in Days
    BY <1>0, <2>1 DEF RunTypes
  <2>4. history' \in [Checks -> Seq(Observation)]
    <3>1. \A k \in Checks : Append(history[k], [day |-> runDay, status |-> outcome'[k]])
                              \in Seq(Observation)
      <4>1. \A k \in Checks : [day |-> runDay, status |-> outcome'[k]] \in Observation
        BY <2>2, <2>3 DEF Observation
      <4>2. \A k \in Checks : history[k] \in Seq(Observation)
        BY DEF RunTypes
      <4>3. \A h \in Seq(Observation), x \in Observation : Append(h, x) \in Seq(Observation)
        OBVIOUS
      <4> QED BY <4>1, <4>2, <4>3
    <3> QED BY <3>1, <1>7 DEF RunStored
  <2> QED BY <2>1, <2>2, <2>4 DEF RunTypes
<1>8. CASE EndRun /\ today' = today
  <2>1. DOMAIN outcome' = {}
    BY <1>8 DEF EndRun, NoOutcome
  <2> QED BY <1>0, <1>8, <2>1 DEF EndRun, RunTypes, storeVars
<1>9. Next => \/ UNCHANGED <<today, runVars, storeVars>>
              \/ Midnight \/ PressRun \/ ThreadStart \/ HandleRunning \/ HandleProgress
              \/ RunStored \/ (EndRun /\ today' = today)
  BY DEF Next, ToggleFilter, Search, Reload, CursorDown, CursorUp, MoveTo, Restore,
         HandleSuccess, HandleError, EndRun
<1>10. CASE UNCHANGED vars
  BY <1>10, <1>1 DEF vars
<1> QED BY <1>1, <1>2, <1>3, <1>4, <1>5, <1>6, <1>7, <1>8, <1>9, <1>10

\* The grid is kept right by every step.
LEMMA GridKept ==
  ASSUME IInv, [Next]_vars
  PROVE  GridTypes' /\ TimerInv' /\ CursorOnObject' /\ LiveResultsLand' /\ PaintInv'
<1> DEFINE Kept == GridTypes' /\ TimerInv' /\ CursorOnObject' /\ LiveResultsLand' /\ PaintInv'
<1>0. /\ RunTypes /\ GridTypes
      /\ today \in Nat /\ announced \in 0..today
      /\ search \in SUBSET Objects /\ Visible \subseteq Objects
  <2>1. RunTypes /\ GridTypes
    BY DEF IInv
  <2>2. MaxDay \in Nat /\ today \in 1..MaxDay /\ announced \in 0..today
    BY <2>1, HomeGridAssumption DEF RunTypes, Days
  <2>3. Visible \subseteq search /\ search \subseteq Objects
    BY <2>1 DEF GridTypes
  <2> QED BY <2>1, <2>2, <2>3
<1>1. ASSUME UNCHANGED <<today, gridVars, viewVars>>,
             behind' \in {"no", "run", "failed"}, behind' = "run" => phase' = "stored",
             behind' = "no" => behind = "no" /\ history' = history,
             announced' = today => today \in columns
      PROVE  Kept
  BY <1>1, GridLeft
<1>2. ASSUME NEW hide, NEW needle \in SUBSET Objects, Refresh(hide, needle),
             hide_ok' = hide, search' = needle, history' = history, today' = today
      PROVE  Kept
  BY <1>0, <1>2, Refreshed
<1>3. /\ announced = today => today \in columns
      /\ behind \in {"no", "run", "failed"} /\ (behind = "run" => phase = "stored")
  BY DEF IInv, LiveResultsLand, TodayHasColumn, GridTypes, PaintInv
<1>4. CASE UNCHANGED vars
  BY <1>1, <1>3, <1>4 DEF vars, runVars, storeVars
<1>5. CASE ToggleFilter
  <2>1. Refresh(hide_ok', search)
    BY <1>5 DEF ToggleFilter
  <2>2. search' = search /\ history' = history /\ today' = today
    BY <1>5 DEF ToggleFilter, storeVars
  <2> QED BY <2>1, <2>2, <1>0, Refreshed
<1>6. CASE Search
  <2>1. Refresh(hide_ok, search')
    BY <1>6 DEF Search
  <2>2. hide_ok' = hide_ok /\ history' = history /\ today' = today
    BY <1>6 DEF Search, storeVars
  <2>3. search' \in SUBSET Objects
    BY <1>6, HomeGridAssumption DEF Search
  <2> QED BY <2>1, <2>2, <2>3, <1>0, Refreshed
<1>7. CASE Reload
  <2>1. Refresh(hide_ok, search)
    BY <1>7 DEF Reload
  <2>2. hide_ok' = hide_ok /\ search' = search /\ history' = history /\ today' = today
    BY <1>7 DEF Reload, storeVars, viewVars
  <2> QED BY <2>1, <2>2, <1>0, Refreshed
<1>8. ASSUME NEW row \in ObjectRows(Visible), MoveTo(row)
      PROVE  Kept
  <2>1. /\ cursor' = row
        /\ UNCHANGED <<today, phase, announced, history, hide_ok, search, columns, cells,
                       timers, liveRows, behind>>
    BY <1>8 DEF MoveTo, runVars, storeVars, viewVars
  <2>2. GridTypes'
    BY <2>1, <1>0 DEF GridTypes, Visible
  <2>3. TimerInv'
    BY <2>1 DEF IInv, TimerInv, RestoresAreCurrent, Visible
  <2>4. CursorOnObject'
    BY <2>1, <1>8 DEF CursorOnObject, Visible, ObjectRows, RowOf
  <2>5. LiveResultsLand'
    BY <2>1 DEF IInv, LiveResultsLand, TodayHasColumn, LiveCellsAgree
  <2>6. PaintInv'
    <3>1. Visible' = Visible /\ PaintedOn' = PaintedOn
      BY <2>1 DEF Visible, PaintedOn, Last
    <3>2. Rollups' = Rollups /\ StoreRows' = StoreRows
      BY <2>1, StoreSame
    <3> QED BY <2>1, <3>1, <3>2 DEF IInv, PaintInv
  <2> QED BY <2>2, <2>3, <2>4, <2>5, <2>6
<1>9. CASE CursorDown
  <2> DEFINE below == {row \in ObjectRows(Visible) : row > cursor}
  <2>1. below # {} /\ MoveTo(First(below))
    BY <1>9 DEF CursorDown
  <2>2. First(below) \in ObjectRows(Visible)
    <3>1. below \in SUBSET ObjectRows(Visible)
      OBVIOUS
    <3>2. First(below) \in below
      <4> HIDE DEF below
      <4> QED BY <2>1, <3>1, <1>0, RowsAreNumbers
    <3> QED BY <3>1, <3>2
  <2> HIDE DEF below
  <2> QED BY <2>1, <2>2, <1>8
<1>10. CASE CursorUp
  <2> DEFINE above == {row \in ObjectRows(Visible) : row < cursor}
  <2>1. above # {} /\ MoveTo(Last(above))
    BY <1>10 DEF CursorUp
  <2>2. Last(above) \in ObjectRows(Visible)
    <3>1. above \in SUBSET ObjectRows(Visible)
      OBVIOUS
    <3>2. Last(above) \in above
      <4> HIDE DEF above
      <4> QED BY <2>1, <3>1, <1>0, RowsAreNumbers
    <3> QED BY <3>1, <3>2
  <2> HIDE DEF above
  <2> QED BY <2>1, <2>2, <1>8
<1>11. CASE Midnight
  <2>1. /\ today' = today + 1
        /\ UNCHANGED <<phase, announced, history, hide_ok, search, columns, cells, cursor,
                       timers, liveRows, behind>>
    BY <1>11 DEF Midnight, runVars, storeVars, viewVars, gridVars
  <2>2. GridTypes'
    <3>1. columns \subseteq 1..today + 1
      BY <1>0 DEF GridTypes
    <3> QED BY <2>1, <3>1, <1>0 DEF GridTypes, Visible
  <2>3. TimerInv'
    BY <2>1 DEF IInv, TimerInv, RestoresAreCurrent, Visible
  <2>4. CursorOnObject'
    BY <2>1 DEF IInv, CursorOnObject, Visible, ObjectRows, RowOf
  <2>5. today' \notin columns' /\ announced' # today'
    BY <2>1, <1>0 DEF GridTypes
  <2>6. LiveResultsLand'
    BY <2>5 DEF LiveResultsLand, TodayHasColumn, LiveCellsAgree
  <2>7. PaintInv'
    <3>1. Visible' = Visible /\ PaintedOn' = PaintedOn
      BY <2>1 DEF Visible, PaintedOn, Last
    <3>2. Rollups' = Rollups /\ StoreRows' = StoreRows
      BY <2>1, StoreSame
    <3> QED BY <2>1, <3>1, <3>2 DEF IInv, PaintInv
  <2> QED BY <2>2, <2>3, <2>4, <2>6, <2>7
<1>12. CASE PressRun
  BY <1>1, <1>3, <1>12 DEF PressRun, storeVars
<1>13. CASE ThreadStart
  BY <1>1, <1>3, <1>13 DEF ThreadStart, storeVars
<1>14. CASE HandleRunning
  <2>1. UNCHANGED <<today, phase, history, viewVars>>
    BY <1>14 DEF HandleRunning, storeVars
  <2>2. CASE today \in columns
    <3>1. UNCHANGED gridVars /\ behind' = behind
      BY <1>14, <2>2 DEF HandleRunning
    <3> QED BY <2>1, <2>2, <3>1, <1>1, <1>3
  <2>3. CASE today \notin columns
    <3>1. Refresh(hide_ok, search)
      BY <1>14, <2>3 DEF HandleRunning
    <3>2. hide_ok' = hide_ok /\ search' = search
      BY <2>1 DEF viewVars
    <3> QED BY <2>1, <3>1, <3>2, <1>0, Refreshed
  <2> QED BY <2>2, <2>3
<1>15. CASE HandleProgress
  <2>1. UNCHANGED <<today, announced, phase, history, viewVars, behind>>
    BY <1>15 DEF HandleProgress, storeVars
  <2> DEFINE Put(k, s) ==
        IF ObjectOf[k] \in Visible
        THEN /\ Flash(ObjectOf[k], {Overall, today}, s)
             /\ liveRows' = liveRows \cup {ObjectOf[k]}
             /\ UNCHANGED <<columns, cursor>>
        ELSE UNCHANGED gridVars
  <2>2. PICK k \in Checks \ DOMAIN live : \E s \in OutcomesOf(k) : Put(k, s)
    BY <1>15 DEF HandleProgress
  <2>3. PICK s \in OutcomesOf(k) : Put(k, s)
    BY <2>2
  <2>4. CASE ObjectOf[k] \in Visible
    <3>1. \A j \in DOMAIN live' : live'[j] \in Status
      BY <1>0, RunTypesKept DEF RunTypes
    <3>2. /\ Flash(ObjectOf[k], {Overall, today}, s)
          /\ liveRows' = liveRows \cup {ObjectOf[k]}
          /\ UNCHANGED <<columns, cursor>>
      BY <2>3, <2>4
    <3>3. UNCHANGED <<hide_ok, search>>
      BY <2>1 DEF viewVars
    <3> QED BY <2>1, <2>4, <3>1, <3>2, <3>3, Flashed
  <2>5. CASE ObjectOf[k] \notin Visible
    <3>1. UNCHANGED gridVars
      BY <2>3, <2>5
    <3> QED BY <2>1, <3>1, <1>1, <1>3
  <2> QED BY <2>4, <2>5
<1>16. CASE Restore
  BY <1>16, Restored
<1>17. CASE RunStored
  BY <1>1, <1>3, <1>17 DEF RunStored
<1>18. CASE HandleSuccess
  <2>1. Refresh(hide_ok, search)
    BY <1>18 DEF HandleSuccess
  <2>2. hide_ok' = hide_ok /\ search' = search /\ history' = history /\ today' = today
    BY <1>18 DEF HandleSuccess, EndRun, storeVars, viewVars
  <2> QED BY <2>1, <2>2, <1>0, Refreshed
<1>19. CASE HandleError
  <2>1. /\ UNCHANGED <<today, gridVars, viewVars>> /\ history' = history
        /\ announced' = 0 /\ behind' = IF behind = "run" THEN "failed" ELSE behind
    BY <1>19 DEF HandleError, EndRun, storeVars
  <2>2. today # 0
    BY <1>0, HomeGridAssumption DEF RunTypes, Days
  <2> QED BY <2>1, <2>2, <1>1, <1>3
<1> QED
  BY <1>4, <1>5, <1>6, <1>7, <1>9, <1>10, <1>11, <1>12, <1>13, <1>14, <1>15, <1>16,
     <1>17, <1>18, <1>19 DEF Next

\* The first paint.
LEMMA GridAtFirst == Init => IInv
<1> SUFFICES ASSUME Init PROVE IInv
  OBVIOUS
<1>0. 1 \in Days /\ Objects \in SUBSET Objects
  BY HomeGridAssumption DEF Days
<1>1. RunTypes
  <2>1. history \in [Checks -> Seq(Observation)]
    BY DEF Init
  <2>2. DOMAIN live = {} /\ DOMAIN outcome = {}
    BY DEF Init, NoOutcome
  <2> QED BY <2>1, <2>2, <1>0 DEF Init, RunTypes
<1> DEFINE C == KeptDates(today)
<1>2. /\ columns = C /\ timers = {} /\ liveRows = {} /\ behind = "no" /\ search = Objects
      /\ cells = [o \in Objects |-> [d \in C \cup {Overall} |-> StoreCell(o, d)]]
      /\ cursor = LeadingRow(Objects)
  BY DEF Init
<1>3. /\ C = ColumnsPainted(Rollups, today)
      /\ C \subseteq Days /\ C \subseteq 1..today /\ today \in C /\ Last(C) = today
      /\ RowsPainted(Rollups, hide_ok, Objects) = Applied(hide_ok, Objects)
  BY <1>0, <1>1, PaintFacts
<1>4. \A o \in Objects : \A d \in C \cup {Overall} :
         StoreCell(o, d) = StoreRows[o][d] /\ StoreRows[o][d] \in Unlit
  <2> HIDE DEF C
  <2>1. StoreRows \in [Objects -> [Days \cup {Overall} -> Unlit]]
    BY <1>1, StoreTypes DEF RunTypes
  <2> QED BY <2>1, <1>3 DEF StoreRows
<1>5. PaintedOn = today
  BY <1>2, <1>3 DEF PaintedOn
<1> HIDE DEF C
<1>6. Visible = Objects
      /\ \A o \in Objects : cells[o] = [d \in C \cup {Overall} |-> StoreCell(o, d)]
  BY <1>2 DEF Visible
<1>7. \A o \in Objects : \A d \in C \cup {Overall} :
         cells[o][d] = StoreRows[o][d] /\ cells[o][d] \in Unlit
  <2>1. \A o \in Objects : \A d \in C \cup {Overall} : cells[o][d] = StoreCell(o, d)
    BY <1>6
  <2> QED BY <2>1, <1>4
<1>8. GridTypes
  <2>1. \A o \in Objects : cells[o] \in [C \cup {Overall} -> Cell]
    <3>1. Unlit \subseteq Cell
      BY DEF Unlit, Cell
    <3> QED BY <3>1, <1>6, <1>7
  <2>2. cells = [o \in Objects |-> cells[o]]
    BY <1>2
  <2> QED BY <2>1, <2>2, <1>2, <1>3, <1>6 DEF GridTypes
<1>9. TimerInv
  <2>1. \A o \in Objects : \A d \in DOMAIN cells[o] : cells[o][d].lit = FALSE
    BY <1>6, <1>7 DEF Unlit
  <2> QED BY <2>1, <1>2, <1>6 DEF TimerInv, RestoresAreCurrent
<1>10. CursorOnObject
  BY <1>2, <1>6, RowsAreNumbers DEF CursorOnObject
<1>11. LiveResultsLand
  BY <1>2, <1>3 DEF LiveResultsLand, TodayHasColumn, LiveCellsAgree
<1>12. PaintInv
  <2>1. Applied(hide_ok, Objects) = Objects
    BY DEF Init, Applied
  <2> QED BY <2>1, <1>2, <1>3, <1>5, <1>6, <1>7 DEF PaintInv
<1> QED BY <1>1, <1>8, <1>9, <1>10, <1>11, <1>12 DEF IInv

\* The grid is kept right: well formed, its highlights due to fade to what
\* their cells say, the cursor on an object, live results in their columns
\* and all else as the store has it.
THEOREM GridCorrect == Spec => []IInv
<1>1. IInv /\ [Next]_vars => IInv'
  BY GridKept, RunTypesKept DEF IInv
<1> QED BY <1>1, GridAtFirst, PTL DEF Spec

\* Highlights fade to what the cell says, and the cursor never lands on a
\* header row (flash_cell, _move_cursor_skipping_headers).
THEOREM HighlightsFade == Spec => []GridInv
<1>1. IInv => GridInv
  BY DEF IInv, RunTypes, GridTypes, TimerInv, GridInv, TypeOK
<1> QED BY <1>1, GridCorrect, PTL

\* Live results find today's column, where a row reads as its `overall` does
\* (_apply_live_result_to_home, _repaint_stale_day_columns).
THEOREM LiveResultsAreShown == Spec => []LiveResultsLand
<1>1. IInv => LiveResultsLand
  BY DEF IInv
<1> QED BY <1>1, GridCorrect, PTL

\* The grid is the store, as last painted, but for the rows live results
\* wrote to; it falls behind only from the commit of a run's observations
\* to the next repaint, and with no run in flight only after one that failed
\* (refresh_dashboard, on_run_state_changed).
THEOREM GridShowsTheStore == Spec => []GridIsTheStore
<1>1. IInv => GridIsTheStore
  <2> SUFFICES ASSUME IInv, behind = "no" PROVE GridIsTheStore
    BY DEF GridIsTheStore, IInv, PaintInv
  <2>1. RunTypes /\ GridTypes /\ search \in SUBSET Objects
    BY DEF IInv, GridTypes
  <2>2. /\ Visible = RowsPainted(Rollups, hide_ok, search)
        /\ columns = ColumnsPainted(Rollups, PaintedOn)
        /\ \A o \in Visible \ liveRows : \A d \in DOMAIN cells[o] :
             cells[o][d] = StoreRows[o][d]
    BY DEF IInv, PaintInv
  <2>3. Visible = Applied(hide_ok, search) /\ columns = KeptDates(PaintedOn)
    BY <2>1, <2>2, PaintFacts
  <2>4. \A o \in Visible \ liveRows : \A d \in DOMAIN cells[o] :
           StoreRows[o][d] = StoreCell(o, d)
    BY <2>1 DEF GridTypes, StoreRows
  <2> QED BY <2>2, <2>3, <2>4 DEF GridIsTheStore
<1> QED BY <1>1, GridCorrect, PTL
=============================================================================
