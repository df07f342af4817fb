---------------------------- MODULE TuiRunProofs ----------------------------
(***************************************************************************)
(* TLAPS proofs about TuiRun, for any checks, objects, verdicts and number *)
(* of runs.                                                                *)
(***************************************************************************)
EXTENDS TuiRun, TLAPS, WellFoundedInduction, NaturalsInduction

-----------------------------------------------------------------------------
(* The inductive invariants.                                               *)

Plain == [kind : {"running", "cancelled", "success", "error"}, run : Runs]
News == [kind : {"progress"}, run : Runs, check : Checks, status : Status]
Msg == Plain \cup News

\* Types, with those of the variables TypeOK says nothing of.
TypeInv ==
  /\ TypeOK
  /\ queue \in Seq(Msg)
  /\ scope \in [Runs -> SUBSET Checks]
  /\ result \in [Runs -> UNION {[S -> Status] : S \in SUBSET Checks}]
  /\ clock \in Nat
  /\ at \in [Runs -> 0..clock]
  /\ others \in 0..MaxOthers
  /\ live \subseteq [check : Checks, status : Status]
  /\ stored \subseteq [check : Checks, at : 1..clock, status : Status]

\* How far a run's thread can be for its task, and what it has done by then.
\* Stamps are handed out once: rows carry those of runs that have written.
WorkInv ==
  /\ \A q, r \in Runs : q < r /\ task[r] # "none" => task[q] \in {"cancelled", "ended"}
  /\ \A r \in Runs :
       /\ task[r] \in {"none", "pending"} => thread[r] = "none"
       /\ task[r] = "ended" => thread[r] \in {"returned", "raised"}
       /\ thread[r] \in {"none", "queued"} => DOMAIN result[r] = {}
       /\ thread[r] \in {"recorded", "returned"} =>
            DOMAIN result[r] = scope[r] /\ RowsOf(r) \subseteq stored
       /\ thread[r] = "evaluating" => at[r] # 0
       /\ thread[r] \in {"none", "queued", "dropped", "evaluating"} =>
            \A o \in stored : o.at # at[r]
  /\ \A q, r \in Runs : at[q] = at[r] /\ at[r] # 0 => q = r
  /\ \A o, p \in stored : o.check = p.check /\ o.at = p.at => o = p

Final == {"cancelled", "success", "error"}

\* A message or a toast about the end of a run says how its task t and its
\* thread h ended.
Says(kind, t, h) ==
  /\ kind = "cancelled" => t = "cancelled"
  /\ kind = "success" => t = "ended" /\ h = "returned"
  /\ kind = "error" => t = "ended" /\ h = "raised"

ToastKind == [cancelled |-> "cancelled", complete |-> "success", failed |-> "error"]

\* Ends of runs are reported in the order of the runs, each once.
ReportInv ==
  /\ \A i \in DOMAIN queue : Says(queue[i].kind, task[queue[i].run], thread[queue[i].run])
  /\ \A i, j \in DOMAIN queue :
       i < j /\ queue[i].kind \in Final /\ queue[j].kind \in Final =>
         queue[i].run < queue[j].run
  /\ \A i \in DOMAIN queue, r \in Runs :
       queue[i].kind \in Final /\ notice[r] # "none" => r < queue[i].run
  /\ \A r \in Runs : notice[r] # "none" => Says(ToastKind[notice[r]], task[r], thread[r])
  /\ last_run # 0 => notice[last_run] = "complete"

UnderWay == \E r \in Runs : task[r] = "running"

Control == Final \cup {"running"}

\* Of the messages q, the last of those kinds leaves the indicator `shown` as
\* it should be: set exactly if a run is under way.
Follows(shown, q, kinds, setting, underway) ==
  /\ (\A i \in DOMAIN q : q[i].kind \notin kinds) => (shown <=> underway)
  /\ \A i \in DOMAIN q :
       /\ q[i].kind \in kinds
       /\ \A j \in DOMAIN q : i < j => q[j].kind \notin kinds
       => (q[i].kind \in setting <=> underway)

BarInv == Follows(bar, queue, Control, {"running"}, UnderWay)

NoneSuperseded == \A r \in Runs : task[r] # "cancelled"

\* A progress message, too, sets the sub-title.
Titles == {"running", "progress", "success", "error"}

SubTitleInv ==
  NoneSuperseded =>
    Follows(sub_title, queue, Titles, {"running", "progress"}, UnderWay)

\* Between runs that nothing disturbed, the grid is as the last one left it.
HomeInv ==
  Undisturbed =>
    \/ UnderWay
    \/ queue # <<>> /\ queue[Len(queue)].kind = "success"
    \/ queue = <<>> /\ home = HomeFromStore

\* The checks of which a result is among the messages.
Due == {queue[i].check : i \in {j \in DOMAIN queue : queue[j].kind = "progress"}}

\* What the store says of each check, and what a screen opened now would show.
Stored == [k \in Checks |-> StoreStatus(k)]
Opened == [k \in Checks |-> IF LiveStatus(live, k) # NoStatus THEN LiveStatus(live, k)
                            ELSE StoreStatus(k)]

\* s is the status of check k: its result in the run under way, if tasks t and
\* results f have one, or else what the store g says.
Truly(t, f, g, k, s) ==
  /\ \A r \in Runs : t[r] = "running" /\ k \in DOMAIN f[r] => s = f[r][k]
  /\ (\A r \in Runs : ~(t[r] = "running" /\ k \in DOMAIN f[r])) => s = g[k]

\* What a screen opened now would show of a check is true unless a message
\* about the check is still to be handled, and so is what a screen that has
\* missed nothing shows.
ScreensTrue ==
  \A k \in Checks \ Due :
    /\ Truly(task, result, Stored, k, Opened[k])
    /\ screen = ObjectOf[k] /\ ~missed => Truly(task, result, Stored, k, detail[k])

\* The last message about a check is true.
LastNewsTrue ==
  \A i \in DOMAIN queue :
    /\ queue[i].kind = "progress"
    /\ \A j \in DOMAIN queue : i < j /\ queue[j].kind = "progress" =>
         queue[j].check # queue[i].check
    => Truly(task, result, Stored, queue[i].check, queue[i].status)

\* A run's results come after its start.
NewsFollow ==
  \A i \in DOMAIN queue, r \in Runs : \A k \in DOMAIN result[r] :
    queue[i].kind = "running" /\ task[r] = "running" =>
      \E j \in DOMAIN queue : i < j /\ queue[j].kind = "progress" /\ queue[j].check = k

\* The run under way is the newest, and so are its rows once it has written.
NewestRun ==
  \A r \in Runs :
    /\ thread[r] = "evaluating" => \A o \in stored : o.at < at[r]
    /\ task[r] = "running" /\ thread[r] \in {"recorded", "returned"} =>
         \A k \in DOMAIN result[r] : Stored[k] = result[r][k]

DetailInv == Undisturbed => ScreensTrue /\ LastNewsTrue /\ NewsFollow /\ NewestRun

IInv == TypeInv /\ WorkInv /\ ReportInv /\ BarInv /\ SubTitleInv

-----------------------------------------------------------------------------
(* Sequences of messages.                                                  *)

\* Posting adds a message at the end of the queue.
LEMMA PostFacts ==
  ASSUME NEW S, NEW q \in Seq(S), NEW m \in S
  PROVE  /\ Append(q, m) \in Seq(S)
         /\ Len(q) \in Nat /\ DOMAIN q = 1..Len(q)
         /\ DOMAIN Append(q, m) = 1..Len(q) + 1
         /\ Len(Append(q, m)) = Len(q) + 1
         /\ \A i \in DOMAIN q : Append(q, m)[i] = q[i] /\ q[i] \in S
         /\ Append(q, m)[Len(q) + 1] = m
  OBVIOUS

\* Handling a message takes it from the front of the queue.
LEMMA TakeFacts ==
  ASSUME NEW S, NEW q \in Seq(S), q # <<>>
  PROVE  /\ Tail(q) \in Seq(S)
         /\ Len(q) \in Nat \ {0} /\ DOMAIN q = 1..Len(q)
         /\ DOMAIN Tail(q) = 1..Len(q) - 1
         /\ Len(Tail(q)) = Len(q) - 1
         /\ \A i \in DOMAIN Tail(q) : i + 1 \in DOMAIN q /\ Tail(q)[i] = q[i + 1]
         /\ Head(q) = q[1] /\ 1 \in DOMAIN q /\ q[1] \in S
  OBVIOUS

-----------------------------------------------------------------------------
(* Roll-ups and rows.                                                      *)

\* The worst of some statuses is a status.
LEMMA WorstIsStatus ==
  ASSUME NEW S, S \subseteq Status
  PROVE  WorstOrUnknown(S) \in Shown
<1> DEFINE T == {Severity[s] : s \in S} \cup {0}
<1>0. \A s \in Status : Severity[s] \in 0..3
  BY DEF Severity, Status
<1>1. T \subseteq 0..3 /\ 0 \in T
  BY <1>0
<1>2. \E r \in 0..3 : r \in T /\ \A t \in T : t <= r
  <2> HIDE DEF T
  <2>1. CASE 3 \in T
    BY <1>1, <2>1
  <2>2. CASE 3 \notin T /\ 2 \in T
    BY <1>1, <2>2
  <2>3. CASE 3 \notin T /\ 2 \notin T /\ 1 \in T
    BY <1>1, <2>3
  <2>4. CASE 3 \notin T /\ 2 \notin T /\ 1 \notin T
    BY <1>1, <2>4
  <2> QED BY <2>1, <2>2, <2>3, <2>4
<1>3. \E r \in 0..3 : r \in T /\ \A s \in S : Severity[s] <= r
  BY <1>2
<1>4. WorstRank(S) \in 0..3
  BY <1>3 DEF WorstRank
<1>5. WorstStatus(S) \in Status
  BY <1>4 DEF WorstStatus, RankStatus, Status
<1> QED BY <1>5 DEF WorstOrUnknown, Shown, Status

\* Of some stamps up to a bound there is a last one.
LEMMA LastStamp ==
  ASSUME NEW b \in Nat, NEW T, T \subseteq 0..b, T # {}
  PROVE  \E m \in T : \A n \in T : n <= m
<1> DEFINE U == {b - t : t \in T}
<1>1. U \subseteq Nat /\ U # {}
  <2>1. \A t \in T : t \in 0..b
    OBVIOUS
  <2>2. \A t \in 0..b : b - t \in Nat
    OBVIOUS
  <2>3. \A t \in T : b - t \in Nat
    BY <2>1, <2>2
  <2>4. \E t : t \in T
    OBVIOUS
  <2> QED BY <2>3, <2>4
<1>2. PICK m \in U : \A n \in U : <<n, m>> \notin OpToRel(<, Nat)
  <2> HIDE DEF U
  <2> QED BY <1>1, NatLessThanWellFounded, WFMin
<1>3. \A n \in U : ~(n < m)
  BY <1>1, <1>2 DEF OpToRel
<1>4. PICK t \in T : m = b - t
  BY <1>2
<1>5. \A u \in T : u <= t
  <2> SUFFICES ASSUME NEW u \in T PROVE u <= t
    OBVIOUS
  <2>1. ~(b - u < b - t)
    BY <1>3, <1>4
  <2>2. t \in 0..b /\ u \in 0..b
    OBVIOUS
  <2> QED BY <2>1, <2>2
<1> QED BY <1>4, <1>5

\* o is the newest row of check k.
IsNewest(o, k) ==
  /\ o \in stored /\ o.check = k
  /\ \A p \in stored : p.check = k => p.at <= o.at

\* The newest row of a check, if it has any, is the one the store reports.
LEMMA NewestRow ==
  ASSUME TypeInv, NEW k
  PROVE  /\ (\E o \in stored : o.check = k) =>
              \E o \in stored : IsNewest(o, k) /\ StoreStatus(k) = o.status
         /\ (\A o \in stored : o.check # k) => StoreStatus(k) = NoStatus
         /\ StoreStatus(k) \in Shown
<1>1. (\A o \in stored : o.check # k) => StoreStatus(k) = NoStatus
  BY DEF StoreStatus
<1>2. ASSUME \E o \in stored : o.check = k
      PROVE  \E o \in stored : IsNewest(o, k) /\ StoreStatus(k) = o.status
  <2> DEFINE S == {o \in stored : o.check = k}
  <2>1. clock \in Nat /\ \A o \in stored : o.at \in 0..clock
    BY DEF TypeInv
  <2>2. {o.at : o \in S} \subseteq 0..clock /\ {o.at : o \in S} # {}
    BY <1>2, <2>1
  <2>3. PICK m \in {o.at : o \in S} : \A n \in {o.at : o \in S} : n <= m
    BY <2>1, <2>2, LastStamp
  <2>4. PICK o \in S : m = o.at
    BY <2>3
  <2>5. IsNewest(o, k)
    BY <2>3, <2>4 DEF IsNewest
  <2> DEFINE n == CHOOSE p \in stored :
                    p.check = k /\ \A q \in stored : q.check = k => q.at <= p.at
  <2>6. n \in stored /\ IsNewest(n, k)
    BY <2>5 DEF IsNewest
  <2>7. StoreStatus(k) = n.status
    BY <1>2 DEF StoreStatus
  <2> QED BY <2>6, <2>7
<1>3. \A o \in stored : o.status \in Status
  BY DEF TypeInv
<1> QED BY <1>1, <1>2, <1>3 DEF Shown

\* What every screen shows is a status, or that there is none.
LEMMA RowTypes ==
  ASSUME TypeInv
  PROVE  /\ HomeFromStore \in [Objects -> Shown]
         /\ \A o \in Objects : DetailRows(o) \in [ChecksOf(o) -> Shown]
         /\ \A results, o : results \subseteq [check : Checks, status : Status] =>
              RollupLive(results, o) \in Shown
<1>1. ASSUME NEW results, NEW k, results \subseteq [check : Checks, status : Status]
      PROVE  LiveStatus(results, k) \in Shown
  <2>1. CASE \E e \in results : e.check = k
    <3>1. LiveStatus(results, k) = (CHOOSE e \in results : e.check = k).status
      BY <2>1 DEF LiveStatus
    <3>2. (CHOOSE e \in results : e.check = k) \in results
      BY <2>1
    <3>3. \A e \in results : e.status \in Status
      BY <1>1
    <3> QED BY <3>1, <3>2, <3>3 DEF Shown
  <2>2. CASE ~\E e \in results : e.check = k
    BY <2>2 DEF LiveStatus, Shown
  <2> QED BY <2>1, <2>2
<1>2. live \subseteq [check : Checks, status : Status]
  BY DEF TypeInv
<1>3. \A k : StoreStatus(k) \in Shown
  BY NewestRow
<1>4. \A o \in Objects : RollupStore(o) \in Shown
  <2> SUFFICES ASSUME NEW o \in Objects PROVE RollupStore(o) \in Shown
    OBVIOUS
  <2>1. {StoreStatus(k) : k \in ChecksOf(o)} \ {NoStatus} \subseteq Status
    BY <1>3 DEF Shown
  <2> QED BY <2>1, WorstIsStatus DEF RollupStore
<1>5. \A o \in Objects : DetailRows(o) \in [ChecksOf(o) -> Shown]
  BY <1>1, <1>2, <1>3 DEF DetailRows
<1>6. ASSUME NEW results, NEW o, results \subseteq [check : Checks, status : Status]
      PROVE  RollupLive(results, o) \in Shown
  <2>1. {LiveStatus(results, k) : k \in ChecksOf(o)} \ {NoStatus} \subseteq Status
    BY <1>1, <1>6 DEF Shown
  <2> QED BY <2>1, WorstIsStatus DEF RollupLive
<1> QED BY <1>4, <1>5, <1>6 DEF HomeFromStore

-----------------------------------------------------------------------------
(* Types and the work of the threads.                                      *)

\* A message is posted, or none.
Posts(S) == queue' = queue \/ \E m \in S : queue' = Append(queue, m)

\* Handling a message leaves the tasks, the threads and the store alone.
Handles(kind) ==
  /\ queue # <<>> /\ Head(queue).kind = kind /\ queue' = Tail(queue)
  /\ UNCHANGED <<task, thread, scope, result, at, clock, others, stored>>

\* The parts of the type invariant: of the work, of the queue, of the screens.
WorkTypes ==
  /\ task \in [Runs -> {"none", "pending", "running", "cancelled", "ended"}]
  /\ thread \in [Runs -> {"none", "queued", "dropped", "evaluating", "recorded",
                          "returned", "raised"}]
  /\ scope \in [Runs -> SUBSET Checks]
  /\ result \in [Runs -> UNION {[S -> Status] : S \in SUBSET Checks}]
  /\ \A r \in Runs : DOMAIN result[r] \subseteq scope[r]
  /\ clock \in Nat
  /\ at \in [Runs -> 0..clock]
  /\ others \in 0..MaxOthers
  /\ stored \subseteq [check : Checks, at : 1..clock, status : Status]

ScreenTypes ==
  /\ live \subseteq [check : Checks, status : Status]
  /\ \A e, f \in live : e.check = f.check => e = f
  /\ home \in [Objects -> Shown]
  /\ screen \in Objects \cup {Home}
  /\ detail \in [IF screen = Home THEN {} ELSE ChecksOf(screen) -> Shown]
  /\ covered \in BOOLEAN /\ missed \in BOOLEAN
  /\ screen = Home => ~covered
  /\ bar \in BOOLEAN /\ sub_title \in BOOLEAN
  /\ last_run \in {0} \cup Runs
  /\ notice \in [Runs -> {"none", "cancelled", "complete", "failed"}]

\* Together they are the type invariant.
LEMMA TypeParts == TypeInv <=> WorkTypes /\ queue \in Seq(Msg) /\ ScreenTypes
<1>1. ASSUME WorkTypes, queue \in Seq(Msg), ScreenTypes PROVE TypeInv
  <2>1. \A o \in stored : o.at \in 1..clock /\ o.status \in Status
    BY <1>1 DEF WorkTypes
  <2>2. \A r \in Runs : scope[r] \subseteq Checks
    BY <1>1 DEF WorkTypes
  <2> QED BY <1>1, <2>1, <2>2 DEF WorkTypes, ScreenTypes, TypeInv, TypeOK
<1>2. ASSUME TypeInv PROVE WorkTypes /\ queue \in Seq(Msg) /\ ScreenTypes
  BY <1>2 DEF WorkTypes, ScreenTypes, TypeInv, TypeOK
<1> QED BY <1>1, <1>2

\* What a cancelled, a started and an ended task, and a check that came back
\* add to the queue.
LEMMA Posted ==
  ASSUME TypeInv, WorkInv, NEW r \in Runs
  PROVE  /\ PressRun(r) => Posts(Msg)
         /\ StartTask(r) => Posts(Msg)
         /\ EvaluateCheck(r) => Posts(Msg)
         /\ EndTask(r) => Posts(Msg)
<1>1. \A q \in Runs, kind \in {"running", "cancelled", "success", "error"} :
        Message(kind, q) \in Msg
  BY DEF Message, Msg, Plain
<1>2. \A q \in Runs, k \in Checks, s \in Status : Progress(q, k, s) \in Msg
  BY DEF Progress, Msg, News
<1>3. PressRun(r) => Posts(Msg)
  <2> SUFFICES ASSUME PressRun(r) PROVE Posts(Msg)
    OBVIOUS
  <2> DEFINE old == {q \in Runs : task[q] = "running"}
  <2>1. queue' = IF old = {} THEN queue
                 ELSE Append(queue, Message("cancelled", CHOOSE q \in old : TRUE))
    BY DEF PressRun
  <2>2. old # {} => (CHOOSE q \in old : TRUE) \in Runs
    OBVIOUS
  <2> HIDE DEF old
  <2> QED BY <1>1, <2>1, <2>2 DEF Posts
<1>4. EvaluateCheck(r) => Posts(Msg)
  <2> SUFFICES ASSUME EvaluateCheck(r) PROVE Posts(Msg)
    OBVIOUS
  <2>1. PICK k \in scope[r] \ DOMAIN result[r] : \E s \in Verdicts :
          queue' = Append(queue, Progress(r, k, s))
    BY DEF EvaluateCheck
  <2>2. PICK s \in Verdicts : queue' = Append(queue, Progress(r, k, s))
    BY <2>1
  <2>3. k \in Checks /\ s \in Status
    BY TuiRunAssumption DEF TypeInv
  <2> QED BY <1>2, <2>2, <2>3 DEF Posts
<1> QED BY <1>1, <1>3, <1>4 DEF Posts, StartTask, EndTask

\* A result is added, and none of the others touched.
LEMMA ResultAdded ==
  ASSUME TypeInv, NEW r \in Runs, EvaluateCheck(r)
  PROVE  \E k \in scope[r] \ DOMAIN result[r], s \in Status :
           /\ queue' = Append(queue, Progress(r, k, s))
           /\ result' \in [Runs -> UNION {[S -> Status] : S \in SUBSET Checks}]
           /\ DOMAIN result'[r] = DOMAIN result[r] \cup {k}
           /\ result'[r][k] = s
           /\ \A j \in DOMAIN result[r] : result'[r][j] = result[r][j]
           /\ \A q \in Runs \ {r} : result'[q] = result[q]
<1> DEFINE R == UNION {[S -> Status] : S \in SUBSET Checks}
           F(k, s) == [j \in DOMAIN result[r] \cup {k} |-> IF j = k THEN s ELSE result[r][j]]
           Adds(k, s) == /\ result' = [result EXCEPT ![r] = F(k, s)]
                         /\ queue' = Append(queue, Progress(r, k, s))
<1>1. PICK k \in scope[r] \ DOMAIN result[r] : \E s \in Verdicts : Adds(k, s)
  BY DEF EvaluateCheck
<1>2. PICK s \in Verdicts : Adds(k, s)
  BY <1>1
<1>3. s \in Status /\ k \in Checks /\ result \in [Runs -> R]
  BY TuiRunAssumption DEF TypeInv
<1>4. PICK S \in SUBSET Checks : result[r] \in [S -> Status]
  <2>1. result[r] \in R
    BY <1>3
  <2> QED BY <2>1
<1>5. F(k, s) \in [S \cup {k} -> Status]
  BY <1>3, <1>4
<1>6. F(k, s) \in R
  <2>1. S \cup {k} \in SUBSET Checks
    BY <1>3
  <2> HIDE DEF F
  <2> QED BY <1>5, <2>1
<1>7. /\ result'[r] = F(k, s)
      /\ \A q \in Runs \ {r} : result'[q] = result[q]
      /\ result' \in [Runs -> R]
  <2> HIDE DEF F, R
  <2> QED BY <1>2, <1>3, <1>6
<1>8. /\ DOMAIN F(k, s) = DOMAIN result[r] \cup {k}
      /\ F(k, s)[k] = s
      /\ \A j \in DOMAIN result[r] : F(k, s)[j] = result[r][j]
  OBVIOUS
<1> QED
  <2> HIDE DEF F
  <2> QED BY <1>2, <1>3, <1>7, <1>8

\* The rows of a run are observations of its checks, one of each, at its stamp.
LEMMA RowsTypes ==
  ASSUME TypeInv, WorkInv, NEW r \in Runs, at[r] # 0
  PROVE  /\ RowsOf(r) \subseteq [check : Checks, at : 1..clock, status : Status]
         /\ \A o \in RowsOf(r) : /\ o.at = at[r] /\ o.check \in DOMAIN result[r]
                                 /\ o.status = result[r][o.check]
         /\ \A k \in DOMAIN result[r] :
              [check |-> k, at |-> at[r], status |-> result[r][k]] \in RowsOf(r)
<1>1. at[r] \in 0..clock /\ clock \in Nat
  BY DEF TypeInv
<1>2. at[r] \in 1..clock
  BY <1>1
<1>3. PICK S \in SUBSET Checks : result[r] \in [S -> Status]
  <2>1. result[r] \in UNION {[S -> Status] : S \in SUBSET Checks}
    BY DEF TypeInv
  <2> QED BY <2>1
<1>4. \A k \in DOMAIN result[r] : k \in Checks /\ result[r][k] \in Status
  BY <1>3
<1> QED BY <1>2, <1>4 DEF RowsOf

\* The work keeps its types.
LEMMA WorkTypesKept ==
  ASSUME TypeInv, WorkInv, [Next]_vars
  PROVE  WorkTypes'
<1>0. WorkTypes
  BY TypeParts
<1>1. ASSUME NEW r \in Runs, PressRun(r) PROVE WorkTypes'
  <2>1. DOMAIN result[r] = {}
    BY <1>1 DEF PressRun, WorkInv
  <2>2. /\ \E selected \in SUBSET Checks : scope' = [scope EXCEPT ![r] = selected]
        /\ UNCHANGED <<result, at, clock, others, stored>>
    BY <1>1 DEF PressRun, Selectable, ChecksOf
  <2>3. /\ task' \in [Runs -> {"none", "pending", "running", "cancelled", "ended"}]
        /\ thread' \in [Runs -> {"none", "queued", "dropped", "evaluating", "recorded",
                                 "returned", "raised"}]
    BY <1>0, <1>1 DEF PressRun, WorkTypes
  <2>4. scope' \in [Runs -> SUBSET Checks] /\ \A q \in Runs \ {r} : scope'[q] = scope[q]
    BY <1>0, <2>2 DEF WorkTypes
  <2> QED BY <1>0, <2>1, <2>2, <2>3, <2>4 DEF WorkTypes
<1>2. ASSUME OtherRun PROVE WorkTypes'
  <2>1. /\ others < MaxOthers /\ others' = others + 1 /\ clock' = clock + 1
        /\ UNCHANGED <<task, thread, scope, result, at>>
    BY <1>2 DEF OtherRun
  <2>2. PICK verdicts \in [Checks -> Verdicts] :
          stored' = stored \cup {[check |-> k, at |-> clock', status |-> verdicts[k]] :
                                 k \in Checks}
    BY <1>2 DEF OtherRun
  <2>3. clock \in Nat /\ others \in 0..MaxOthers /\ MaxOthers \in Nat
    BY <1>0, TuiRunAssumption DEF WorkTypes
  <2>4. clock' \in 1..clock' /\ 1..clock \subseteq 1..clock' /\ 0..clock \subseteq 0..clock'
        /\ others' \in 0..MaxOthers
    BY <2>1, <2>3
  <2>5. stored' \subseteq [check : Checks, at : 1..clock', status : Status]
    BY <1>0, <2>2, <2>4, TuiRunAssumption DEF WorkTypes
  <2>6. at' \in [Runs -> 0..clock']
    BY <1>0, <2>1, <2>4 DEF WorkTypes
  <2> QED BY <1>0, <2>1, <2>3, <2>4, <2>5, <2>6 DEF WorkTypes
<1>3. ASSUME NEW r \in Runs, StartTask(r) PROVE WorkTypes'
  BY <1>0, <1>3 DEF StartTask, WorkTypes
<1>4. ASSUME NEW r \in Runs, ThreadStart(r) PROVE WorkTypes'
  <2>1. /\ clock' = clock + 1 /\ at' = [at EXCEPT ![r] = clock + 1]
        /\ thread' = [thread EXCEPT ![r] = "evaluating"]
        /\ UNCHANGED <<task, scope, result, others, stored>>
    BY <1>4 DEF ThreadStart
  <2>2. clock \in Nat /\ clock' \in Nat
        /\ 1..clock \subseteq 1..clock' /\ 0..clock \subseteq 0..clock' /\ clock + 1 \in 0..clock'
    BY <1>0, <2>1 DEF WorkTypes
  <2>3. at' \in [Runs -> 0..clock']
    BY <1>0, <2>1, <2>2 DEF WorkTypes
  <2>4. stored' \subseteq [check : Checks, at : 1..clock', status : Status]
    BY <1>0, <2>1, <2>2 DEF WorkTypes
  <2> QED BY <1>0, <2>1, <2>2, <2>3, <2>4 DEF WorkTypes
<1>5. ASSUME NEW r \in Runs, EvaluateCheck(r) PROVE WorkTypes'
  <2>1. UNCHANGED <<task, thread, scope, at, clock, others, stored>>
    BY <1>5 DEF EvaluateCheck
  <2>2. /\ result' \in [Runs -> UNION {[S -> Status] : S \in SUBSET Checks}]
        /\ DOMAIN result'[r] \subseteq scope[r]
        /\ \A q \in Runs \ {r} : result'[q] = result[q]
    BY <1>0, <1>5, ResultAdded DEF WorkTypes
  <2> QED BY <1>0, <2>1, <2>2 DEF WorkTypes
<1>6. ASSUME NEW r \in Runs, FinishRun(r) \/ ThreadRaises(r) \/ EndTask(r) PROVE WorkTypes'
  BY <1>0, <1>6 DEF FinishRun, ThreadRaises, EndTask, WorkTypes
<1>7. ASSUME NEW r \in Runs, RecordObservations(r) PROVE WorkTypes'
  <2>1. /\ thread[r] = "evaluating" /\ thread' = [thread EXCEPT ![r] = "recorded"]
        /\ stored' = stored \cup RowsOf(r)
        /\ UNCHANGED <<task, scope, result, at, clock, others>>
    BY <1>7 DEF RecordObservations
  <2>2. at[r] # 0
    BY <2>1 DEF WorkInv
  <2>3. stored' \subseteq [check : Checks, at : 1..clock, status : Status]
    BY <1>0, <2>1, <2>2, RowsTypes DEF WorkTypes
  <2> QED BY <1>0, <2>1, <2>3 DEF WorkTypes
<1>8. ASSUME UNCHANGED workVars PROVE WorkTypes'
  BY <1>0, <1>8 DEF workVars, WorkTypes
<1>9. ASSUME OpenDetail \/ Cover \/ Uncover \/ CloseDetail \/ Repaint \/ Handle \/ UNCHANGED vars
      PROVE  UNCHANGED workVars
  BY <1>9 DEF OpenDetail, Cover, Uncover, CloseDetail, Repaint, Handle, HandleRunning, HandleProgress,
              HandleCancelled, HandleSuccess, HandleError, Receive, vars
<1> QED BY <1>1, <1>2, <1>3, <1>4, <1>5, <1>6, <1>7, <1>8, <1>9 DEF Next, User, Thread

\* So does the queue.
LEMMA QueueTypesKept ==
  ASSUME TypeInv, WorkInv, [Next]_vars
  PROVE  queue' \in Seq(Msg)
<1>0. queue \in Seq(Msg)
  BY DEF TypeInv
<1>1. ASSUME Posts(Msg) PROVE queue' \in Seq(Msg)
  BY <1>0, <1>1, PostFacts DEF Posts
<1>2. ASSUME queue # <<>>, queue' = Tail(queue) PROVE queue' \in Seq(Msg)
  BY <1>0, <1>2, TakeFacts
<1>3. ASSUME NEW r \in Runs, PressRun(r) \/ StartTask(r) \/ EvaluateCheck(r) \/ EndTask(r)
      PROVE  queue' \in Seq(Msg)
  BY <1>1, <1>3, Posted
<1>4. ASSUME NEW r \in Runs, ThreadStart(r) \/ RecordObservations(r) \/ FinishRun(r) \/ ThreadRaises(r)
      PROVE  queue' = queue
  BY <1>4 DEF ThreadStart, RecordObservations, FinishRun, ThreadRaises
<1>5. ASSUME OpenDetail \/ Cover \/ Uncover \/ CloseDetail \/ Repaint \/ OtherRun \/ UNCHANGED vars
      PROVE  queue' = queue
  BY <1>5 DEF OpenDetail, Cover, Uncover, CloseDetail, Repaint, OtherRun, vars
<1>6. ASSUME Handle PROVE queue # <<>> /\ queue' = Tail(queue)
  BY <1>6 DEF Handle, HandleRunning, HandleProgress, HandleCancelled, HandleSuccess,
              HandleError, Receive
<1> QED BY <1>0, <1>2, <1>3, <1>4, <1>5, <1>6 DEF Next, User, Thread

\* So do the screens.
LEMMA ScreenTypesKept ==
  ASSUME TypeInv, WorkInv, [Next]_vars
  PROVE  ScreenTypes'
<1>0. ScreenTypes /\ queue \in Seq(Msg)
  BY TypeParts
<1>1. /\ HomeFromStore \in [Objects -> Shown]
      /\ \A o \in Objects : DetailRows(o) \in [ChecksOf(o) -> Shown]
  BY RowTypes
<1>2. Home \notin Objects
  BY TuiRunAssumption
<1>3. ASSUME UNCHANGED uiVars PROVE ScreenTypes'
  BY <1>0, <1>3 DEF uiVars, detailVars, ScreenTypes
<1>4. ASSUME NEW r \in Runs,
             \/ PressRun(r) \/ StartTask(r) \/ EvaluateCheck(r) \/ EndTask(r)
             \/ ThreadStart(r) \/ RecordObservations(r) \/ FinishRun(r) \/ ThreadRaises(r)
      PROVE  UNCHANGED uiVars
  BY <1>4 DEF PressRun, StartTask, EvaluateCheck, EndTask, ThreadStart, RecordObservations,
              FinishRun, ThreadRaises
<1>5. ASSUME OtherRun \/ UNCHANGED vars PROVE UNCHANGED uiVars
  BY <1>5 DEF OtherRun, vars
<1>6. ASSUME OpenDetail PROVE ScreenTypes'
  <2>1. PICK o \in Objects : screen' = o /\ detail' = DetailRows(o)
    BY <1>6 DEF OpenDetail
  <2>2. missed' = FALSE /\ UNCHANGED <<live, home, covered, bar, sub_title, last_run, notice>>
    BY <1>6 DEF OpenDetail
  <2> QED BY <1>0, <1>1, <1>2, <2>1, <2>2 DEF ScreenTypes, ChecksOf
<1>7. ASSUME CloseDetail PROVE ScreenTypes'
  BY <1>0, <1>7 DEF CloseDetail, ScreenTypes, NoRows
<1>15. ASSUME Cover \/ Uncover PROVE ScreenTypes'
  BY <1>0, <1>15 DEF Cover, Uncover, ScreenTypes, ChecksOf
<1>8. ASSUME Repaint PROVE ScreenTypes'
  BY <1>0, <1>1, <1>8 DEF Repaint, detailVars, ScreenTypes, ChecksOf
<1>9. ASSUME HandleRunning PROVE ScreenTypes'
  BY <1>0, <1>1, <1>9 DEF HandleRunning, detailVars, ScreenTypes, ChecksOf
<1>10. ASSUME queue # <<>> PROVE Head(queue) \in Msg
  BY <1>0, <1>10, TakeFacts
<1>11. ASSUME HandleProgress PROVE ScreenTypes'
  <2> DEFINE m == Head(queue)
             o == ObjectOf[m.check]
  <2>1. /\ queue # <<>> /\ m.kind = "progress"
        /\ live' = {e \in live : e.check # m.check}
                     \cup {[check |-> m.check, status |-> m.status]}
        /\ home' = [home EXCEPT ![o] = RollupLive(live', o)]
        /\ detail' = IF screen = o /\ ~covered
                     THEN [detail EXCEPT ![m.check] = m.status] ELSE detail
        /\ missed' = (missed \/ (screen = o /\ covered)) /\ sub_title' = TRUE
        /\ UNCHANGED <<screen, covered, bar, last_run, notice>>
    BY <1>11 DEF HandleProgress, Receive
  <2>2. m \in Msg
    BY <1>10, <2>1
  <2>3. m \in News
    BY <2>1, <2>2 DEF Msg, Plain
  <2>4. m.check \in Checks /\ m.status \in Status /\ o \in Objects
    BY <2>3, TuiRunAssumption DEF News
  <2> HIDE DEF m
  <2>5. live' \subseteq [check : Checks, status : Status]
    BY <1>0, <2>1, <2>4 DEF ScreenTypes
  <2>6. \A e, f \in live' : e.check = f.check => e = f
    BY <1>0, <2>1 DEF ScreenTypes
  <2>7. RollupLive(live', o) \in Shown
    BY <2>5, RowTypes
  <2>8. home' \in [Objects -> Shown]
    BY <1>0, <2>1, <2>4, <2>7 DEF ScreenTypes
  <2>9. detail' \in [IF screen = Home THEN {} ELSE ChecksOf(screen) -> Shown]
    BY <1>0, <2>1, <2>4 DEF ScreenTypes, Shown
  <2> QED BY <1>0, <2>1, <2>5, <2>6, <2>8, <2>9 DEF ScreenTypes, ChecksOf
<1>12. ASSUME HandleCancelled \/ HandleSuccess \/ HandleError PROVE Head(queue).run \in Runs
  <2>1. Head(queue) \in Msg
    BY <1>10, <1>12 DEF HandleCancelled, HandleSuccess, HandleError, Receive
  <2> QED BY <2>1 DEF Msg, Plain, News
<1>13. ASSUME HandleCancelled \/ HandleError PROVE ScreenTypes'
  <2>1. /\ bar' = FALSE /\ sub_title' \in {sub_title, FALSE}
        /\ \E text \in {"cancelled", "failed"} :
             notice' = [notice EXCEPT ![Head(queue).run] = text]
        /\ UNCHANGED <<live, home, screen, covered, detail, missed, last_run>>
    BY <1>13 DEF HandleCancelled, HandleError, Notify, detailVars
  <2> QED BY <1>0, <1>12, <1>13, <2>1 DEF ScreenTypes, ChecksOf
<1>14. ASSUME HandleSuccess PROVE ScreenTypes'
  <2>1. /\ bar' = FALSE /\ sub_title' = FALSE /\ last_run' = Head(queue).run
        /\ home' = HomeFromStore
        /\ detail' = IF screen = Home \/ covered THEN detail ELSE DetailRows(screen)
        /\ missed' = (screen # Home /\ covered)
        /\ notice' = [notice EXCEPT ![Head(queue).run] = "complete"]
        /\ UNCHANGED <<live, screen, covered>>
    BY <1>14 DEF HandleSuccess, RefreshTopmostScreen, Notify
  <2> QED BY <1>0, <1>1, <1>12, <1>14, <2>1 DEF ScreenTypes, ChecksOf
<1> QED BY <1>3, <1>4, <1>5, <1>6, <1>7, <1>8, <1>9, <1>11, <1>13, <1>14, <1>15
        DEF Next, User, Thread, Handle

\* The types are kept.
LEMMA TypesKept ==
  ASSUME TypeInv, WorkInv, [Next]_vars
  PROVE  TypeInv'
<1>1. WorkTypes' /\ queue' \in Seq(Msg) /\ ScreenTypes'
  BY WorkTypesKept, QueueTypesKept, ScreenTypesKept
<1>2. \A o \in stored' : o.at \in 1..clock' /\ o.status \in Status
  BY <1>1 DEF WorkTypes
<1>3. \A r \in Runs : scope'[r] \subseteq Checks
  BY <1>1 DEF WorkTypes
<1>4. TypeOK'
  BY <1>1, <1>2, <1>3 DEF WorkTypes, ScreenTypes, TypeOK
<1> QED BY <1>1, <1>4 DEF WorkTypes, ScreenTypes, TypeInv

\* At first nothing has been started, stored or shown.
LEMMA TypesAtFirst == Init => TypeInv
<1> SUFFICES ASSUME Init PROVE TypeInv
  OBVIOUS
<1>1. WorkTypes
  <2>1. NoRows \in [{} -> Status]
    BY DEF NoRows
  <2>2. NoRows \in UNION {[S -> Status] : S \in SUBSET Checks}
    <3>1. {} \in SUBSET Checks
      OBVIOUS
    <3> QED BY <2>1, <3>1
  <2>3. DOMAIN NoRows = {}
    BY DEF NoRows
  <2>4. /\ result \in [Runs -> UNION {[S -> Status] : S \in SUBSET Checks}]
        /\ \A r \in Runs : DOMAIN result[r] \subseteq scope[r]
    <3> HIDE DEF NoRows
    <3>1. result = [r \in Runs |-> NoRows] /\ scope = [r \in Runs |-> {}]
      BY DEF Init
    <3> QED BY <2>2, <2>3, <3>1
  <2>5. 0 \in 0..MaxOthers
    BY TuiRunAssumption
  <2> QED BY <2>4, <2>5 DEF Init, WorkTypes
<1>2. queue \in Seq(Msg)
  BY DEF Init
<1>3. ScreenTypes
  BY DEF Init, ScreenTypes, NoRows, Shown
<1> QED BY <1>1, <1>2, <1>3, TypeParts

\* The work of the threads is kept consistent.
LEMMA WorkKept ==
  ASSUME TypeInv, WorkInv, [Next]_vars
  PROVE  WorkInv'
<1>0. WorkTypes /\ Runs \subseteq Nat
  BY TypeParts DEF Runs
<1> USE <1>0
<1>1. ASSUME NEW r \in Runs, PressRun(r) PROVE WorkInv'
  <2> DEFINE old == {q \in Runs : task[q] = "running"}
  <2>1. /\ task[r] = "none"
        /\ \A q \in Runs : q < r => task[q] \notin {"none", "pending"}
        /\ task' = [q \in Runs |-> IF q = r THEN "pending"
                                   ELSE IF q \in old THEN "cancelled" ELSE task[q]]
        /\ thread' = [q \in Runs |-> IF q \in old /\ thread[q] = "queued"
                                     THEN "dropped" ELSE thread[q]]
        /\ \A q \in Runs \ {r} : scope'[q] = scope[q]
        /\ UNCHANGED <<result, at, clock, others, stored>>
    BY <1>1 DEF PressRun, WorkTypes
  <2>2. \A q \in Runs : RowsOf(q)' = RowsOf(q)
    BY <2>1 DEF RowsOf
  <2>3. \A q, s \in Runs : q < s /\ task'[s] # "none" => task'[q] \in {"cancelled", "ended"}
    <3> SUFFICES ASSUME NEW q \in Runs, NEW s \in Runs, q < s, task'[s] # "none"
                 PROVE  task'[q] \in {"cancelled", "ended"}
      OBVIOUS
    <3>1. q # r
      BY <2>1 DEF WorkInv, WorkTypes
    <3>2. q < r \/ task[q] \in {"cancelled", "ended"}
      BY <2>1 DEF WorkInv
    <3>3. task[q] \in {"running", "cancelled", "ended"}
      BY <2>1, <3>2 DEF WorkTypes
    <3> QED BY <2>1, <3>1, <3>3
  <2>4. thread[r] = "none" /\ DOMAIN result[r] = {}
    BY <2>1 DEF WorkInv
  <2>5. ASSUME NEW q \in Runs
        PROVE  /\ task'[q] \in {"none", "pending"} => thread'[q] = "none"
               /\ task'[q] = "ended" => thread'[q] \in {"returned", "raised"}
               /\ thread'[q] \in {"none", "queued"} => DOMAIN result'[q] = {}
    BY <2>1, <2>4 DEF WorkInv, WorkTypes
  <2>6. ASSUME NEW q \in Runs, thread'[q] \in {"recorded", "returned"}
        PROVE  DOMAIN result'[q] = scope'[q] /\ RowsOf(q)' \subseteq stored'
    <3>1. thread[q] \in {"recorded", "returned"} /\ q # r
      BY <2>1, <2>4, <2>6
    <3>2. DOMAIN result[q] = scope[q] /\ RowsOf(q) \subseteq stored
      BY <3>1 DEF WorkInv
    <3> QED BY <2>1, <2>2, <3>1, <3>2
  <2>7. ASSUME NEW q \in Runs
        PROVE  /\ thread'[q] = "evaluating" => at'[q] # 0
               /\ thread'[q] \in {"none", "queued", "dropped", "evaluating"} =>
                    \A o \in stored' : o.at # at'[q]
    BY <2>1 DEF WorkInv
  <2>8. /\ \A q, s \in Runs : at'[q] = at'[s] /\ at'[q] # 0 => q = s
        /\ \A o, p \in stored' : o.check = p.check /\ o.at = p.at => o = p
    BY <2>1 DEF WorkInv
  <2> QED BY <2>3, <2>5, <2>6, <2>7, <2>8 DEF WorkInv
<1>2. ASSUME OtherRun PROVE WorkInv'
  <2>1. /\ clock' = clock + 1
        /\ UNCHANGED <<task, thread, scope, result, at>>
    BY <1>2 DEF OtherRun
  <2>2. PICK verdicts \in [Checks -> Verdicts] :
          stored' = stored \cup {[check |-> k, at |-> clock', status |-> verdicts[k]] :
                                 k \in Checks}
    BY <1>2 DEF OtherRun
  <2>3. \A q \in Runs : RowsOf(q)' = RowsOf(q)
    BY <2>1 DEF RowsOf
  <2>4. /\ clock \in Nat /\ \A q \in Runs : at[q] # clock'
        /\ \A o \in stored : o.at # clock'
    BY <2>1 DEF WorkTypes
  <2>5. \A o, p \in stored' : o.check = p.check /\ o.at = p.at => o = p
    BY <2>2, <2>4 DEF WorkInv
  <2>6. \A q \in Runs : thread[q] \in {"none", "queued", "dropped", "evaluating"} =>
          \A o \in stored' : o.at # at[q]
    BY <2>2, <2>4 DEF WorkInv
  <2> QED BY <2>1, <2>2, <2>3, <2>5, <2>6 DEF WorkInv
<1>3. ASSUME NEW r \in Runs, StartTask(r) PROVE WorkInv'
  <2>1. /\ task[r] = "pending" /\ task' = [task EXCEPT ![r] = "running"]
        /\ thread' = [thread EXCEPT ![r] = "queued"]
        /\ UNCHANGED <<scope, result, at, clock, others, stored>>
    BY <1>3 DEF StartTask
  <2>2. \A q \in Runs : RowsOf(q)' = RowsOf(q)
    BY <2>1 DEF RowsOf
  <2> QED BY <2>1, <2>2 DEF WorkInv, WorkTypes
<1>4. ASSUME NEW r \in Runs, ThreadStart(r) PROVE WorkInv'
  <2>1. /\ thread[r] = "queued" /\ thread' = [thread EXCEPT ![r] = "evaluating"]
        /\ clock' = clock + 1 /\ at' = [at EXCEPT ![r] = clock + 1]
        /\ UNCHANGED <<task, scope, result, others, stored>>
    BY <1>4 DEF ThreadStart
  <2>2. clock \in Nat /\ clock + 1 # 0
        /\ \A q \in Runs : at[q] # clock + 1
        /\ \A o \in stored : o.at # clock + 1
    <3>1. /\ clock \in Nat
          /\ \A q \in Runs : at[q] \in 0..clock
          /\ \A o \in stored : o.at \in 1..clock
      BY DEF WorkTypes
    <3> QED BY <3>1
  <2>3. \A q \in Runs \ {r} : RowsOf(q)' = RowsOf(q)
    BY <2>1 DEF RowsOf, WorkTypes
  <2> QED BY <2>1, <2>2, <2>3 DEF WorkInv, WorkTypes
<1>5. ASSUME NEW r \in Runs, EvaluateCheck(r) PROVE WorkInv'
  <2>1. thread[r] = "evaluating" /\ UNCHANGED <<task, thread, scope, at, clock, others, stored>>
    BY <1>5 DEF EvaluateCheck
  <2>2. \A q \in Runs \ {r} : result'[q] = result[q]
    BY <1>5, ResultAdded
  <2>3. \A q \in Runs \ {r} : RowsOf(q)' = RowsOf(q)
    BY <2>1, <2>2 DEF RowsOf
  <2>4. ASSUME NEW q \in Runs, thread[q] \in {"none", "queued", "recorded", "returned"}
        PROVE  result'[q] = result[q] /\ RowsOf(q)' = RowsOf(q)
    BY <2>1, <2>2, <2>3, <2>4
  <2> QED BY <2>1, <2>4 DEF WorkInv
<1>6. ASSUME NEW r \in Runs, FinishRun(r) \/ ThreadRaises(r) PROVE WorkInv'
  <2>1. /\ UNCHANGED <<task, scope, result, at, clock, others, stored>>
        /\ \/ thread[r] = "recorded" /\ thread' = [thread EXCEPT ![r] = "returned"]
           \/ /\ thread[r] \in {"evaluating", "recorded"}
              /\ thread' = [thread EXCEPT ![r] = "raised"]
    BY <1>6 DEF FinishRun, ThreadRaises
  <2>2. \A q \in Runs : RowsOf(q)' = RowsOf(q)
    BY <2>1 DEF RowsOf
  <2> QED BY <2>1, <2>2 DEF WorkInv, WorkTypes
<1>7. ASSUME NEW r \in Runs, RecordObservations(r) PROVE WorkInv'
  <2>1. /\ thread[r] = "evaluating" /\ thread' = [thread EXCEPT ![r] = "recorded"]
        /\ DOMAIN result[r] = scope[r]
        /\ stored' = stored \cup RowsOf(r)
        /\ UNCHANGED <<task, scope, result, at, clock, others>>
    BY <1>7 DEF RecordObservations
  <2>2. at[r] # 0
    BY <2>1 DEF WorkInv
  <2>3. \A o \in RowsOf(r) : o.at = at[r] /\ o.status = result[r][o.check]
    BY <2>2, RowsTypes
  <2>4. \A q \in Runs : RowsOf(q)' = RowsOf(q)
    BY <2>1 DEF RowsOf
  <2>9. \A q \in Runs \ {r} : thread'[q] = thread[q]
    BY <2>1 DEF WorkTypes
  <2>10. thread'[r] = "recorded"
    BY <2>1 DEF WorkTypes
  <2>5. ASSUME NEW q \in Runs, thread'[q] \in {"none", "queued", "dropped", "evaluating"}
        PROVE  \A o \in stored' : o.at # at[q]
    <3>1. q # r /\ thread[q] \in {"none", "queued", "dropped", "evaluating"}
      BY <2>5, <2>9, <2>10
    <3>2. at[q] # at[r] /\ \A o \in stored : o.at # at[q]
      BY <2>2, <3>1 DEF WorkInv
    <3> QED BY <2>1, <2>3, <3>2
  <2>6. \A o, p \in stored' : o.check = p.check /\ o.at = p.at => o = p
    <3>1. \A o \in stored : o.at # at[r]
      BY <2>1 DEF WorkInv
    <3>2. \A o, p \in RowsOf(r) : o.check = p.check => o = p
      BY DEF RowsOf
    <3> QED BY <2>1, <2>3, <3>1, <3>2 DEF WorkInv
  <2>7. \A q \in Runs : thread'[q] \in {"recorded", "returned"} =>
          DOMAIN result[q] = scope[q] /\ RowsOf(q)' \subseteq stored'
    BY <2>1, <2>4, <2>9 DEF WorkInv
  <2>8. \A q \in Runs :
          /\ task[q] \in {"none", "pending"} => thread'[q] = "none"
          /\ task[q] = "ended" => thread'[q] \in {"returned", "raised"}
          /\ thread'[q] \in {"none", "queued"} => DOMAIN result[q] = {}
          /\ thread'[q] = "evaluating" => at[q] # 0
    BY <2>1 DEF WorkInv, WorkTypes
  <2>11. /\ \A q, s \in Runs : q < s /\ task'[s] # "none" => task'[q] \in {"cancelled", "ended"}
         /\ \A q, s \in Runs : at'[q] = at'[s] /\ at'[s] # 0 => q = s
    BY <2>1 DEF WorkInv
  <2> QED BY <2>1, <2>5, <2>6, <2>7, <2>8, <2>11 DEF WorkInv
<1>8. ASSUME NEW r \in Runs, EndTask(r) PROVE WorkInv'
  <2>1. /\ task[r] = "running" /\ thread[r] \in {"returned", "raised"}
        /\ task' = [task EXCEPT ![r] = "ended"]
        /\ UNCHANGED <<thread, scope, result, at, clock, others, stored>>
    BY <1>8 DEF EndTask
  <2>2. \A q \in Runs : RowsOf(q)' = RowsOf(q)
    BY <2>1 DEF RowsOf
  <2> QED BY <2>1, <2>2 DEF WorkInv, WorkTypes
<1>9. ASSUME UNCHANGED workVars PROVE WorkInv'
  <2>1. \A q \in Runs : RowsOf(q)' = RowsOf(q)
    BY <1>9 DEF workVars, RowsOf
  <2> QED BY <1>9, <2>1 DEF workVars, WorkInv
<1>10. ASSUME OpenDetail \/ Cover \/ Uncover \/ CloseDetail \/ Repaint \/ Handle \/ UNCHANGED vars
       PROVE  UNCHANGED workVars
  BY <1>10 DEF OpenDetail, Cover, Uncover, CloseDetail, Repaint, Handle, HandleRunning, HandleProgress,
               HandleCancelled, HandleSuccess, HandleError, Receive, vars
<1> QED BY <1>1, <1>2, <1>3, <1>4, <1>5, <1>6, <1>7, <1>8, <1>9, <1>10
        DEF Next, User, Thread

\* Before the first key press there is nothing to keep consistent.
LEMMA WorkAtFirst == Init => WorkInv
  BY DEF Init, WorkInv, NoRows, Runs

-----------------------------------------------------------------------------
(* The reports of how runs ended.                                          *)

\* What the steps do to the queue.  A step that posts the end of a run ends
\* it, and two runs are never under way at once.
PostsRunning(r) == queue' = Append(queue, Message("running", r)) /\ task'[r] = "running"
PostsResult(r) ==
  /\ \E k \in scope[r] \ DOMAIN result[r], s \in Status :
       queue' = Append(queue, Progress(r, k, s))
  /\ thread[r] = "evaluating"
  /\ task' = task
PostsEnd(r) ==
  /\ \E kind \in Final : /\ queue' = Append(queue, Message(kind, r))
                         /\ Says(kind, task'[r], thread'[r])
  /\ task[r] = "running"
  /\ ~UnderWay'

\* At most one run is under way.
LEMMA OneUnderWay ==
  ASSUME TypeInv, WorkInv, NEW q \in Runs, NEW r \in Runs,
         task[q] = "running", task[r] = "running"
  PROVE  q = r
<1>1. q \in Int /\ r \in Int
  BY DEF Runs
<1> QED BY <1>1 DEF WorkInv

\* Every step posts one of these, takes a message, or leaves the queue alone.
LEMMA QueueSteps ==
  ASSUME TypeInv, WorkInv, [Next]_vars
  PROVE  \/ (UNCHANGED <<queue, bar, sub_title, last_run, notice>>) /\ (UnderWay' <=> UnderWay)
         \/ /\ \E r \in Runs : PostsRunning(r) \/ PostsResult(r) \/ PostsEnd(r)
            /\ UNCHANGED <<bar, sub_title, last_run, notice>>
         \/ Handle /\ UNCHANGED workVars
<1>0. WorkTypes
  BY TypeParts
<1>1. ASSUME NEW r \in Runs, PressRun(r)
      PROVE  \/ (UNCHANGED <<queue, bar, sub_title, last_run, notice>>) /\ (UnderWay' <=> UnderWay)
             \/ /\ \E q \in Runs : PostsEnd(q)
                /\ UNCHANGED <<bar, sub_title, last_run, notice>>
  <2> DEFINE old == {q \in Runs : task[q] = "running"}
             last == CHOOSE q \in old : TRUE
  <2>1. /\ task' = [q \in Runs |-> IF q = r THEN "pending"
                                   ELSE IF q \in old THEN "cancelled" ELSE task[q]]
        /\ task[r] = "none"
        /\ queue' = IF old = {} THEN queue ELSE Append(queue, Message("cancelled", last))
        /\ UNCHANGED <<bar, sub_title, last_run, notice>>
    BY <1>1 DEF PressRun, uiVars
  <2>2. ~UnderWay'
    BY <2>1 DEF UnderWay
  <2>3. CASE old = {}
    <3>1. ~UnderWay
      BY <2>3 DEF UnderWay
    <3> QED BY <2>1, <2>2, <2>3, <3>1
  <2>4. CASE old # {}
    <3>1. last \in Runs /\ task[last] = "running"
      BY <2>4
    <3>2. task'[last] = "cancelled"
      BY <2>1, <3>1
    <3>3. queue' = Append(queue, Message("cancelled", last))
      BY <2>1, <2>4
    <3> HIDE DEF last
    <3>4. Says("cancelled", task'[last], thread'[last])
      BY <3>2 DEF Says
    <3>5. PostsEnd(last)
      BY <2>2, <3>1, <3>3, <3>4 DEF PostsEnd, Final
    <3> QED BY <2>1, <3>1, <3>5
  <2> QED BY <2>3, <2>4
<1>2. ASSUME NEW r \in Runs, StartTask(r)
      PROVE  PostsRunning(r) /\ UNCHANGED <<bar, sub_title, last_run, notice>>
  BY <1>0, <1>2 DEF StartTask, PostsRunning, uiVars, WorkTypes
<1>3. ASSUME NEW r \in Runs, EvaluateCheck(r)
      PROVE  PostsResult(r) /\ UNCHANGED <<bar, sub_title, last_run, notice>>
  <2>1. \E k \in scope[r] \ DOMAIN result[r], s \in Status :
          queue' = Append(queue, Progress(r, k, s))
    BY <1>3, ResultAdded
  <2>2. task' = task /\ thread[r] = "evaluating" /\ UNCHANGED <<bar, sub_title, last_run, notice>>
    BY <1>3 DEF EvaluateCheck, uiVars, detailVars
  <2> QED BY <2>1, <2>2 DEF PostsResult
<1>4. ASSUME NEW r \in Runs, EndTask(r)
      PROVE  PostsEnd(r) /\ UNCHANGED <<bar, sub_title, last_run, notice>>
  <2>1. /\ task[r] = "running" /\ thread[r] \in {"returned", "raised"}
        /\ task' = [task EXCEPT ![r] = "ended"] /\ thread' = thread
        /\ queue' = Append(queue, Message(IF thread[r] = "returned" THEN "success"
                                          ELSE "error", r))
        /\ UNCHANGED <<bar, sub_title, last_run, notice>>
    BY <1>4 DEF EndTask, uiVars
  <2>2. task'[r] = "ended" /\ \A q \in Runs \ {r} : task'[q] = task[q]
    BY <1>0, <2>1 DEF WorkTypes
  <2>3. ~UnderWay'
    BY <2>1, <2>2, OneUnderWay DEF UnderWay
  <2>4. Says(IF thread[r] = "returned" THEN "success" ELSE "error", task'[r], thread'[r])
    BY <2>1, <2>2 DEF Says
  <2> QED BY <2>1, <2>3, <2>4 DEF PostsEnd, Final
<1>5. ASSUME NEW r \in Runs, ThreadStart(r) \/ RecordObservations(r) \/ FinishRun(r) \/ ThreadRaises(r)
      PROVE  (UNCHANGED <<queue, bar, sub_title, last_run, notice>>) /\ (UnderWay' <=> UnderWay)
  BY <1>5 DEF ThreadStart, RecordObservations, FinishRun, ThreadRaises, uiVars, UnderWay
<1>6. ASSUME OpenDetail \/ Cover \/ Uncover \/ CloseDetail \/ Repaint \/ OtherRun \/ UNCHANGED vars
      PROVE  (UNCHANGED <<queue, bar, sub_title, last_run, notice>>) /\ (UnderWay' <=> UnderWay)
  BY <1>6 DEF OpenDetail, Cover, Uncover, CloseDetail, Repaint, OtherRun, vars, uiVars, workVars, UnderWay
<1>7. ASSUME Handle PROVE UNCHANGED workVars
  BY <1>7 DEF Handle, HandleRunning, HandleProgress, HandleCancelled, HandleSuccess,
              HandleError, Receive
<1> QED BY <1>1, <1>2, <1>3, <1>4, <1>5, <1>6, <1>7 DEF Next, User, Thread

\* How a run ended stays so.
LEMMA EndsStay ==
  ASSUME TypeInv, WorkInv, [Next]_vars, NEW r \in Runs
  PROVE  /\ task[r] \in {"cancelled", "ended"} => task'[r] = task[r]
         /\ thread[r] \in {"returned", "raised"} => thread'[r] = thread[r]
         /\ \A kind : Says(kind, task[r], thread[r]) => Says(kind, task'[r], thread'[r])
<1>0. WorkTypes
  BY TypeParts
<1>1. /\ task[r] \in {"cancelled", "ended"} => task'[r] = task[r]
      /\ thread[r] \in {"returned", "raised"} => thread'[r] = thread[r]
  <2>1. ASSUME NEW q \in Runs, PressRun(q)
        PROVE  /\ task[r] \in {"cancelled", "ended"} => task'[r] = task[r]
               /\ thread[r] \in {"returned", "raised"} => thread'[r] = thread[r]
    BY <2>1 DEF PressRun
  <2>2. ASSUME NEW q \in Runs, StartTask(q) \/ EndTask(q)
        PROVE  /\ task[r] \in {"cancelled", "ended"} => task'[r] = task[r]
               /\ thread[r] \in {"returned", "raised"} => thread'[r] = thread[r]
    BY <1>0, <2>2 DEF StartTask, EndTask, WorkTypes, WorkInv
  <2>3. ASSUME NEW q \in Runs, Thread(q)
        PROVE  /\ task[r] \in {"cancelled", "ended"} => task'[r] = task[r]
               /\ thread[r] \in {"returned", "raised"} => thread'[r] = thread[r]
    BY <1>0, <2>3 DEF Thread, ThreadStart, EvaluateCheck, RecordObservations, FinishRun,
                      ThreadRaises, WorkTypes
  <2>4. ASSUME OpenDetail \/ Cover \/ Uncover \/ CloseDetail \/ Repaint \/ OtherRun \/ Handle \/ UNCHANGED vars
        PROVE  task' = task /\ thread' = thread
    BY <2>4 DEF OpenDetail, Cover, Uncover, CloseDetail, Repaint, OtherRun, vars, workVars, Handle,
                HandleRunning, HandleProgress, HandleCancelled, HandleSuccess,
                HandleError, Receive
  <2> QED BY <2>1, <2>2, <2>3, <2>4 DEF Next, User
<1> QED BY <1>1 DEF Says

\* The end of a run, once posted, is the latest there is to report.
LEMMA ReportKept ==
  ASSUME TypeInv, WorkInv, ReportInv, [Next]_vars
  PROVE  ReportInv'
<1>0. /\ queue \in Seq(Msg) /\ Runs \subseteq Int
      /\ notice \in [Runs -> {"none", "cancelled", "complete", "failed"}]
      /\ last_run \in {0} \cup Runs
      /\ \A m \in Msg : m.run \in Runs
  BY DEF TypeInv, TypeOK, Runs, Msg, Plain, News
<1>1. \A r \in Runs : \A kind : Says(kind, task[r], thread[r]) => Says(kind, task'[r], thread'[r])
  BY EndsStay
<1>2. ASSUME UNCHANGED <<queue, last_run, notice>> PROVE ReportInv'
  <2>1. \A i \in DOMAIN queue : queue[i].run \in Runs
    BY <1>0
  <2> QED BY <1>1, <1>2, <2>1 DEF ReportInv
<1>3. ASSUME NEW m \in Msg, queue' = Append(queue, m), UNCHANGED <<last_run, notice>>,
             Says(m.kind, task'[m.run], thread'[m.run]),
             m.kind \in Final => task[m.run] = "running"
      PROVE  ReportInv'
  <2>1. /\ Len(queue) \in Nat /\ DOMAIN queue = 1..Len(queue)
        /\ DOMAIN queue' = 1..Len(queue) + 1
        /\ \A i \in DOMAIN queue : queue'[i] = queue[i] /\ queue[i] \in Msg
        /\ queue'[Len(queue) + 1] = m
    BY <1>0, <1>3, PostFacts
  <2>2. \A i \in DOMAIN queue' : i \in DOMAIN queue \/ i = Len(queue) + 1
    BY <2>1
  <2>3. ASSUME NEW i \in DOMAIN queue'
        PROVE  Says(queue'[i].kind, task'[queue'[i].run], thread'[queue'[i].run])
    <3>1. CASE i \in DOMAIN queue
      <4>1. queue'[i] = queue[i] /\ queue[i].run \in Runs
        BY <1>0, <2>1, <3>1
      <4> QED BY <1>1, <3>1, <4>1 DEF ReportInv
    <3>2. CASE i = Len(queue) + 1
      BY <1>3, <2>1, <3>2
    <3> QED BY <2>2, <3>1, <3>2
  <2>4. ASSUME NEW r \in Runs, task[r] \in {"cancelled", "ended"}, m.kind \in Final
        PROVE  r < m.run
    <3>1. task[m.run] = "running" /\ m.run \in Runs
      BY <1>0, <1>3, <2>4
    <3>2. r # m.run /\ ~(m.run < r)
      BY <2>4, <3>1 DEF WorkInv
    <3> QED BY <1>0, <3>1, <3>2
  <2>5. \A kind, r : kind \in Final /\ Says(kind, task[r], thread[r]) => task[r] \in {"cancelled", "ended"}
    BY DEF Final, Says
  <2>6. ASSUME NEW i \in DOMAIN queue', NEW j \in DOMAIN queue', i < j,
               queue'[i].kind \in Final, queue'[j].kind \in Final
        PROVE  queue'[i].run < queue'[j].run
    <3>1. i \in DOMAIN queue
      BY <2>1, <2>6
    <3>2. CASE j \in DOMAIN queue
      BY <2>1, <2>6, <3>1, <3>2 DEF ReportInv
    <3>3. CASE j = Len(queue) + 1
      <4>1. task[queue[i].run] \in {"cancelled", "ended"} /\ queue[i].run \in Runs
        BY <1>0, <2>1, <2>5, <2>6, <3>1 DEF ReportInv
      <4> QED BY <2>1, <2>4, <2>6, <3>1, <3>3, <4>1
    <3> QED BY <2>2, <3>2, <3>3
  <2>7. ASSUME NEW i \in DOMAIN queue', NEW r \in Runs, queue'[i].kind \in Final,
               notice[r] # "none"
        PROVE  r < queue'[i].run
    <3>1. CASE i \in DOMAIN queue
      BY <2>1, <2>7, <3>1 DEF ReportInv
    <3>2. CASE i = Len(queue) + 1
      <4>1. Says(ToastKind[notice[r]], task[r], thread[r])
        BY <2>7 DEF ReportInv
      <4>2. ToastKind[notice[r]] \in Final
        BY <1>0, <2>7 DEF ToastKind, Final
      <4>3. task[r] \in {"cancelled", "ended"}
        BY <2>5, <4>1, <4>2
      <4> QED BY <2>1, <2>4, <2>7, <3>2, <4>3
    <3> QED BY <2>2, <3>1, <3>2
  <2>8. \A r \in Runs : notice'[r] # "none" => Says(ToastKind[notice'[r]], task'[r], thread'[r])
    BY <1>1, <1>3 DEF ReportInv
  <2>9. last_run' # 0 => notice'[last_run'] = "complete"
    BY <1>3 DEF ReportInv
  <2> QED BY <1>3, <2>3, <2>6, <2>7, <2>8, <2>9 DEF ReportInv
<1>4. ASSUME Handle, UNCHANGED workVars PROVE ReportInv'
  <2>1. queue # <<>> /\ queue' = Tail(queue)
    BY <1>4 DEF Handle, HandleRunning, HandleProgress, HandleCancelled, HandleSuccess,
                HandleError, Receive
  <2>2. /\ Len(queue) \in Nat \ {0} /\ DOMAIN queue = 1..Len(queue)
        /\ DOMAIN queue' = 1..Len(queue) - 1
        /\ \A i \in DOMAIN queue' : i + 1 \in DOMAIN queue /\ queue'[i] = queue[i + 1]
        /\ Head(queue) = queue[1] /\ 1 \in DOMAIN queue /\ queue[1] \in Msg
    BY <1>0, <2>1, TakeFacts
  <2>3. task' = task /\ thread' = thread
    BY <1>4 DEF workVars
  <2>4. \A i \in DOMAIN queue' : Says(queue'[i].kind, task'[queue'[i].run], thread'[queue'[i].run])
    BY <2>2, <2>3 DEF ReportInv
  <2>5. \A i, j \in DOMAIN queue' : i < j => i + 1 < j + 1 /\ 1 < j + 1 /\ 1 < i + 1
    BY <2>2
  <2>6. \A i, j \in DOMAIN queue' :
          i < j /\ queue'[i].kind \in Final /\ queue'[j].kind \in Final =>
            queue'[i].run < queue'[j].run
    BY <2>2, <2>5 DEF ReportInv
  <2>7. CASE HandleRunning \/ HandleProgress
    <3>1. UNCHANGED <<last_run, notice>>
      BY <2>7 DEF HandleRunning, HandleProgress
    <3> QED BY <2>2, <2>3, <2>4, <2>6, <3>1 DEF ReportInv
  <2>8. CASE HandleCancelled \/ HandleSuccess \/ HandleError
    <3> DEFINE m == queue[1]
    <3>1. m.kind \in Final /\ m.run \in Runs /\ Says(m.kind, task[m.run], thread[m.run])
      BY <1>0, <2>2, <2>8 DEF HandleCancelled, HandleSuccess, HandleError, Receive, Final,
                              ReportInv
    <3>2. PICK text \in {"cancelled", "complete", "failed"} :
            /\ notice' = [notice EXCEPT ![m.run] = text]
            /\ ToastKind[text] = m.kind
            /\ last_run' = IF text = "complete" THEN m.run ELSE last_run
      BY <2>2, <2>8 DEF HandleCancelled, HandleSuccess, HandleError, Receive, Notify, ToastKind
    <3> HIDE DEF m
    <3>3. notice'[m.run] = text /\ \A r \in Runs \ {m.run} : notice'[r] = notice[r]
      BY <1>0, <3>1, <3>2
    <3>4. \A r \in Runs : notice'[r] # "none" => Says(ToastKind[notice'[r]], task'[r], thread'[r])
      BY <2>3, <3>1, <3>2, <3>3 DEF ReportInv
    <3>5. ASSUME NEW i \in DOMAIN queue', NEW r \in Runs, queue'[i].kind \in Final,
                 notice'[r] # "none"
          PROVE  r < queue'[i].run
      <4>1. CASE r = m.run
        <5>1. 1 < i + 1
          BY <2>2
        <5> QED BY <2>2, <3>1, <3>5, <4>1, <5>1 DEF ReportInv, m
      <4>2. CASE r # m.run
        BY <2>2, <3>3, <3>5, <4>2 DEF ReportInv
      <4> QED BY <4>1, <4>2
    <3>6. last_run' # 0 => notice'[last_run'] = "complete"
      <4>1. CASE text = "complete"
        BY <3>2, <3>3, <4>1
      <4>2. CASE text # "complete"
        <5>1. \A r \in Runs : notice[r] # "none" => r # m.run
          <6>1. \A r \in Runs : notice[r] # "none" => r < m.run
            BY <2>2, <3>1 DEF ReportInv, m
          <6> QED BY <1>0, <3>1, <6>1
        <5>2. last_run' = last_run
          BY <3>2, <4>2
        <5> QED BY <1>0, <3>3, <5>1, <5>2 DEF ReportInv
      <4> QED BY <4>1, <4>2
    <3> QED BY <2>4, <2>6, <3>4, <3>5, <3>6 DEF ReportInv
  <2> QED BY <1>4, <2>7, <2>8 DEF Handle
<1>5. ASSUME NEW r \in Runs, PostsRunning(r) \/ PostsResult(r) \/ PostsEnd(r),
             UNCHANGED <<last_run, notice>>
      PROVE  ReportInv'
  <2>1. CASE PostsRunning(r)
    <3> DEFINE m == Message("running", r)
    <3>1. m \in Msg /\ m.kind = "running" /\ m.run = r
      BY DEF Message, Msg, Plain
    <3>2. queue' = Append(queue, m)
      BY <2>1 DEF PostsRunning
    <3> HIDE DEF m
    <3>3. Says(m.kind, task'[m.run], thread'[m.run]) /\ m.kind \notin Final
      BY <3>1 DEF Says, Final
    <3> QED BY <1>3, <1>5, <3>1, <3>2, <3>3
  <2>2. CASE PostsResult(r)
    <3>1. PICK k \in scope[r] \ DOMAIN result[r] : \E s \in Status :
            queue' = Append(queue, Progress(r, k, s))
      BY <2>2 DEF PostsResult
    <3>2. PICK s \in Status : queue' = Append(queue, Progress(r, k, s))
      BY <3>1
    <3> DEFINE m == Progress(r, k, s)
    <3>3. m \in Msg /\ m.kind = "progress" /\ m.run = r
      BY DEF Progress, Msg, News, TypeInv
    <3>4. queue' = Append(queue, m)
      BY <3>2
    <3> HIDE DEF m
    <3>5. Says(m.kind, task'[m.run], thread'[m.run]) /\ m.kind \notin Final
      BY <3>3 DEF Says, Final
    <3> QED BY <1>3, <1>5, <3>3, <3>4, <3>5
  <2>3. CASE PostsEnd(r)
    <3>1. PICK kind \in Final : queue' = Append(queue, Message(kind, r)) /\ Says(kind, task'[r], thread'[r])
      BY <2>3 DEF PostsEnd
    <3> DEFINE m == Message(kind, r)
    <3>2. m \in Msg /\ m.kind = kind /\ m.run = r
      BY DEF Message, Msg, Plain, Final
    <3>3. queue' = Append(queue, m)
      BY <3>1
    <3> HIDE DEF m
    <3>4. Says(m.kind, task'[m.run], thread'[m.run]) /\ task[m.run] = "running"
      BY <2>3, <3>1, <3>2 DEF PostsEnd
    <3> QED BY <1>3, <1>5, <3>2, <3>3, <3>4
  <2> QED BY <1>5, <2>1, <2>2, <2>3
<1> QED BY <1>2, <1>4, <1>5, QueueSteps

\* Before the first run there is nothing to report.
LEMMA ReportAtFirst == Init => ReportInv
  BY DEF Init, ReportInv

-----------------------------------------------------------------------------
(* The progress bar and the sub-title.                                     *)

\* A message posted leaves the indicator as it should be if it is of one of
\* the kinds and fits, or changes nothing.
LEMMA FollowsPosted ==
  ASSUME NEW q \in Seq(Msg), NEW m \in Msg, NEW shown \in BOOLEAN,
         NEW u \in BOOLEAN, NEW v \in BOOLEAN, NEW kinds, NEW setting,
         Follows(shown, q, kinds, setting, u),
         m.kind \in kinds => (m.kind \in setting <=> v),
         m.kind \notin kinds => v = u
  PROVE  Follows(shown, Append(q, m), kinds, setting, v)
<1> DEFINE n == Len(q) + 1
           p == Append(q, m)
<1>1. /\ Len(q) \in Nat /\ DOMAIN q = 1..Len(q) /\ DOMAIN p = 1..Len(q) + 1
      /\ \A i \in DOMAIN q : p[i] = q[i]
      /\ p[Len(q) + 1] = m
  BY PostFacts
<1>2. /\ n \in DOMAIN p /\ p[n] = m
      /\ \A i \in DOMAIN q : i \in DOMAIN p /\ i < n
      /\ \A i \in DOMAIN p : i \in DOMAIN q \/ i = n
  BY <1>1
<1> HIDE DEF n, p
<1>3. ASSUME \A i \in DOMAIN p : p[i].kind \notin kinds PROVE shown <=> v
  <2>1. \A i \in DOMAIN q : q[i].kind \notin kinds
    BY <1>1, <1>2, <1>3
  <2>2. (shown <=> u) /\ v = u
    BY <1>2, <1>3, <2>1 DEF Follows
  <2> QED BY <2>2
<1>4. ASSUME NEW i \in DOMAIN p, p[i].kind \in kinds,
             \A j \in DOMAIN p : i < j => p[j].kind \notin kinds
      PROVE  p[i].kind \in setting <=> v
  <2>1. CASE i = n
    BY <1>2, <1>4, <2>1
  <2>2. CASE i \in DOMAIN q
    <3>1. v = u
      BY <1>2, <1>4, <2>2
    <3>2. q[i].kind \in kinds /\ \A j \in DOMAIN q : i < j => q[j].kind \notin kinds
      BY <1>1, <1>2, <1>4, <2>2
    <3>3. q[i].kind \in setting <=> u
      BY <2>2, <3>2 DEF Follows
    <3> QED BY <1>1, <2>2, <3>1, <3>3
  <2> QED BY <1>2, <2>1, <2>2
<1> QED BY <1>3, <1>4 DEF Follows, p

\* Handling a message leaves the indicator as it should be if it is set or
\* cleared as a message of its kind does.
LEMMA FollowsTaken ==
  ASSUME NEW q \in Seq(Msg), q # <<>>, NEW shown \in BOOLEAN, NEW next \in BOOLEAN,
         NEW u \in BOOLEAN, NEW kinds, NEW setting,
         Follows(shown, q, kinds, setting, u),
         Head(q).kind \in kinds => (next <=> Head(q).kind \in setting),
         Head(q).kind \notin kinds => next = shown
  PROVE  Follows(next, Tail(q), kinds, setting, u)
<1> DEFINE t == Tail(q)
<1>1. /\ Len(q) \in Nat \ {0} /\ DOMAIN q = 1..Len(q) /\ DOMAIN t = 1..Len(q) - 1
      /\ \A i \in DOMAIN t : i + 1 \in DOMAIN q /\ t[i] = q[i + 1]
      /\ Head(q) = q[1] /\ 1 \in DOMAIN q
  BY TakeFacts
<1>2. \A j \in DOMAIN q : j = 1 \/ (1 < j /\ j - 1 \in DOMAIN t /\ q[j] = t[j - 1])
  <2> SUFFICES ASSUME NEW j \in DOMAIN q, j # 1
               PROVE  1 < j /\ j - 1 \in DOMAIN t /\ q[j] = t[j - 1]
    OBVIOUS
  <2> HIDE DEF t
  <2>1. 1 < j /\ j - 1 \in DOMAIN t /\ (j - 1) + 1 = j
    BY <1>1
  <2>2. t[j - 1] = q[(j - 1) + 1]
    BY <1>1, <2>1
  <2> QED BY <2>1, <2>2
<1>3. \A i \in DOMAIN t, j \in DOMAIN q : i + 1 < j => j # 1 /\ i < j - 1
  BY <1>1
<1> HIDE DEF t
<1>4. ASSUME NEW i \in DOMAIN t, t[i].kind \in kinds,
             \A j \in DOMAIN t : i < j => t[j].kind \notin kinds
      PROVE  t[i].kind \in setting <=> u
  <2>1. i + 1 \in DOMAIN q /\ t[i] = q[i + 1]
    BY <1>1
  <2>2. \A j \in DOMAIN q : i + 1 < j => q[j].kind \notin kinds
    BY <1>2, <1>3, <1>4
  <2> QED BY <1>4, <2>1, <2>2 DEF Follows
<1>5. ASSUME \A i \in DOMAIN t : t[i].kind \notin kinds PROVE next <=> u
  <2>1. \A j \in DOMAIN q : 1 < j => q[j].kind \notin kinds
    <3>1. 1 < 1 => FALSE
      OBVIOUS
    <3> QED BY <1>2, <1>5, <3>1
  <2>2. CASE q[1].kind \in kinds
    <3>1. q[1].kind \in setting <=> u
      BY <1>1, <2>1, <2>2 DEF Follows
    <3> QED BY <1>1, <2>2, <3>1
  <2>3. CASE q[1].kind \notin kinds
    <3>1. \A j \in DOMAIN q : q[j].kind \notin kinds
      BY <1>2, <2>1, <2>3
    <3>2. shown <=> u
      BY <3>1 DEF Follows
    <3> QED BY <1>1, <2>3, <3>2
  <2> QED BY <2>2, <2>3
<1> QED BY <1>4, <1>5 DEF Follows, t

\* A thread that evaluates or writes is that of the run under way, unless the
\* run was superseded.
LEMMA WorkersAreUnderWay ==
  ASSUME TypeInv, WorkInv, NEW r \in Runs, task[r] # "cancelled",
         thread[r] \in {"evaluating", "recorded"}
  PROVE  task[r] = "running"
  BY DEF TypeInv, TypeOK, WorkInv

\* Runs stay superseded.
LEMMA StaysSuperseded ==
  ASSUME TypeInv, WorkInv, [Next]_vars, NoneSuperseded'
  PROVE  NoneSuperseded
  BY EndsStay DEF NoneSuperseded

\* Whatever is posted last about the bar or the sub-title fits the run under
\* way, or its end.
LEMMA IndicatorsPosted ==
  ASSUME TypeInv, WorkInv, BarInv, SubTitleInv, [Next]_vars, UNCHANGED <<bar, sub_title>>,
         NEW r \in Runs, PostsRunning(r) \/ PostsResult(r) \/ PostsEnd(r)
  PROVE  BarInv' /\ SubTitleInv'
<1>0. /\ queue \in Seq(Msg) /\ bar \in BOOLEAN /\ sub_title \in BOOLEAN
      /\ UnderWay \in BOOLEAN /\ UnderWay' \in BOOLEAN
  BY DEF TypeInv, TypeOK, UnderWay
<1>1. ASSUME NEW m \in Msg, queue' = Append(queue, m),
             m.kind \in Control => (m.kind = "running" <=> UnderWay'),
             m.kind \notin Control => UnderWay' = UnderWay,
             NoneSuperseded' /\ m.kind \in Titles =>
               (m.kind \in {"running", "progress"} <=> UnderWay'),
             NoneSuperseded' => m.kind \in Titles
      PROVE  BarInv' /\ SubTitleInv'
  <2>1. BarInv'
    <3>1. Follows(bar, Append(queue, m), Control, {"running"}, UnderWay')
      BY <1>0, <1>1, FollowsPosted DEF BarInv
    <3> QED BY <1>1, <3>1 DEF BarInv
  <2>2. ASSUME NoneSuperseded'
        PROVE  Follows(sub_title, Append(queue, m), Titles, {"running", "progress"}, UnderWay')
    <3>1. Follows(sub_title, queue, Titles, {"running", "progress"}, UnderWay)
      BY <2>2, StaysSuperseded DEF SubTitleInv
    <3> QED BY <1>0, <1>1, <2>2, <3>1, FollowsPosted
  <2> QED BY <1>1, <2>1, <2>2 DEF SubTitleInv
<1>2. CASE PostsRunning(r)
  <2> DEFINE m == Message("running", r)
  <2>1. m \in Msg /\ m.kind = "running"
    BY DEF Message, Msg, Plain
  <2>2. queue' = Append(queue, m) /\ UnderWay'
    BY <1>2 DEF PostsRunning, UnderWay
  <2> HIDE DEF m
  <2> QED BY <1>1, <2>1, <2>2 DEF Control, Titles
<1>3. CASE PostsResult(r)
  <2>1. PICK k \in scope[r] \ DOMAIN result[r] : \E s \in Status :
          queue' = Append(queue, Progress(r, k, s))
    BY <1>3 DEF PostsResult
  <2>2. PICK s \in Status : queue' = Append(queue, Progress(r, k, s))
    BY <2>1
  <2> DEFINE m == Progress(r, k, s)
  <2>3. m \in Msg /\ m.kind = "progress"
    BY DEF Progress, Msg, News, TypeInv
  <2>4. queue' = Append(queue, m) /\ UnderWay' = UnderWay
    BY <1>3, <2>2 DEF PostsResult, UnderWay
  <2>5. NoneSuperseded' => UnderWay'
    BY <1>3, WorkersAreUnderWay, StaysSuperseded DEF PostsResult, NoneSuperseded, UnderWay
  <2> HIDE DEF m
  <2>6. m.kind \notin Control /\ m.kind \in Titles
    BY <2>3 DEF Control, Final, Titles
  <2> QED BY <1>1, <2>3, <2>4, <2>5, <2>6
<1>4. CASE PostsEnd(r)
  <2>1. PICK kind \in Final : /\ queue' = Append(queue, Message(kind, r))
                              /\ Says(kind, task'[r], thread'[r])
    BY <1>4 DEF PostsEnd
  <2> DEFINE m == Message(kind, r)
  <2>2. m \in Msg /\ m.kind = kind /\ kind # "running" /\ kind # "progress"
    BY DEF Message, Msg, Plain, Final
  <2>3. queue' = Append(queue, m)
    BY <2>1
  <2> HIDE DEF m
  <2>4. m.kind \in Control /\ ~UnderWay'
    BY <1>4, <2>2 DEF PostsEnd, Control
  <2>5. NoneSuperseded' => m.kind \in Titles
    BY <2>1, <2>2 DEF Says, NoneSuperseded, Final, Titles
  <2> QED BY <1>1, <2>2, <2>3, <2>4, <2>5
<1> QED BY <1>2, <1>3, <1>4

\* Each handler sets or clears them as its message says.
LEMMA IndicatorsHandled ==
  ASSUME TypeInv, ReportInv, BarInv, SubTitleInv, Handle, UNCHANGED workVars
  PROVE  BarInv' /\ SubTitleInv'
<1> DEFINE kind == Head(queue).kind
<1>0. /\ queue \in Seq(Msg) /\ bar \in BOOLEAN /\ sub_title \in BOOLEAN
      /\ UnderWay \in BOOLEAN /\ UnderWay' = UnderWay /\ NoneSuperseded' = NoneSuperseded
  BY DEF TypeInv, TypeOK, UnderWay, NoneSuperseded, workVars
<1>1. queue # <<>> /\ queue' = Tail(queue)
  BY DEF Handle, HandleRunning, HandleProgress, HandleCancelled, HandleSuccess, HandleError,
         Receive
<1>2. /\ kind \in Control => (bar' <=> kind = "running")
      /\ kind \notin Control => bar' = bar
      /\ bar' \in BOOLEAN
  BY <1>0 DEF Handle, HandleRunning, HandleProgress, HandleCancelled, HandleSuccess,
              HandleError, Receive, Control, Final
<1>3. /\ kind \in Titles => (sub_title' <=> kind \in {"running", "progress"})
      /\ kind \notin Titles => sub_title' = sub_title
      /\ sub_title' \in BOOLEAN
  BY <1>0 DEF Handle, HandleRunning, HandleProgress, HandleCancelled, HandleSuccess,
              HandleError, Receive, Titles
<1> HIDE DEF kind
<1>4. BarInv'
  <2>1. Follows(bar', Tail(queue), Control, {"running"}, UnderWay)
    BY <1>0, <1>1, <1>2, FollowsTaken DEF BarInv, kind
  <2> QED BY <1>0, <1>1, <2>1 DEF BarInv
<1>5. ASSUME NoneSuperseded
      PROVE  Follows(sub_title', Tail(queue), Titles, {"running", "progress"}, UnderWay)
  BY <1>0, <1>1, <1>3, <1>5, FollowsTaken DEF SubTitleInv, kind
<1> QED BY <1>0, <1>1, <1>4, <1>5 DEF SubTitleInv

\* So the bar and, unless a run was superseded, the sub-title keep following
\* the runs.
LEMMA IndicatorsKept ==
  ASSUME TypeInv, WorkInv, ReportInv, BarInv, SubTitleInv, [Next]_vars
  PROVE  BarInv' /\ SubTitleInv'
<1>1. ASSUME UNCHANGED <<queue, bar, sub_title>>, UnderWay' <=> UnderWay
      PROVE  BarInv' /\ SubTitleInv'
  <2>1. UnderWay' = UnderWay
    BY <1>1 DEF UnderWay
  <2>2. BarInv'
    BY <1>1, <2>1 DEF BarInv
  <2>3. SubTitleInv'
    BY <1>1, <2>1, StaysSuperseded DEF SubTitleInv
  <2> QED BY <2>2, <2>3
<1> QED BY <1>1, IndicatorsPosted, IndicatorsHandled, QueueSteps

-----------------------------------------------------------------------------
(* What holds in every state, whatever disturbs the runs.                  *)

\* The inductive invariant, for any other processes storing runs meanwhile.
THEOREM RunsCorrect == Spec => []IInv
<1>1. Init => IInv
  <2>1. Init => BarInv /\ SubTitleInv
    BY DEF Init, BarInv, SubTitleInv, Follows, UnderWay
  <2> QED BY <2>1, TypesAtFirst, WorkAtFirst, ReportAtFirst DEF IInv
<1>2. IInv /\ [Next]_vars => IInv'
  BY TypesKept, WorkKept, ReportKept, IndicatorsKept DEF IInv
<1> QED BY <1>1, <1>2, PTL DEF Spec

\* The types hold, and with no message outstanding the bar shows exactly while
\* a run is under way, as does the sub-title if none was superseded (ScreenInv).
THEOREM BarIsTruthful == Spec => []ScreenInv
<1>1. IInv => ScreenInv
  <2> SUFFICES ASSUME IInv PROVE ScreenInv
    OBVIOUS
  <2>1. queue = <<>> => DOMAIN queue = {}
    OBVIOUS
  <2>2. BarMeansRunning
    BY <2>1 DEF IInv, BarInv, Follows, UnderWay, BarMeansRunning
  <2>3. SubTitleMeansRunning
    BY <2>1 DEF IInv, SubTitleInv, Follows, NoneSuperseded, UnderWay, SubTitleMeansRunning
  <2> QED BY <2>2, <2>3 DEF IInv, TypeInv, ScreenInv
<1> QED BY <1>1, RunsCorrect, PTL

\* A run reported complete has every check back and its observations stored,
\* and the Report shows such a run (NoticeTellsTruth).
THEOREM ToastsTellTheTruth == Spec => []NoticeTellsTruth
<1>1. IInv => NoticeTellsTruth
  <2> SUFFICES ASSUME IInv PROVE NoticeTellsTruth
    OBVIOUS
  <2>1. ASSUME NEW r \in Runs, notice[r] = "complete"
        PROVE  DOMAIN result[r] = scope[r] /\ RowsOf(r) \subseteq stored
    <3>1. Says("success", task[r], thread[r])
      BY <2>1 DEF IInv, ReportInv, ToastKind
    <3> QED BY <3>1 DEF Says, IInv, WorkInv
  <2> QED BY <2>1 DEF NoticeTellsTruth, IInv, ReportInv
<1> QED BY <1>1, RunsCorrect, PTL

\* A toast is the last word on its run, and the Report never goes back to an
\* older run (ReportsStand).
THEOREM ToastsStand == Spec => ReportsStand
<1>1. ASSUME IInv, [Next]_vars
      PROVE  [/\ \A r \in Runs : notice[r] # "none" => notice'[r] = notice[r]
              /\ last_run' >= last_run]_vars
  <2>0. /\ TypeInv /\ WorkInv /\ Runs \subseteq Nat \ {0}
        /\ last_run \in {0} \cup Runs /\ queue \in Seq(Msg)
        /\ notice \in [Runs -> {"none", "cancelled", "complete", "failed"}]
        /\ \A m \in Msg : m.run \in Runs
    BY <1>1 DEF IInv, TypeInv, TypeOK, Runs, Msg, Plain, News
  <2>1. CASE UNCHANGED <<last_run, notice>>
    BY <2>0, <2>1
  <2>2. CASE Handle
    <3> DEFINE m == queue[1]
    <3>1. /\ queue # <<>> /\ Head(queue) = m /\ m.run \in Runs /\ 1 \in DOMAIN queue
      BY <2>0, <2>2, TakeFacts DEF Handle, HandleRunning, HandleProgress, HandleCancelled,
                                   HandleSuccess, HandleError, Receive
    <3>2. CASE UNCHANGED <<last_run, notice>>
      BY <2>0, <3>2
    <3>3. CASE HandleCancelled \/ HandleSuccess \/ HandleError
      <4>1. m.kind \in Final
        BY <3>1, <3>3 DEF HandleCancelled, HandleSuccess, HandleError, Receive, Final
      <4>2. \A r \in Runs : notice[r] # "none" => r < m.run
        BY <1>1, <3>1, <4>1 DEF IInv, ReportInv
      <4>3. /\ \E text : notice' = [notice EXCEPT ![m.run] = text]
            /\ last_run' \in {last_run, m.run}
        BY <3>1, <3>3 DEF HandleCancelled, HandleSuccess, HandleError, Notify
      <4> HIDE DEF m
      <4>4. \A r \in Runs : notice[r] # "none" => notice'[r] = notice[r]
        BY <2>0, <3>1, <4>2, <4>3
      <4>5. last_run # 0 => last_run < m.run
        BY <1>1, <2>0, <4>2 DEF IInv, ReportInv
      <4>6. last_run' >= last_run
        BY <2>0, <3>1, <4>3, <4>5
      <4> QED BY <4>4, <4>6
    <3>4. HandleRunning \/ HandleProgress => UNCHANGED <<last_run, notice>>
      BY DEF HandleRunning, HandleProgress
    <3> QED BY <2>2, <3>2, <3>3, <3>4 DEF Handle
  <2> QED BY <1>1, <2>0, <2>1, <2>2, QueueSteps
<1> QED BY <1>1, RunsCorrect, PTL DEF Spec, ReportsStand

-----------------------------------------------------------------------------
(* Runs that nothing disturbs, while no other process stores any.          *)

\* A disturbance is never undone, and leaves no run under way.
LEMMA StaysDisturbed ==
  ASSUME TypeInv, WorkInv, [Next]_vars, Undisturbed'
  PROVE  Undisturbed /\ ~OtherRun
<1>1. others \in Nat
  BY DEF TypeInv, TypeOK
<1>2. others' = 0
  BY DEF Undisturbed
<1>3. ~OtherRun
  BY <1>1, <1>2 DEF OtherRun
<1>4. others' = others
  <2>1. ASSUME NEW r \in Runs, PressRun(r) \/ StartTask(r) \/ Thread(r) \/ EndTask(r)
        PROVE  others' = others
    BY <2>1 DEF PressRun, StartTask, Thread, ThreadStart, EvaluateCheck, RecordObservations,
                FinishRun, ThreadRaises, EndTask
  <2>2. ASSUME OpenDetail \/ Cover \/ Uncover \/ CloseDetail \/ Repaint \/ Handle \/ UNCHANGED vars
        PROVE  others' = others
    BY <2>2 DEF OpenDetail, Cover, Uncover, CloseDetail, Repaint, vars, workVars, Handle,
                HandleRunning, HandleProgress, HandleCancelled, HandleSuccess, HandleError, Receive
  <2> QED BY <1>3, <2>1, <2>2 DEF Next, User
<1> QED BY <1>2, <1>3, <1>4, EndsStay DEF Undisturbed

\* With nothing under way, the grid waits for a refresh or shows the store.
LEMMA HomeKept ==
  ASSUME IInv, HomeInv, [Next]_vars
  PROVE  HomeInv'
<1> SUFFICES ASSUME Undisturbed'
             PROVE  \/ UnderWay'
                    \/ queue' # <<>> /\ queue'[Len(queue')].kind = "success"
                    \/ queue' = <<>> /\ home' = HomeFromStore'
  BY DEF HomeInv
<1>0. /\ TypeInv /\ WorkInv /\ Undisturbed /\ queue \in Seq(Msg)
      /\ \/ UnderWay
         \/ queue # <<>> /\ queue[Len(queue)].kind = "success"
         \/ queue = <<>> /\ home = HomeFromStore
  BY StaysDisturbed DEF IInv, HomeInv, TypeInv
<1> DEFINE Goal == \/ UnderWay'
                   \/ queue' # <<>> /\ queue'[Len(queue')].kind = "success"
                   \/ queue' = <<>> /\ home' = HomeFromStore'
<1>1. ASSUME stored' = stored PROVE HomeFromStore' = HomeFromStore
  BY <1>1 DEF HomeFromStore, RollupStore, StoreStatus
<1>2. ASSUME NEW r \in Runs, PressRun(r) PROVE Goal
  <2>1. {q \in Runs : task[q] = "running"} = {}
    BY <1>2 DEF PressRun, Undisturbed
  <2>2. queue' = queue /\ UNCHANGED <<home, stored>>
    BY <1>2, <2>1 DEF PressRun, uiVars
  <2> QED BY <1>0, <1>1, <2>1, <2>2 DEF UnderWay
<1>3. ASSUME NEW r \in Runs, StartTask(r) PROVE Goal
  BY <1>0, <1>3 DEF StartTask, UnderWay, TypeInv, TypeOK
<1>4. ASSUME NEW r \in Runs, Thread(r) PROVE Goal
  <2>1. CASE UnderWay
    BY <1>4, <2>1 DEF Thread, ThreadStart, EvaluateCheck, RecordObservations, FinishRun,
                      ThreadRaises, UnderWay
  <2>2. CASE ~UnderWay
    <3>1. ThreadStart(r)
      BY <1>0, <1>4, <2>2, WorkersAreUnderWay
         DEF Thread, EvaluateCheck, RecordObservations, FinishRun, ThreadRaises, UnderWay,
             Undisturbed
    <3>2. UNCHANGED <<home, queue, stored>>
      BY <3>1 DEF ThreadStart, uiVars, detailVars
    <3> QED BY <1>0, <1>1, <2>2, <3>2
  <2> QED BY <2>1, <2>2
<1>5. ASSUME NEW r \in Runs, EndTask(r) PROVE Goal
  <2>1. thread[r] = "returned"
    BY <1>0, <1>5 DEF EndTask, Undisturbed
  <2>2. queue' = Append(queue, Message("success", r)) /\ Message("success", r) \in Msg
    BY <1>5, <2>1 DEF EndTask, Message, Msg, Plain
  <2>3. Len(queue') = Len(queue) + 1 /\ Len(queue) \in Nat
        /\ queue'[Len(queue) + 1] = Message("success", r)
    BY <1>0, <2>2, PostFacts
  <2>4. queue' # <<>>
    BY <2>3
  <2> QED BY <2>3, <2>4 DEF Message
<1>6. ~OtherRun
  BY <1>0, StaysDisturbed
<1>7. ASSUME OpenDetail \/ Cover \/ Uncover \/ CloseDetail \/ UNCHANGED vars PROVE Goal
  <2>1. UNCHANGED <<home, queue, stored, task>>
    BY <1>7 DEF OpenDetail, Cover, Uncover, CloseDetail, vars, workVars, uiVars
  <2> QED BY <1>0, <1>1, <2>1 DEF UnderWay
<1>8. ASSUME Repaint PROVE Goal
  <2>1. home' = HomeFromStore /\ UNCHANGED <<queue, stored, task>>
    BY <1>8 DEF Repaint, workVars
  <2> QED BY <1>0, <1>1, <2>1 DEF UnderWay
<1>9. ASSUME Handle PROVE Goal
  <2>1. queue # <<>> /\ queue' = Tail(queue) /\ UNCHANGED <<stored, task>>
    BY <1>9 DEF Handle, HandleRunning, HandleProgress, HandleCancelled, HandleSuccess,
                HandleError, Receive, workVars
  <2>2. CASE UnderWay
    BY <2>1, <2>2 DEF UnderWay
  <2>3. CASE queue[Len(queue)].kind = "success"
    <3>1. /\ Len(queue) \in Nat \ {0} /\ DOMAIN queue' = 1..Len(queue) - 1
          /\ Len(queue') = Len(queue) - 1
          /\ \A i \in DOMAIN queue' : queue'[i] = queue[i + 1]
          /\ Head(queue) = queue[1] /\ queue' \in Seq(Msg)
      BY <1>0, <2>1, TakeFacts
    <3>2. CASE Len(queue) = 1
      <4>1. HandleSuccess
        BY <1>9, <2>3, <3>1, <3>2 DEF Handle, HandleRunning, HandleProgress,
                                      HandleCancelled, HandleError, Receive
      <4>2. home' = HomeFromStore
        BY <4>1 DEF HandleSuccess
      <4>3. queue' = <<>>
        BY <3>1, <3>2
      <4> QED BY <1>1, <2>1, <4>2, <4>3
    <3>3. CASE Len(queue) # 1
      <4>1. Len(queue') \in DOMAIN queue' /\ Len(queue') + 1 = Len(queue) /\ queue' # <<>>
        BY <3>1, <3>3
      <4>2. queue'[Len(queue')] = queue[Len(queue)]
        BY <3>1, <4>1
      <4> QED BY <2>3, <4>1, <4>2
    <3> QED BY <3>2, <3>3
  <2> QED BY <1>0, <2>1, <2>2, <2>3
<1> QED BY <1>2, <1>3, <1>4, <1>5, <1>6, <1>7, <1>8, <1>9 DEF Next, User

\* When all is quiet and no run was disturbed, the Home grid shows what the
\* store holds (DashboardSettles).
THEOREM HomeSettles == Spec => []DashboardSettles
<1>1. Init => HomeInv
  <2> SUFFICES ASSUME Init PROVE HomeInv
    OBVIOUS
  <2>1. \A k : StoreStatus(k) = NoStatus
    BY DEF Init, StoreStatus
  <2>2. \A o : RollupStore(o) = NoStatus
    <3>1. \A o : {StoreStatus(k) : k \in ChecksOf(o)} \ {NoStatus} = {}
      BY <2>1
    <3> QED BY <3>1 DEF RollupStore, WorstOrUnknown
  <2> QED BY <2>2 DEF Init, HomeInv, HomeFromStore
<1>2. IInv /\ HomeInv /\ [Next]_vars => HomeInv'
  BY HomeKept
<1>3. HomeInv => DashboardSettles
  BY DEF HomeInv, DashboardSettles, Idle, UnderWay
<1> QED BY <1>1, <1>2, <1>3, RunsCorrect, PTL DEF Spec

-----------------------------------------------------------------------------
(* The screens of runs that nothing disturbs.                              *)

\* Tasks, results and stores that agree on the status of every check.
SameTruth(t, f, g, tt, ff, gg) ==
  \A k, s : k \in Checks => (Truly(t, f, g, k, s) <=> Truly(tt, ff, gg, k, s))

\* Posting a message that is no result leaves the news as it was.
LEMMA NewsPosted ==
  ASSUME queue \in Seq(Msg), NEW m \in Msg, queue' = Append(queue, m)
  PROVE  /\ m.kind # "progress" => Due' = Due
         /\ m.kind = "progress" => Due' = Due \cup {m.check}
         /\ LastNewsTrue /\ m.kind # "progress"
            /\ SameTruth(task, result, Stored, task', result', Stored') => LastNewsTrue'
<1> DEFINE n == Len(queue) + 1
<1>1. /\ DOMAIN queue = 1..Len(queue) /\ Len(queue) \in Nat
      /\ DOMAIN queue' = 1..n
      /\ \A i \in DOMAIN queue : queue'[i] = queue[i] /\ queue[i] \in Msg
      /\ queue'[n] = m
  BY PostFacts
<1>2. /\ n \in DOMAIN queue'
      /\ \A i \in DOMAIN queue : i \in DOMAIN queue'
      /\ \A i \in DOMAIN queue' : i \in DOMAIN queue \/ i = n
  BY <1>1
<1> HIDE DEF n
<1>3. m.kind # "progress" => Due' = Due
  BY <1>1, <1>2 DEF Due
<1>4. m.kind = "progress" => Due' = Due \cup {m.check}
  BY <1>1, <1>2 DEF Due
<1>5. ASSUME LastNewsTrue, m.kind # "progress",
             SameTruth(task, result, Stored, task', result', Stored')
      PROVE  LastNewsTrue'
  <2> SUFFICES ASSUME NEW i \in DOMAIN queue', queue'[i].kind = "progress",
                      \A j \in DOMAIN queue' : i < j /\ queue'[j].kind = "progress" =>
                        queue'[j].check # queue'[i].check
               PROVE  Truly(task', result', Stored', queue'[i].check, queue'[i].status)
    BY DEF LastNewsTrue
  <2>1. i \in DOMAIN queue /\ queue'[i] = queue[i]
    BY <1>1, <1>2, <1>5
  <2>2. \A j \in DOMAIN queue : i < j /\ queue[j].kind = "progress" =>
          queue[j].check # queue[i].check
    BY <1>1, <1>2, <2>1
  <2>3. Truly(task, result, Stored, queue[i].check, queue[i].status)
    BY <1>5, <2>1, <2>2 DEF LastNewsTrue
  <2>4. queue[i].check \in Checks
    BY <1>1, <2>1 DEF Msg, Plain, News
  <2> QED BY <1>5, <2>1, <2>3, <2>4 DEF SameTruth
<1> QED BY <1>3, <1>4, <1>5

\* Handling a message leaves the news behind it as it was.
LEMMA NewsTaken ==
  ASSUME queue \in Seq(Msg), queue # <<>>, queue' = Tail(queue), UNCHANGED workVars,
         LastNewsTrue, NewsFollow, NewestRun
  PROVE  /\ Due' \subseteq Due
         /\ Due \subseteq Due' \cup {queue[1].check}
         /\ queue[1].kind # "progress" => Due' = Due
         /\ LastNewsTrue' /\ NewsFollow' /\ NewestRun' /\ Stored' = Stored
         /\ queue[1] = Head(queue) /\ 1 \in DOMAIN queue /\ queue[1] \in Msg
         /\ \A j \in DOMAIN queue : 1 < j /\ queue[j].kind = "progress" =>
              queue[j].check \in Due'
<1>1. /\ Len(queue) \in Nat \ {0} /\ DOMAIN queue = 1..Len(queue)
      /\ DOMAIN queue' = 1..Len(queue) - 1
      /\ \A i \in DOMAIN queue' : i + 1 \in DOMAIN queue /\ queue'[i] = queue[i + 1]
      /\ Head(queue) = queue[1] /\ 1 \in DOMAIN queue /\ queue[1] \in Msg
  BY TakeFacts
<1>2. \A j \in DOMAIN queue : j = 1 \/ (j - 1 \in DOMAIN queue' /\ queue[j] = queue'[j - 1])
  <2> SUFFICES ASSUME NEW j \in DOMAIN queue, j # 1
               PROVE  j - 1 \in DOMAIN queue' /\ queue[j] = queue'[j - 1]
    OBVIOUS
  <2>1. j - 1 \in DOMAIN queue' /\ (j - 1) + 1 = j
    BY <1>1
  <2> QED BY <1>1, <2>1
<1>3. \A i \in DOMAIN queue', j \in DOMAIN queue : i + 1 < j => j # 1 /\ i < j - 1
  BY <1>1
<1>4. task' = task /\ result' = result /\ stored' = stored /\ thread' = thread /\ at' = at
  BY DEF workVars
<1>5. Stored' = Stored
  BY <1>4 DEF Stored, StoreStatus
<1>6. Due' \subseteq Due
  BY <1>1 DEF Due
<1>7. /\ Due \subseteq Due' \cup {queue[1].check}
      /\ queue[1].kind # "progress" => Due' = Due
      /\ \A j \in DOMAIN queue : 1 < j /\ queue[j].kind = "progress" =>
           queue[j].check \in Due'
  <2>1. \A j \in DOMAIN queue : j # 1 /\ queue[j].kind = "progress" => queue[j].check \in Due'
    BY <1>2 DEF Due
  <2>2. \A j \in DOMAIN queue : 1 < j => j # 1
    BY <1>1
  <2> QED BY <1>6, <2>1, <2>2 DEF Due
<1>8. LastNewsTrue'
  <2> SUFFICES ASSUME NEW i \in DOMAIN queue', queue'[i].kind = "progress",
                      \A j \in DOMAIN queue' : i < j /\ queue'[j].kind = "progress" =>
                        queue'[j].check # queue'[i].check
               PROVE  Truly(task', result', Stored', queue'[i].check, queue'[i].status)
    BY DEF LastNewsTrue
  <2>1. \A j \in DOMAIN queue : i + 1 < j /\ queue[j].kind = "progress" =>
          queue[j].check # queue[i + 1].check
    BY <1>1, <1>2, <1>3
  <2>2. i + 1 \in DOMAIN queue /\ queue'[i] = queue[i + 1]
    BY <1>1
  <2> QED BY <1>4, <1>5, <2>1, <2>2 DEF LastNewsTrue
<1>9. NewsFollow'
  <2> SUFFICES ASSUME NEW i \in DOMAIN queue', NEW r \in Runs, NEW k \in DOMAIN result'[r],
                      queue'[i].kind = "running", task'[r] = "running"
               PROVE  \E j \in DOMAIN queue' : /\ i < j /\ queue'[j].kind = "progress"
                                               /\ queue'[j].check = k
    BY DEF NewsFollow
  <2>1. i + 1 \in DOMAIN queue /\ queue'[i] = queue[i + 1]
    BY <1>1
  <2>2. PICK j \in DOMAIN queue : /\ i + 1 < j /\ queue[j].kind = "progress"
                                  /\ queue[j].check = k
    BY <1>4, <2>1 DEF NewsFollow
  <2> QED BY <1>2, <1>3, <2>2
<1>10. NewestRun'
  BY <1>4, <1>5 DEF NewestRun
<1> QED BY <1>1, <1>5, <1>6, <1>7, <1>8, <1>9, <1>10

\* Steps that leave the news, the live results and every check's status alone.
LEMMA QuietStep ==
  ASSUME TypeInv, ScreensTrue, LastNewsTrue, NewsFollow,
         UNCHANGED <<queue, live, stored, result>>,
         \A r \in Runs : task'[r] = "running" <=> task[r] = "running",
         \/ UNCHANGED <<screen, detail, missed>> \/ OpenDetail \/ CloseDetail
  PROVE  ScreensTrue' /\ LastNewsTrue' /\ NewsFollow'
<1>1. Stored' = Stored /\ Opened' = Opened /\ Due' = Due
  BY DEF Stored, Opened, StoreStatus, Due
<1>2. \A k, s : Truly(task, result, Stored, k, s) <=> Truly(task', result', Stored', k, s)
  BY <1>1 DEF Truly
<1>3. LastNewsTrue'
  BY <1>1, <1>2 DEF LastNewsTrue
<1>4. NewsFollow'
  BY DEF NewsFollow
<1>5. ASSUME NEW k \in Checks \ Due, screen' = ObjectOf[k], ~missed'
      PROVE  Truly(task', result', Stored', k, detail'[k])
  <2>1. ObjectOf[k] \in Objects /\ Home \notin Objects
    BY TuiRunAssumption
  <2>2. CASE UNCHANGED <<screen, detail, missed>>
    BY <1>2, <1>5, <2>2 DEF ScreensTrue
  <2>3. CASE OpenDetail
    <3>1. detail' = DetailRows(screen')
      BY <2>3 DEF OpenDetail
    <3>2. detail'[k] = Opened[k]
      BY <1>5, <3>1 DEF DetailRows, Opened, ChecksOf
    <3> QED BY <1>2, <3>2 DEF ScreensTrue
  <2>4. CASE CloseDetail
    BY <1>5, <2>1, <2>4 DEF CloseDetail
  <2> QED BY <2>2, <2>3, <2>4
<1>6. ScreensTrue'
  BY <1>1, <1>2, <1>5 DEF ScreensTrue
<1> QED BY <1>3, <1>4, <1>6

\* A run that starts knows nothing yet.
LEMMA DetailStart ==
  ASSUME TypeInv, WorkInv, ScreensTrue, LastNewsTrue, NewsFollow, NewestRun,
         NEW r \in Runs, StartTask(r)
  PROVE  ScreensTrue' /\ LastNewsTrue' /\ NewsFollow' /\ NewestRun'
<1>1. /\ task[r] = "pending" /\ task' = [task EXCEPT ![r] = "running"]
      /\ thread' = [thread EXCEPT ![r] = "queued"]
      /\ queue' = Append(queue, Message("running", r))
      /\ UNCHANGED <<result, at, stored, live, screen, detail, missed>>
  BY DEF StartTask, uiVars, detailVars
<1>2. Message("running", r) \in Msg /\ Message("running", r).kind = "running"
  BY DEF Message, Msg, Plain
<1>3. /\ DOMAIN result[r] = {} /\ \A q \in Runs \ {r} : task[q] # "running"
  <2>1. \A q \in Runs : q # r => q < r \/ r < q
    BY DEF Runs
  <2> QED BY <1>1, <2>1 DEF WorkInv
<1>4. /\ task'[r] = "running" /\ \A q \in Runs \ {r} : task'[q] = task[q]
      /\ thread'[r] = "queued" /\ \A q \in Runs \ {r} : thread'[q] = thread[q]
  BY <1>1 DEF TypeInv, TypeOK
<1>5. Stored' = Stored /\ Opened' = Opened
  BY <1>1 DEF Stored, Opened, StoreStatus
<1>6. SameTruth(task, result, Stored, task', result', Stored')
  BY <1>1, <1>3, <1>4, <1>5 DEF SameTruth, Truly
<1>7. Due' = Due /\ LastNewsTrue'
  <2>1. queue \in Seq(Msg)
    BY DEF TypeInv
  <2> QED BY <1>1, <1>2, <1>6, <2>1, NewsPosted
<1>8. ScreensTrue'
  BY <1>1, <1>5, <1>6, <1>7 DEF ScreensTrue, SameTruth
<1>9. NewsFollow'
  BY <1>1, <1>3, <1>4 DEF NewsFollow
<1>10. NewestRun'
  BY <1>1, <1>3, <1>4, <1>5 DEF NewestRun
<1> QED BY <1>7, <1>8, <1>9, <1>10

\* A result is news about its check, and changes the status of no other.
LEMMA DetailResult ==
  ASSUME TypeInv, WorkInv, Undisturbed, ScreensTrue, LastNewsTrue, NewsFollow, NewestRun,
         NEW r \in Runs, EvaluateCheck(r)
  PROVE  ScreensTrue' /\ LastNewsTrue' /\ NewsFollow' /\ NewestRun'
<1>1. /\ thread[r] = "evaluating"
      /\ UNCHANGED <<task, thread, at, stored, live, screen, detail, missed>>
  BY DEF EvaluateCheck, uiVars, detailVars
<1>2. task[r] = "running" /\ \A q \in Runs : task[q] = "running" => q = r
  BY <1>1, WorkersAreUnderWay, OneUnderWay DEF Undisturbed
<1>3. PICK k0 \in scope[r] \ DOMAIN result[r] : \E s \in Status :
        /\ queue' = Append(queue, Progress(r, k0, s))
        /\ DOMAIN result'[r] = DOMAIN result[r] \cup {k0}
        /\ result'[r][k0] = s
        /\ \A j \in DOMAIN result[r] : result'[r][j] = result[r][j]
        /\ \A q \in Runs \ {r} : result'[q] = result[q]
  BY ResultAdded
<1>4. PICK s0 \in Status :
        /\ queue' = Append(queue, Progress(r, k0, s0))
        /\ DOMAIN result'[r] = DOMAIN result[r] \cup {k0}
        /\ result'[r][k0] = s0
        /\ \A j \in DOMAIN result[r] : result'[r][j] = result[r][j]
        /\ \A q \in Runs \ {r} : result'[q] = result[q]
  BY <1>3
<1> DEFINE m == Progress(r, k0, s0)
           n == Len(queue) + 1
<1>5. m \in Msg /\ m.kind = "progress" /\ m.check = k0 /\ m.status = s0
  BY DEF Progress, Msg, News, TypeInv
<1>6. queue' = Append(queue, m) /\ queue \in Seq(Msg)
  BY <1>4 DEF TypeInv
<1> HIDE DEF m
<1>7. /\ \A i \in DOMAIN queue : queue'[i] = queue[i] /\ i \in DOMAIN queue' /\ i < n
      /\ \A i \in DOMAIN queue' : i \in DOMAIN queue \/ i = n
      /\ queue'[n] = m /\ n \in DOMAIN queue'
  BY <1>5, <1>6, PostFacts
<1> HIDE DEF n
<1>8. Due' = Due \cup {k0}
  BY <1>5, <1>6, NewsPosted
<1>9. Stored' = Stored /\ Opened' = Opened
  BY <1>1 DEF Stored, Opened, StoreStatus
<1>10. \A k, s : k # k0 /\ Truly(task, result, Stored, k, s) => Truly(task', result', Stored', k, s)
  BY <1>1, <1>2, <1>4, <1>9 DEF Truly
<1>11. Truly(task', result', Stored', k0, s0)
  BY <1>1, <1>2, <1>4, <1>9 DEF Truly
<1>12. ScreensTrue'
  BY <1>1, <1>8, <1>9, <1>10 DEF ScreensTrue
<1>13. LastNewsTrue'
  <2> SUFFICES ASSUME NEW i \in DOMAIN queue', queue'[i].kind = "progress",
                      \A j \in DOMAIN queue' : i < j /\ queue'[j].kind = "progress" =>
                        queue'[j].check # queue'[i].check
               PROVE  Truly(task', result', Stored', queue'[i].check, queue'[i].status)
    BY DEF LastNewsTrue
  <2>1. CASE i = n
    BY <1>5, <1>7, <1>11, <2>1
  <2>2. CASE i \in DOMAIN queue
    <3>1. queue[i].check # k0 /\ queue'[i] = queue[i]
      BY <1>5, <1>7, <2>2
    <3>2. Truly(task, result, Stored, queue[i].check, queue[i].status)
      BY <1>7, <2>2 DEF LastNewsTrue
    <3> QED BY <1>10, <3>1, <3>2
  <2> QED BY <1>7, <2>1, <2>2
<1>14. NewsFollow'
  <2> SUFFICES ASSUME NEW i \in DOMAIN queue', NEW q \in Runs, NEW k \in DOMAIN result'[q],
                      queue'[i].kind = "running", task'[q] = "running"
               PROVE  \E j \in DOMAIN queue' : /\ i < j /\ queue'[j].kind = "progress"
                                               /\ queue'[j].check = k
    BY DEF NewsFollow
  <2>1. q = r /\ i \in DOMAIN queue /\ queue[i].kind = "running"
    BY <1>1, <1>2, <1>5, <1>7
  <2>2. CASE k = k0
    BY <1>5, <1>7, <2>1, <2>2
  <2>3. CASE k \in DOMAIN result[r]
    <3>1. PICK j \in DOMAIN queue : i < j /\ queue[j].kind = "progress" /\ queue[j].check = k
      BY <1>2, <2>1, <2>3 DEF NewsFollow
    <3> QED BY <1>7, <3>1
  <2> QED BY <1>4, <2>1, <2>2, <2>3
<1>15. NewestRun'
  BY <1>1, <1>2, <1>9 DEF NewestRun
<1> QED BY <1>12, <1>13, <1>14, <1>15

\* Writing stores what the screens have been told.
LEMMA DetailWrite ==
  ASSUME TypeInv, WorkInv, Undisturbed, ScreensTrue, LastNewsTrue, NewsFollow, NewestRun,
         NEW r \in Runs, RecordObservations(r)
  PROVE  ScreensTrue' /\ LastNewsTrue' /\ NewsFollow' /\ NewestRun'
<1>1. /\ thread[r] = "evaluating" /\ thread' = [thread EXCEPT ![r] = "recorded"]
      /\ stored' = stored \cup RowsOf(r)
      /\ UNCHANGED <<task, result, at, clock, queue, live, screen, detail, missed>>
  BY DEF RecordObservations, uiVars, detailVars
<1>2. task[r] = "running" /\ \A q \in Runs : task[q] = "running" => q = r
  BY <1>1, WorkersAreUnderWay, OneUnderWay DEF Undisturbed
<1>3. /\ at[r] # 0 /\ at[r] \in Int /\ \A o \in stored : o.at \in Int /\ o.at < at[r]
  BY <1>1 DEF WorkInv, NewestRun, TypeInv
<1>4. /\ \A o \in RowsOf(r) : /\ o.at = at[r] /\ o.check \in DOMAIN result[r]
                              /\ o.status = result[r][o.check]
      /\ \A k \in DOMAIN result[r] :
           [check |-> k, at |-> at[r], status |-> result[r][k]] \in RowsOf(r)
  BY <1>3, RowsTypes
<1>5. ASSUME NEW k \in DOMAIN result[r] PROVE StoreStatus(k)' = result[r][k]
  <2> DEFINE o == [check |-> k, at |-> at[r], status |-> result[r][k]]
             P(n) == n.check = k /\ \A p \in stored' : p.check = k => p.at <= n.at
  <2>1. o \in stored' /\ P(o)
    BY <1>1, <1>3, <1>4
  <2>2. ASSUME NEW n \in stored', P(n) PROVE n.status = result[r][k]
    <3>1. n.at >= at[r]
      BY <2>1, <2>2
    <3>2. n \in RowsOf(r)
      BY <1>1, <1>3, <2>2, <3>1
    <3> QED BY <1>4, <2>2, <3>2
  <2>3. StoreStatus(k)' = (CHOOSE n \in stored' : P(n)).status
    BY <2>1 DEF StoreStatus
  <2> QED BY <2>1, <2>2, <2>3
<1>6. ASSUME NEW k, k \notin DOMAIN result[r] PROVE StoreStatus(k)' = StoreStatus(k)
  <2>1. {o \in stored' : o.check = k} = {o \in stored : o.check = k}
    BY <1>1, <1>4, <1>6
  <2> DEFINE P(n) == n.check = k /\ \A p \in stored : p.check = k => p.at <= n.at
             Q(n) == n.check = k /\ \A p \in stored' : p.check = k => p.at <= n.at
             c == CHOOSE n \in stored : P(n)
             d == CHOOSE n \in stored' : Q(n)
  <2>2. \A n : n \in stored /\ P(n) <=> n \in stored' /\ Q(n)
    BY <2>1
  <2>3. c = d
    BY <2>2
  <2>4. (\E o \in stored' : o.check = k) <=> (\E o \in stored : o.check = k)
    BY <2>1
  <2>5. StoreStatus(k) = IF \E o \in stored : o.check = k THEN c.status ELSE NoStatus
    BY DEF StoreStatus
  <2>6. StoreStatus(k)' = IF \E o \in stored' : o.check = k THEN d.status ELSE NoStatus
    BY DEF StoreStatus
  <2> HIDE DEF c, d
  <2> QED BY <2>3, <2>4, <2>5, <2>6
<1>7. /\ \A k \in Checks : k \in DOMAIN result[r] => Stored'[k] = result[r][k]
      /\ \A k \in Checks : k \notin DOMAIN result[r] => Stored'[k] = Stored[k]
  BY <1>5, <1>6 DEF Stored
<1>8. SameTruth(task, result, Stored, task', result', Stored')
  BY <1>1, <1>2, <1>7 DEF SameTruth, Truly
<1>9. LastNewsTrue'
  <2>1. \A i \in DOMAIN queue : queue[i].kind = "progress" => queue[i].check \in Checks
    <3>1. \A i \in DOMAIN queue : queue[i] \in Msg
      BY DEF TypeInv
    <3> QED BY <3>1 DEF Msg, Plain, News
  <2> QED BY <1>1, <1>8, <2>1 DEF LastNewsTrue, SameTruth
<1>10. ScreensTrue'
  <2>1. Due' = Due
    BY <1>1 DEF Due
  <2>2. ASSUME NEW k \in Checks \ Due PROVE Truly(task', result', Stored', k, Opened'[k])
    <3>1. CASE LiveStatus(live, k) # NoStatus
      <4>1. Opened'[k] = Opened[k]
        BY <1>1, <3>1 DEF Opened
      <4> QED BY <1>8, <4>1 DEF ScreensTrue, SameTruth
    <3>2. CASE LiveStatus(live, k) = NoStatus
      <4>1. Opened'[k] = Stored'[k] /\ Opened[k] = Stored[k]
        BY <1>1, <3>2 DEF Opened, Stored
      <4>2. CASE k \in DOMAIN result[r]
        BY <1>1, <1>2, <1>7, <4>1, <4>2 DEF Truly
      <4>3. CASE k \notin DOMAIN result[r]
        <5>1. Opened'[k] = Opened[k]
          BY <1>7, <4>1, <4>3
        <5> QED BY <1>8, <5>1 DEF ScreensTrue, SameTruth
      <4> QED BY <4>2, <4>3
    <3> QED BY <3>1, <3>2
  <2>3. \A k \in Checks \ Due : screen = ObjectOf[k] /\ ~missed =>
          Truly(task', result', Stored', k, detail[k])
    BY <1>8 DEF ScreensTrue, SameTruth
  <2> QED BY <1>1, <2>1, <2>2, <2>3 DEF ScreensTrue
<1>11. NewsFollow'
  BY <1>1 DEF NewsFollow
<1>12. NewestRun'
  <2>1. /\ thread'[r] = "recorded" /\ \A q \in Runs \ {r} : thread'[q] = thread[q]
    BY <1>1 DEF TypeInv, TypeOK
  <2>2. ASSUME NEW q \in Runs, thread'[q] = "evaluating" PROVE FALSE
    <3>1. q # r /\ thread[q] = "evaluating"
      BY <2>1, <2>2
    <3> QED BY <1>2, <3>1, WorkersAreUnderWay DEF Undisturbed
  <2>3. \A k \in DOMAIN result[r] : k \in Checks
    BY DEF TypeInv, TypeOK
  <2> QED BY <1>1, <1>2, <1>7, <2>2, <2>3 DEF NewestRun
<1> QED BY <1>9, <1>10, <1>11, <1>12

\* A run that returned leaves the store as it told the screens.
LEMMA DetailEnd ==
  ASSUME TypeInv, WorkInv, Undisturbed, ScreensTrue, LastNewsTrue, NewsFollow, NewestRun,
         NEW r \in Runs, EndTask(r)
  PROVE  ScreensTrue' /\ LastNewsTrue' /\ NewsFollow' /\ NewestRun'
<1>1. /\ task[r] = "running" /\ thread[r] = "returned"
      /\ task' = [task EXCEPT ![r] = "ended"]
      /\ queue' = Append(queue, Message("success", r))
      /\ UNCHANGED <<thread, result, at, stored, live, screen, detail, missed>>
  BY DEF EndTask, uiVars, detailVars, Undisturbed
<1>2. Message("success", r) \in Msg /\ Message("success", r).kind = "success"
  BY DEF Message, Msg, Plain
<1>3. \A q \in Runs : task'[q] # "running"
  BY <1>1, OneUnderWay DEF TypeInv, TypeOK
<1>4. Stored' = Stored /\ Opened' = Opened
  BY <1>1 DEF Stored, Opened, StoreStatus
<1>5. SameTruth(task, result, Stored, task', result', Stored')
  <2>1. \A q \in Runs : task[q] = "running" => q = r
    BY <1>1, OneUnderWay
  <2>2. \A k \in DOMAIN result[r] : Stored[k] = result[r][k]
    BY <1>1 DEF NewestRun
  <2> QED BY <1>1, <1>3, <1>4, <2>1, <2>2 DEF SameTruth, Truly
<1>6. Due' = Due /\ LastNewsTrue'
  <2>1. queue \in Seq(Msg)
    BY DEF TypeInv
  <2> QED BY <1>1, <1>2, <1>5, <2>1, NewsPosted
<1>7. ScreensTrue'
  BY <1>1, <1>4, <1>5, <1>6 DEF ScreensTrue, SameTruth
<1>8. NewsFollow'
  BY <1>3 DEF NewsFollow
<1>9. NewestRun'
  <2>1. \A q \in Runs : thread[q] # "evaluating"
    BY <1>1, WorkersAreUnderWay, OneUnderWay DEF Undisturbed
  <2> QED BY <1>1, <1>3, <2>1 DEF NewestRun
<1> QED BY <1>6, <1>7, <1>8, <1>9

\* Handling a message brings the screen on top and the live results up to it.
LEMMA DetailHandle ==
  ASSUME TypeInv, WorkInv, Undisturbed, ScreensTrue, LastNewsTrue, NewsFollow, NewestRun,
         Handle
  PROVE  ScreensTrue' /\ LastNewsTrue' /\ NewsFollow' /\ NewestRun'
<1>1. queue \in Seq(Msg) /\ queue # <<>> /\ queue' = Tail(queue) /\ UNCHANGED workVars
  BY DEF TypeInv, Handle, HandleRunning, HandleProgress, HandleCancelled, HandleSuccess,
         HandleError, Receive
<1>2. /\ Due' \subseteq Due
      /\ Due \subseteq Due' \cup {queue[1].check}
      /\ queue[1].kind # "progress" => Due' = Due
      /\ LastNewsTrue' /\ NewsFollow' /\ NewestRun' /\ Stored' = Stored
      /\ queue[1] = Head(queue) /\ 1 \in DOMAIN queue /\ queue[1] \in Msg
      /\ \A j \in DOMAIN queue : 1 < j /\ queue[j].kind = "progress" =>
           queue[j].check \in Due'
  BY <1>1, NewsTaken
<1>3. task' = task /\ result' = result
  BY <1>1 DEF workVars
<1>4. ASSUME live' = live PROVE Opened' = Opened
  BY <1>1, <1>4 DEF Opened, StoreStatus, workVars
<1>5. ASSUME HandleCancelled \/ HandleError PROVE ScreensTrue'
  <2>1. Due' = Due /\ UNCHANGED <<live, screen, detail, missed>>
    BY <1>2, <1>5 DEF HandleCancelled, HandleError, Receive, detailVars
  <2> QED BY <1>2, <1>3, <1>4, <2>1 DEF ScreensTrue
<1>6. ASSUME HandleSuccess PROVE ScreensTrue'
  <2>1. /\ Due' = Due /\ UNCHANGED <<live, screen>>
        /\ detail' = IF screen = Home \/ covered THEN detail ELSE DetailRows(screen)
        /\ missed' = (screen # Home /\ covered)
    BY <1>2, <1>6 DEF HandleSuccess, RefreshTopmostScreen, Receive
  <2>2. ASSUME NEW k \in Checks, screen = ObjectOf[k], ~missed' PROVE detail'[k] = Opened[k]
    <3>1. screen # Home
      BY <2>2, TuiRunAssumption
    <3> QED BY <2>1, <2>2, <3>1 DEF DetailRows, Opened, ChecksOf
  <2> QED BY <1>2, <1>3, <1>4, <2>1, <2>2 DEF ScreensTrue
<1>7. ASSUME HandleRunning PROVE ScreensTrue'
  <2>1. /\ queue[1].kind = "running" /\ Due' = Due
        /\ live' = {} /\ UNCHANGED <<screen, detail, missed>>
    BY <1>2, <1>7 DEF HandleRunning, Receive, detailVars
  <2>2. \A k \in Checks : Opened'[k] = Stored[k]
    <3>1. \A k : LiveStatus({}, k) = NoStatus
      BY DEF LiveStatus
    <3>2. \A k \in Checks : Opened'[k] = Stored'[k]
      BY <2>1, <3>1 DEF Opened, Stored
    <3> QED BY <1>2, <3>2
  <2>3. ASSUME NEW k \in Checks \ Due, NEW r \in Runs, task[r] = "running"
        PROVE  k \notin DOMAIN result[r]
    <3>1. \A j \in DOMAIN queue : queue[j].kind = "progress" => queue[j].check \in Due
      BY DEF Due
    <3> QED BY <1>2, <2>1, <2>3, <3>1 DEF NewsFollow
  <2>4. \A k \in Checks \ Due : Truly(task, result, Stored, k, Stored[k])
    BY <2>3 DEF Truly
  <2> QED BY <1>2, <1>3, <2>1, <2>2, <2>4 DEF ScreensTrue
<1>8. ASSUME HandleProgress PROVE ScreensTrue'
  <2> DEFINE k0 == queue[1].check
             s0 == queue[1].status
  <2>1. /\ queue[1].kind = "progress"
        /\ live' = {e \in live : e.check # k0} \cup {[check |-> k0, status |-> s0]}
        /\ detail' = IF screen = ObjectOf[k0] /\ ~covered
                     THEN [detail EXCEPT ![k0] = s0] ELSE detail
        /\ missed' = (missed \/ (screen = ObjectOf[k0] /\ covered))
        /\ screen' = screen
    BY <1>2, <1>8 DEF HandleProgress, Receive
  <2>2. k0 \in Checks /\ s0 \in Status
    BY <1>2, <2>1 DEF Msg, Plain, News
  <2> HIDE DEF k0, s0
  <2>3. LiveStatus(live', k0) = s0
    <3>1. \A e \in live' : e.check = k0 => e.status = s0
      BY <2>1
    <3>2. \E e \in live' : e.check = k0
      <4>1. [check |-> k0, status |-> s0] \in live'
        BY <2>1
      <4>2. [check |-> k0, status |-> s0].check = k0
        OBVIOUS
      <4> QED BY <4>1, <4>2
    <3>3. LiveStatus(live', k0) = (CHOOSE e \in live' : e.check = k0).status
      BY <3>2 DEF LiveStatus
    <3> QED BY <3>1, <3>2, <3>3
  <2>4. ASSUME NEW k \in Checks, k # k0 PROVE LiveStatus(live', k) = LiveStatus(live, k)
    <3>1. \A e : e \in live' /\ e.check = k <=> e \in live /\ e.check = k
      BY <2>1, <2>4
    <3>2. (CHOOSE e \in live' : e.check = k) = (CHOOSE e \in live : e.check = k)
      BY <3>1
    <3>3. (\E e \in live' : e.check = k) <=> (\E e \in live : e.check = k)
      BY <3>1
    <3> QED BY <3>2, <3>3 DEF LiveStatus
  <2>5. Opened'[k0] = s0
    <3>1. s0 # NoStatus
      BY <2>2 DEF Status, NoStatus
    <3> QED BY <2>2, <2>3, <3>1 DEF Opened
  <2>6. \A k \in Checks : k # k0 => Opened'[k] = Opened[k]
    <3>1. \A k : StoreStatus(k)' = StoreStatus(k)
      BY <1>1 DEF StoreStatus, workVars
    <3> QED BY <2>4, <3>1 DEF Opened
  <2>7. ASSUME NEW k \in Checks, screen = ObjectOf[k], ~missed'
        PROVE  detail'[k] = IF k = k0 THEN s0 ELSE detail[k]
    <3>1. DOMAIN detail = ChecksOf(screen)
      <4>1. screen # Home
        BY <2>7, TuiRunAssumption
      <4> QED BY <4>1 DEF TypeInv, TypeOK
    <3>2. k \in DOMAIN detail
      BY <2>7, <3>1 DEF ChecksOf
    <3> QED BY <2>1, <2>7, <3>2
  <2>8. k0 \notin Due' => Truly(task, result, Stored, k0, s0)
    <3>1. ASSUME k0 \notin Due' PROVE \A j \in DOMAIN queue :
            1 < j /\ queue[j].kind = "progress" => queue[j].check # queue[1].check
      BY <1>2, <3>1 DEF k0
    <3> QED BY <1>2, <2>1, <3>1 DEF LastNewsTrue, k0, s0
  <2>9. \A k \in Checks \ Due' : k = k0 \/ k \in Checks \ Due
    BY <1>2 DEF k0
  <2>10. ASSUME NEW k \in Checks \ Due' PROVE Truly(task, result, Stored, k, Opened'[k])
    BY <2>5, <2>6, <2>8, <2>9 DEF ScreensTrue
  <2>11. ASSUME NEW k \in Checks \ Due', screen = ObjectOf[k], ~missed'
         PROVE  Truly(task, result, Stored, k, detail'[k])
    <3>1. ~missed
      BY <2>1, <2>11
    <3> QED BY <2>7, <2>8, <2>9, <2>11, <3>1 DEF ScreensTrue
  <2> QED BY <1>2, <1>3, <2>1, <2>10, <2>11 DEF ScreensTrue
<1> QED BY <1>2, <1>5, <1>6, <1>7, <1>8 DEF Handle

\* What the screens show stays true, as long as nothing disturbs the runs.
LEMMA DetailKept ==
  ASSUME IInv, DetailInv, [Next]_vars
  PROVE  DetailInv'
<1> SUFFICES ASSUME Undisturbed' PROVE ScreensTrue' /\ LastNewsTrue' /\ NewsFollow' /\ NewestRun'
  BY DEF DetailInv
<1>0. /\ TypeInv /\ WorkInv /\ Undisturbed
      /\ ScreensTrue /\ LastNewsTrue /\ NewsFollow /\ NewestRun
  BY StaysDisturbed DEF IInv, DetailInv
<1> DEFINE Goal == ScreensTrue' /\ LastNewsTrue' /\ NewsFollow' /\ NewestRun'
<1>1. ASSUME UNCHANGED <<queue, live, stored, result>>,
             \A q \in Runs : task'[q] = "running" <=> task[q] = "running",
             \/ UNCHANGED <<screen, detail, missed>> \/ OpenDetail \/ CloseDetail
      PROVE  ScreensTrue' /\ LastNewsTrue' /\ NewsFollow' /\ Stored' = Stored
  BY <1>0, <1>1, QuietStep DEF Stored, StoreStatus
<1>2. ASSUME NEW r \in Runs, PressRun(r) PROVE Goal
  <2>1. {q \in Runs : task[q] = "running"} = {}
    BY <1>2 DEF PressRun, Undisturbed
  <2>2. /\ UNCHANGED <<queue, live, stored, result, at, screen, detail, missed>>
        /\ \A q \in Runs : task'[q] # "running" /\ thread'[q] = thread[q]
    BY <1>0, <1>2, <2>1 DEF PressRun, uiVars, detailVars, TypeInv, TypeOK
  <2>3. NewestRun'
    BY <1>0, <2>2 DEF NewestRun
  <2> QED BY <1>1, <2>1, <2>2, <2>3
<1>3. ASSUME NEW r \in Runs, ThreadStart(r) PROVE Goal
  <2>1. /\ UNCHANGED <<task, result, stored, queue, live, screen, detail, missed>>
        /\ thread' = [thread EXCEPT ![r] = "evaluating"]
        /\ at' = [at EXCEPT ![r] = clock + 1]
    BY <1>3 DEF ThreadStart, uiVars, detailVars
  <2>2. ScreensTrue' /\ LastNewsTrue' /\ NewsFollow' /\ Stored' = Stored
    BY <1>1, <2>1
  <2>3. \A o \in stored : o.at < clock + 1
    <3>1. clock \in Nat /\ \A o \in stored : o.at \in 1..clock
      BY <1>0 DEF TypeInv
    <3> QED BY <3>1
  <2>4. /\ thread'[r] = "evaluating" /\ at'[r] = clock + 1
        /\ \A q \in Runs \ {r} : thread'[q] = thread[q] /\ at'[q] = at[q]
    BY <1>0, <2>1 DEF TypeInv, TypeOK
  <2>5. NewestRun'
    BY <1>0, <2>1, <2>2, <2>3, <2>4 DEF NewestRun
  <2> QED BY <2>2, <2>5
<1>4. ASSUME NEW r \in Runs, FinishRun(r) PROVE Goal
  <2>1. /\ UNCHANGED <<task, result, at, stored, queue, live, screen, detail, missed>>
        /\ thread[r] = "recorded" /\ thread' = [thread EXCEPT ![r] = "returned"]
    BY <1>4 DEF FinishRun, uiVars, detailVars
  <2>2. ScreensTrue' /\ LastNewsTrue' /\ NewsFollow' /\ Stored' = Stored
    BY <1>1, <2>1
  <2>3. thread'[r] = "returned" /\ \A q \in Runs \ {r} : thread'[q] = thread[q]
    BY <1>0, <2>1 DEF TypeInv, TypeOK
  <2>4. NewestRun'
    BY <1>0, <2>1, <2>2, <2>3 DEF NewestRun
  <2> QED BY <2>2, <2>4
<1>5. ASSUME NEW r \in Runs PROVE ~ThreadRaises(r)
  BY <1>0 DEF ThreadRaises, Undisturbed, TypeInv, TypeOK
<1>6. ~OtherRun
  BY <1>0, StaysDisturbed
<1>7. ASSUME OpenDetail \/ Cover \/ Uncover \/ CloseDetail \/ Repaint \/ UNCHANGED vars PROVE Goal
  <2>1. /\ UNCHANGED <<queue, live, stored, result, task, thread, at>>
        /\ \/ UNCHANGED <<screen, detail, missed>> \/ OpenDetail \/ CloseDetail
    BY <1>7 DEF OpenDetail, Cover, Uncover, CloseDetail, Repaint, vars, workVars, uiVars,
                detailVars
  <2>2. ScreensTrue' /\ LastNewsTrue' /\ NewsFollow' /\ Stored' = Stored
    BY <1>1, <2>1
  <2>3. NewestRun'
    BY <1>0, <2>1, <2>2 DEF NewestRun
  <2> QED BY <2>2, <2>3
<1>8. ASSUME NEW r \in Runs, StartTask(r) PROVE Goal
  BY <1>0, <1>8, DetailStart
<1>9. ASSUME NEW r \in Runs, EvaluateCheck(r) \/ RecordObservations(r) \/ EndTask(r) PROVE Goal
  BY <1>0, <1>9, DetailResult, DetailWrite, DetailEnd
<1>10. ASSUME Handle PROVE Goal
  BY <1>0, <1>10, DetailHandle
<1> QED BY <1>2, <1>3, <1>4, <1>5, <1>6, <1>7, <1>8, <1>9, <1>10 DEF Next, User, Thread

\* With no message outstanding a detail screen that was not covered when its
\* cells should have changed shows the newest status of each check
\* (DetailAgrees), as long as no run was superseded or failed and no other
\* process stores any.
THEOREM DetailIsCurrent == Spec => []DetailAgrees
<1>1. Init => DetailInv
  <2> SUFFICES ASSUME Init PROVE DetailInv
    OBVIOUS
  <2>1. \A r \in Runs : task[r] = "none" /\ thread[r] = "none"
    BY DEF Init
  <2>2. /\ \A k : StoreStatus(k) = NoStatus /\ LiveStatus(live, k) = NoStatus
        /\ DOMAIN queue = {} /\ screen = Home
    BY DEF Init, StoreStatus, LiveStatus
  <2>3. \A k \in Checks : Opened[k] = Stored[k] /\ screen # ObjectOf[k]
    BY <2>2, TuiRunAssumption DEF Opened, Stored
  <2>4. ScreensTrue
    BY <2>1, <2>3 DEF ScreensTrue, Truly
  <2> QED BY <2>1, <2>2, <2>4 DEF DetailInv, LastNewsTrue, NewsFollow, NewestRun
<1>2. IInv /\ DetailInv /\ [Next]_vars => DetailInv'
  BY DetailKept
<1>3. IInv /\ DetailInv => DetailAgrees
  <2> SUFFICES ASSUME IInv, DetailInv, queue = <<>>, Undisturbed, screen # Home, ~missed,
                      NEW k \in ChecksOf(screen)
               PROVE  detail[k] = Latest(k)
    BY DEF DetailAgrees
  <2>1. TypeInv /\ WorkInv /\ ScreensTrue /\ Due = {}
    BY DEF IInv, DetailInv, Due
  <2>2. k \in Checks /\ screen = ObjectOf[k]
    BY DEF ChecksOf
  <2>3. Truly(task, result, Stored, k, detail[k])
    BY <2>1, <2>2 DEF ScreensTrue
  <2>4. CASE \E r \in Runs : task[r] = "running" /\ k \in DOMAIN result[r]
    <3>1. PICK r \in Runs : task[r] = "running" /\ k \in DOMAIN result[r]
      BY <2>4
    <3>2. \A q \in Runs : task[q] = "running" => q = r
      BY <2>1, <3>1, OneUnderWay
    <3>3. (CHOOSE q \in Runs : task[q] = "running") = r
      BY <3>1, <3>2
    <3>4. Latest(k) = result[r][k]
      BY <2>4, <3>3 DEF Latest
    <3> QED BY <2>3, <3>1, <3>4 DEF Truly
  <2>5. CASE ~\E r \in Runs : task[r] = "running" /\ k \in DOMAIN result[r]
    <3>1. Latest(k) = Stored[k]
      BY <2>2, <2>5 DEF Latest, Stored
    <3> QED BY <2>3, <2>5, <3>1 DEF Truly
  <2> QED BY <2>4, <2>5
<1> QED BY <1>1, <1>2, <1>3, RunsCorrect, PTL DEF Spec
=============================================================================
