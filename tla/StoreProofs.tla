----------------------------- MODULE StoreProofs ----------------------------
(***************************************************************************)
(* TLAPS proofs about RunStore, for any number of calls, checks, sources   *)
(* and ticks, and about StoreSessions, for any number of processes,        *)
(* readers, checks and added columns.  The store invariants need one       *)
(* hypothesis on the constants: no call outlives the retention of a prune  *)
(* (MaxRunTime <= Retain).                                                 *)
(***************************************************************************)
EXTENDS StoreSessions, TLAPS

\* A worst status is always one a run row may store.
LEMMA WorstStatusType ==
  ASSUME NEW S, S \subseteq Status
  PROVE  WorstStatus(S) \in Status
<1> DEFINE R == {Severity[s] : s \in S} \cup {0}
<1>1. \A s \in Status : Severity[s] \in 0..3
  BY DEF Status, Severity
<1>2. R \subseteq 0..3
  BY <1>1
<1>3. \E r \in 0..3 : r \in R /\ \A s \in S : Severity[s] <= r
  <2>1. CASE 3 \in R
    BY <2>1, <1>1, <1>2
  <2>2. CASE 3 \notin R /\ 2 \in R
    BY <2>2, <1>1, <1>2
  <2>3. CASE 3 \notin R /\ 2 \notin R /\ 1 \in R
    BY <2>3, <1>1, <1>2
  <2>4. CASE 3 \notin R /\ 2 \notin R /\ 1 \notin R
    BY <2>4, <1>1, <1>2
  <2> QED BY <2>1, <2>2, <2>3, <2>4
<1>4. WorstRank(S) \in 0..3
  BY <1>3 DEF WorstRank
<1> QED BY <1>4 DEF WorstStatus, RankStatus, Status

-----------------------------------------------------------------------------
(* Types.                                                                  *)

\* --only and object filters select configured checks, never others.
LEMMA SelectionsType == \A selected \in Selections : selected \subseteq Checks
  BY DEF Selections, FilterChecks

\* The row inserted for a result is well formed once the call has a run_id.
LEMMA RowOfType ==
  ASSUME TypeOK, NEW c \in Calls, runId[c] # 0, NEW r \in results[c]
  PROVE  RowOf(c, r) \in ObsRow
<1>1. r \in Result /\ now[c] \in Nat /\ runId[c] \in Nat \ {0}
  BY DEF TypeOK
<1> QED BY <1>1 DEF RowOf, ObsRow, Result

\* An empty store and calls that have not begun are well typed.
LEMMA InitTypeOK == Init => TypeOK
  BY RunStoreAssumption DEF Init, TypeOK, Phase

\* A call that got a run row has a run_id; with TypeOK it is inductive.
Numbered == \A c \in Calls : pc[c] \in Open => runId[c] # 0

\* Every step of a call, every fault, a prune and a tick preserve the types.
LEMMA TypeStep ==
  TypeOK /\ Numbered /\ [Next]_vars => TypeOK' /\ Numbered'
<1> SUFFICES ASSUME TypeOK, Numbered, [Next]_vars
             PROVE  TypeOK' /\ Numbered'
  OBVIOUS
<1> USE DEF Goto, Phase, Open
<1>1. ASSUME NEW c \in Calls, Begin(c) PROVE TypeOK' /\ Numbered'
  <2>1. PICK selected \in Selections :
          /\ scope' = [scope EXCEPT ![c] = selected]
          /\ untried' = [untried EXCEPT ![c] = Referenced(selected)]
    BY <1>1 DEF Begin
  <2>2. selected \subseteq Checks /\ Referenced(selected) \subseteq Sources
    BY SelectionsType, RunStoreAssumption DEF Referenced
  <2>3. TypeOK'
    BY <1>1, <2>1, <2>2 DEF Begin, TypeOK
  <2>4. Numbered'
    BY <1>1 DEF Begin, TypeOK, Numbered
  <2> QED BY <2>3, <2>4
<1>2. ASSUME NEW c \in Calls, Connect(c) PROVE TypeOK' /\ Numbered'
  BY <1>2 DEF Connect, TypeOK, Numbered
<1>3. ASSUME NEW c \in Calls, Connected(c) PROVE TypeOK' /\ Numbered'
  BY <1>3 DEF Connected, TypeOK, Numbered, callVars
<1>4. ASSUME NEW c \in Calls, StartRun(c) PROVE TypeOK' /\ Numbered'
  <2>1. PICK id \in {1} \cup {i + 1 : i \in DOMAIN runTable} :
          /\ runTable' = [i \in DOMAIN runTable \cup {id} |->
                            IF i = id THEN [started |-> now[c],
                                            status |-> "RUNNING",
                                            finished |-> FALSE]
                            ELSE runTable[i]]
          /\ runId' = [runId EXCEPT ![c] = id]
    BY <1>4 DEF StartRun
  <2>2. id \in Nat \ {0}
    BY <2>1 DEF TypeOK
  <2>3. [started |-> now[c], status |-> "RUNNING", finished |-> FALSE] \in RunRow
    BY DEF TypeOK, RunRow
  <2>4. DOMAIN runTable' \subseteq Nat \ {0}
    BY <2>1, <2>2 DEF TypeOK
  <2>5. \A i \in DOMAIN runTable' : runTable'[i] \in RunRow
    BY <2>1, <2>3 DEF TypeOK
  <2>6. TypeOK'
    BY <1>4, <2>1, <2>2, <2>4, <2>5 DEF StartRun, TypeOK
  <2>7. Numbered'
    BY <1>4, <2>1, <2>2 DEF StartRun, TypeOK, Numbered
  <2> QED BY <2>6, <2>7
<1>5. ASSUME NEW c \in Calls, Evaluate(c) PROVE TypeOK' /\ Numbered'
  <2>1. PICK k \in scope[c] : \E s \in StatusesFor(c, k) :
          results' = [results EXCEPT ![c] = @ \cup {[check |-> k, status |-> s]}]
    BY <1>5 DEF Evaluate
  <2>2. PICK s \in StatusesFor(c, k) :
          results' = [results EXCEPT ![c] = @ \cup {[check |-> k, status |-> s]}]
    BY <2>1
  <2>3. k \in Checks /\ s \in Status
    BY RunStoreAssumption DEF TypeOK, StatusesFor, Status
  <2>4. [check |-> k, status |-> s] \in Result
    BY <2>3 DEF Result
  <2>5. TypeOK'
    BY <1>5, <2>2, <2>4 DEF Evaluate, TypeOK
  <2>6. Numbered'
    BY <1>5 DEF Evaluate, Numbered
  <2> QED BY <2>5, <2>6
<1>6. ASSUME NEW c \in Calls, FinishEvaluation(c) PROVE TypeOK' /\ Numbered'
  BY <1>6 DEF FinishEvaluation, TypeOK, Numbered
<1>7. ASSUME NEW c \in Calls, InsertObservation(c) PROVE TypeOK' /\ Numbered'
  <2>1. PICK row \in RowsOf(c) :
          pending' = [pending EXCEPT ![c] = @ \cup {row}]
    BY <1>7 DEF InsertObservation
  <2>2. row \in ObsRow
    BY <1>7, RowOfType DEF InsertObservation, RowsOf, Numbered
  <2>3. TypeOK'
    BY <1>7, <2>1, <2>2 DEF InsertObservation, TypeOK
  <2>4. Numbered'
    BY <1>7 DEF InsertObservation, Numbered
  <2> QED BY <2>3, <2>4
<1>8. ASSUME NEW c \in Calls, CommitObservations(c) PROVE TypeOK' /\ Numbered'
  BY <1>8 DEF CommitObservations, TypeOK, Numbered
<1>9. ASSUME NEW c \in Calls, FinishRun(c) PROVE TypeOK' /\ Numbered'
  <2> DEFINE row(i) == [started |-> runTable[i].started,
                        status |-> WorstStatus({r.status : r \in results[c]}),
                        finished |-> TRUE]
  <2>1. {r.status : r \in results[c]} \subseteq Status
    BY DEF TypeOK, Result
  <2>2. \A i \in DOMAIN runTable : row(i) \in RunRow
    BY <2>1, WorstStatusType DEF TypeOK, RunRow
  <2>3. runTable' = [i \in DOMAIN runTable |->
                       IF i = runId[c] THEN row(i) ELSE runTable[i]]
    BY <1>9 DEF FinishRun
  <2> HIDE DEF row
  <2>4. /\ DOMAIN runTable' \subseteq Nat \ {0}
        /\ \A i \in DOMAIN runTable' : runTable'[i] \in RunRow
    BY <2>2, <2>3 DEF TypeOK
  <2>5. TypeOK'
    BY <1>9, <2>4 DEF FinishRun, TypeOK, callVars
  <2>6. Numbered'
    BY <1>9 DEF FinishRun, TypeOK, Numbered, callVars
  <2> QED BY <2>5, <2>6
<1>10. ASSUME NEW c \in Calls, EvaluationRaises(c) PROVE TypeOK' /\ Numbered'
  BY <1>10 DEF EvaluationRaises, TypeOK, Numbered
<1>11. ASSUME NEW c \in Calls, WriteFails(c) PROVE TypeOK' /\ Numbered'
  BY <1>11 DEF WriteFails, Rollback, TypeOK, Numbered
<1>12. ASSUME NEW c \in Calls, Crash(c) PROVE TypeOK' /\ Numbered'
  BY <1>12 DEF Crash, Rollback, TypeOK, Numbered
<1>13. CASE Prune
  <2>1. /\ obsTable' \subseteq obsTable
        /\ DOMAIN runTable' \subseteq DOMAIN runTable
        /\ \A i \in DOMAIN runTable' : runTable'[i] = runTable[i]
    BY <1>13 DEF Prune
  <2>2. UNCHANGED <<clock, writer, pc, callVars>>
    BY <1>13 DEF Prune
  <2> QED BY <2>1, <2>2 DEF TypeOK, Numbered, callVars
<1>14. CASE Tick
  BY <1>14 DEF Tick, TypeOK, Numbered, callVars
<1>15. CASE UNCHANGED vars
  BY <1>15 DEF vars, callVars, TypeOK, Numbered
<1> QED
  BY <1>1, <1>2, <1>3, <1>4, <1>5, <1>6, <1>7, <1>8, <1>9, <1>10, <1>11,
     <1>12, <1>13, <1>14, <1>15 DEF Next, Step, Fault

\* Type correctness: whatever calls, prunes and crashes do, the tables hold
\* well-formed rows and every call's local state keeps its shape.
THEOREM TypeCorrect == Spec => []TypeOK
<1>1. Init => TypeOK /\ Numbered
  BY InitTypeOK DEF Init, Numbered, Open
<1> QED BY <1>1, TypeStep, PTL DEF Spec

-----------------------------------------------------------------------------
(* The store invariants, under the retention hypothesis.                   *)

\* What each step below shows beside types: StoreInv without TypeOK.
StoreParts ==
  /\ WithinRunTime
  /\ StampedWithStart
  /\ OwnRunRow
  /\ OneResultPerCheck
  /\ AllOrNothingSoFar
  /\ OneRowPerCheck
  /\ FinishedRunComplete

\* The invariants hold of the empty store.
LEMMA StorePartsInit == Init => StoreParts
  BY DEF Init, StoreParts, WithinRunTime, InFlight, Ended, StampedWithStart,
         OwnRunRow, OneResultPerCheck, AllOrNothingSoFar, OneRowPerCheck,
         FinishedRunComplete, ObsOf, Open

\* A step that touches neither table, no run_id and no result, resolves `now`
\* only for a call that starts, and opens no run row, keeps every part.
LEMMA LocalStep ==
  ASSUME TypeOK, TypeOK', StoreParts,
         UNCHANGED <<clock, runTable, obsTable, runId, results>>,
         \A d \in Calls :
           /\ InFlight(d)' => \/ InFlight(d) /\ now'[d] = now[d]
                              \/ now'[d] = clock
           /\ pc'[d] \in Open => /\ pc[d] \in Open
                                 /\ pc'[d] = "finishing" <=> pc[d] = "finishing"
                                 /\ now'[d] = now[d]
  PROVE  StoreParts'
<1>1. WithinRunTime'
  BY RunStoreAssumption DEF StoreParts, TypeOK, WithinRunTime
<1>2. StampedWithStart' /\ OneResultPerCheck' /\ OneRowPerCheck'
  BY DEF StoreParts, StampedWithStart, OneResultPerCheck, OneRowPerCheck
<1>3. FinishedRunComplete'
  BY DEF StoreParts, FinishedRunComplete, ObsOf
<1>4. OwnRunRow'
  BY DEF StoreParts, OwnRunRow
<1>5. AllOrNothingSoFar'
  <2> SUFFICES ASSUME NEW d \in Calls, pc'[d] \in Open
               PROVE  /\ pc'[d] \in {"evaluating", "recording"} => ObsOf(runId[d])' = {}
                      /\ pc'[d] = "finishing" => ObsOf(runId[d])' = RowsOf(d)'
    BY DEF AllOrNothingSoFar, Open
  <2>1. ObsOf(runId[d])' = ObsOf(runId[d])
    BY DEF ObsOf
  <2>2. RowsOf(d)' = RowsOf(d)
    BY DEF RowsOf, RowOf
  <2> QED BY <2>1, <2>2 DEF StoreParts, AllOrNothingSoFar, Open
<1> QED BY <1>1, <1>2, <1>3, <1>4, <1>5 DEF StoreParts

\* start_run: the new id is in use nowhere, so no stored row can be its own.
LEMMA StartRunStep ==
  ASSUME TypeOK, StoreParts, NEW c \in Calls, StartRun(c)
  PROVE  StoreParts'
<1>1. PICK id \in {1} \cup {i + 1 : i \in DOMAIN runTable} :
        /\ NextRunId(id)
        /\ runTable' = [i \in DOMAIN runTable \cup {id} |->
                          IF i = id THEN [started |-> now[c],
                                          status |-> "RUNNING",
                                          finished |-> FALSE]
                          ELSE runTable[i]]
        /\ runId' = [runId EXCEPT ![c] = id]
  BY DEF StartRun
<1>2. id \notin DOMAIN runTable
  BY <1>1 DEF NextRunId
<1>3. /\ pc' = [pc EXCEPT ![c] = "evaluating"]
      /\ UNCHANGED <<clock, obsTable, now, results>>
      /\ pc[c] = "opening"
  BY DEF StartRun, Goto
<1>4. /\ DOMAIN runTable' = DOMAIN runTable \cup {id}
      /\ \A i \in DOMAIN runTable : runTable'[i] = runTable[i]
      /\ runTable'[id].started = now[c]
      /\ runTable'[id].finished = FALSE
  BY <1>1, <1>2
<1>5. runId'[c] = id /\ \A d \in Calls \ {c} : runId'[d] = runId[d]
  BY <1>1 DEF TypeOK
<1>6. pc'[c] = "evaluating" /\ \A d \in Calls \ {c} : pc'[d] = pc[d]
  BY <1>3 DEF TypeOK
<1>7. WithinRunTime'
  BY <1>3, <1>6 DEF StoreParts, WithinRunTime, InFlight, Ended
<1>8. StampedWithStart'
  BY <1>3, <1>4 DEF StoreParts, StampedWithStart
<1>9. OwnRunRow'
  BY <1>2, <1>3, <1>4, <1>5, <1>6 DEF StoreParts, OwnRunRow, Open
<1>10. OneResultPerCheck' /\ OneRowPerCheck'
  BY <1>3 DEF StoreParts, OneResultPerCheck, OneRowPerCheck
<1>11. ObsOf(id)' = {}
  BY <1>2, <1>3 DEF StoreParts, StampedWithStart, ObsOf
<1>12. AllOrNothingSoFar'
  <2>1. \A d \in Calls \ {c} : /\ ObsOf(runId[d])' = ObsOf(runId[d])
                               /\ RowsOf(d)' = RowsOf(d)
    BY <1>3, <1>5 DEF ObsOf, RowsOf, RowOf
  <2>2. ObsOf(runId[c])' = {}
    BY <1>5, <1>11 DEF ObsOf
  <2> QED BY <2>1, <2>2, <1>6 DEF StoreParts, AllOrNothingSoFar
<1>13. FinishedRunComplete'
  BY <1>3, <1>4 DEF StoreParts, FinishedRunComplete, ObsOf
<1> QED
  BY <1>7, <1>8, <1>9, <1>10, <1>12, <1>13 DEF StoreParts

\* One more result of an evaluating call, for a check it has no result for.
LEMMA EvaluateStep ==
  ASSUME TypeOK, StoreParts, NEW c \in Calls, Evaluate(c)
  PROVE  StoreParts'
<1>1. PICK k \in scope[c] \ {r.check : r \in results[c]} : \E s \in StatusesFor(c, k) :
        results' = [results EXCEPT ![c] = @ \cup {[check |-> k, status |-> s]}]
  BY DEF Evaluate
<1>2. PICK s \in StatusesFor(c, k) :
        results' = [results EXCEPT ![c] = @ \cup {[check |-> k, status |-> s]}]
  BY <1>1
<1>3. /\ UNCHANGED <<clock, runTable, obsTable, pc, now, runId>>
      /\ pc[c] = "evaluating"
  BY DEF Evaluate
<1>4. OneResultPerCheck'
  <2>1. \A r \in results[c] : r.check # k
    BY <1>1
  <2>2. /\ results'[c] = results[c] \cup {[check |-> k, status |-> s]}
        /\ \A d \in Calls \ {c} : results'[d] = results[d]
    BY <1>2 DEF TypeOK
  <2> QED BY <2>1, <2>2 DEF StoreParts, OneResultPerCheck
<1>5. AllOrNothingSoFar'
  <2>1. \A d \in Calls \ {c} : RowsOf(d)' = RowsOf(d)
    BY <1>2, <1>3 DEF TypeOK, RowsOf, RowOf
  <2>2. \A d \in Calls : ObsOf(runId[d])' = ObsOf(runId[d])
    BY <1>3 DEF ObsOf
  <2> QED BY <2>1, <2>2, <1>3 DEF StoreParts, AllOrNothingSoFar
<1>6. WithinRunTime'
  BY <1>3 DEF StoreParts, WithinRunTime, InFlight
<1>7. StampedWithStart' /\ OwnRunRow' /\ OneRowPerCheck'
  BY <1>3 DEF StoreParts, StampedWithStart, OwnRunRow, OneRowPerCheck
<1>8. FinishedRunComplete'
  BY <1>3 DEF StoreParts, FinishedRunComplete, ObsOf
<1> QED BY <1>4, <1>5, <1>6, <1>7, <1>8 DEF StoreParts

\* The commit of record_observations: all rows of one run, under an id whose
\* row is unfinished and that no stored observation carries yet.
LEMMA CommitStep ==
  ASSUME TypeOK, StoreParts, NEW c \in Calls, CommitObservations(c)
  PROVE  StoreParts'
<1>1. /\ obsTable' = obsTable \cup RowsOf(c)
      /\ pc' = [pc EXCEPT ![c] = "finishing"]
      /\ pc[c] = "recording"
      /\ UNCHANGED <<clock, runTable, now, results, runId>>
  BY DEF CommitObservations, Goto
<1>2. pc'[c] = "finishing" /\ \A d \in Calls \ {c} : pc'[d] = pc[d]
  BY <1>1 DEF TypeOK
<1>3. \A o \in RowsOf(c) : o.run = runId[c] /\ o.at = now[c]
  BY DEF RowsOf, RowOf
<1>4. /\ runId[c] \in DOMAIN runTable
      /\ ~runTable[runId[c]].finished
      /\ runTable[runId[c]].started = now[c]
      /\ \A d \in Calls \ {c} : pc[d] \in Open => runId[d] # runId[c]
  BY <1>1 DEF StoreParts, OwnRunRow, Open
<1>5. ObsOf(runId[c]) = {}
  BY <1>1 DEF StoreParts, AllOrNothingSoFar
<1>6. ObsOf(runId[c])' = RowsOf(c)
  BY <1>1, <1>3, <1>5 DEF ObsOf
<1>7. \A i : i # runId[c] => ObsOf(i)' = ObsOf(i)
  BY <1>1, <1>3 DEF ObsOf
<1>8. StampedWithStart'
  BY <1>1, <1>3, <1>4 DEF StoreParts, StampedWithStart
<1>9. OwnRunRow'
  BY <1>1, <1>2 DEF StoreParts, OwnRunRow, Open
<1>10. AllOrNothingSoFar'
  <2> SUFFICES ASSUME NEW d \in Calls, pc'[d] \in Open
               PROVE  /\ pc'[d] \in {"evaluating", "recording"} => ObsOf(runId[d])' = {}
                      /\ pc'[d] = "finishing" => ObsOf(runId[d])' = RowsOf(d)'
    BY DEF AllOrNothingSoFar, Open
  <2>1. RowsOf(d)' = RowsOf(d)
    BY <1>1 DEF RowsOf, RowOf
  <2>2. CASE d = c
    BY <2>1, <2>2, <1>1, <1>2, <1>6
  <2>3. CASE d # c
    <3>1. runId[d] # runId[c] /\ pc'[d] = pc[d] /\ runId'[d] = runId[d]
      BY <2>3, <1>1, <1>2, <1>4
    <3>2. ObsOf(runId[d])' = ObsOf(runId[d])
      BY <3>1, <1>7, <1>1 DEF ObsOf
    <3> QED BY <3>1, <3>2, <2>1 DEF StoreParts, AllOrNothingSoFar
  <2> QED BY <2>2, <2>3
<1>11. OneRowPerCheck'
  <2>1. \A q, r \in RowsOf(c) : q.check = r.check => q = r
    BY DEF StoreParts, OneResultPerCheck, RowsOf, RowOf
  <2>2. \A o \in obsTable : o.run # runId[c]
    BY <1>5 DEF ObsOf
  <2> QED BY <2>1, <2>2, <1>1, <1>3 DEF StoreParts, OneRowPerCheck
<1>12. FinishedRunComplete'
  BY <1>1, <1>4, <1>7 DEF StoreParts, FinishedRunComplete
<1>13. WithinRunTime' /\ OneResultPerCheck'
  BY <1>1, <1>2 DEF StoreParts, WithinRunTime, OneResultPerCheck, InFlight, Ended
<1> QED BY <1>8, <1>9, <1>10, <1>11, <1>12, <1>13 DEF StoreParts

\* finish_run: the status it stamps is the worst of the rows its own call
\* committed one step earlier, and nothing was added or pruned since.
LEMMA FinishRunStep ==
  ASSUME TypeOK, StoreParts, NEW c \in Calls, FinishRun(c)
  PROVE  StoreParts'
<1> DEFINE worst == WorstStatus({r.status : r \in results[c]})
<1>1. /\ DOMAIN runTable' = DOMAIN runTable
      /\ \A i \in DOMAIN runTable : i # runId[c] => runTable'[i] = runTable[i]
      /\ runId[c] \in DOMAIN runTable =>
           /\ runTable'[runId[c]].started = runTable[runId[c]].started
           /\ runTable'[runId[c]].status = worst
      /\ UNCHANGED <<clock, obsTable, now, results, runId>>
      /\ pc' = [pc EXCEPT ![c] = "done"]
      /\ pc[c] = "finishing"
  BY DEF FinishRun, Goto, callVars
<1> HIDE DEF worst
<1>2. pc'[c] = "done" /\ \A d \in Calls \ {c} : pc'[d] = pc[d]
  BY <1>1 DEF TypeOK
<1>3. \A d \in Calls \ {c} : pc[d] \in Open => runId[d] # runId[c]
  BY <1>1 DEF StoreParts, OwnRunRow, Open
<1>4. \A i : ObsOf(i)' = ObsOf(i)
  BY <1>1 DEF ObsOf
<1>5. StampedWithStart'
  BY <1>1 DEF StoreParts, StampedWithStart
<1>6. OwnRunRow'
  BY <1>1, <1>2, <1>3 DEF StoreParts, OwnRunRow, Open
<1>7. AllOrNothingSoFar'
  <2>1. \A d \in Calls : RowsOf(d)' = RowsOf(d)
    BY <1>1 DEF RowsOf, RowOf
  <2>2. \A d \in Calls : ObsOf(runId[d])' = ObsOf(runId[d])
    BY <1>1 DEF ObsOf
  <2> QED BY <2>1, <2>2, <1>2 DEF StoreParts, AllOrNothingSoFar
<1>8. FinishedRunComplete'
  <2>1. ObsOf(runId[c]) = RowsOf(c)
    BY <1>1 DEF StoreParts, AllOrNothingSoFar
  <2>2. {o.status : o \in ObsOf(runId[c])} = {r.status : r \in results[c]}
    <3>1. \A r : RowOf(c, r).status = r.status
      BY DEF RowOf
    <3>2. {o.status : o \in {RowOf(c, r) : r \in results[c]}} = {r.status : r \in results[c]}
      BY <3>1
    <3> QED BY <2>1, <3>2 DEF RowsOf
  <2>3. worst = WorstStatus({o.status : o \in ObsOf(runId[c])})
    BY <2>2 DEF worst
  <2> QED BY <2>3, <1>1, <1>4 DEF StoreParts, FinishedRunComplete
<1>9. WithinRunTime' /\ OneResultPerCheck' /\ OneRowPerCheck'
  BY <1>1, <1>2 DEF StoreParts, WithinRunTime, OneResultPerCheck,
                    OneRowPerCheck, InFlight, Ended
<1> QED BY <1>5, <1>6, <1>7, <1>8, <1>9 DEF StoreParts

\* A prune deletes or keeps each run with all its rows, since they share one
\* timestamp, and its cutoff lies at or before the `now` of every call in
\* flight: this is where the retention hypothesis is needed.
LEMMA PruneStep ==
  ASSUME TypeOK, StoreParts, MaxRunTime <= Retain, Prune
  PROVE  StoreParts'
<1>1. PICK resolved \in 0..clock :
        LET cutoff == resolved - Retain
            keptObs == {o \in obsTable : o.at >= cutoff}
            keptRuns == {i \in DOMAIN runTable :
                           \/ runTable[i].started >= cutoff
                           \/ \E o \in keptObs : o.run = i}
        IN /\ obsTable' = keptObs
           /\ runTable' = [i \in keptRuns |-> runTable[i]]
  BY DEF Prune
<1> DEFINE cutoff == resolved - Retain
<1>2. cutoff \in Int /\ cutoff <= clock - Retain
  BY RunStoreAssumption DEF TypeOK
<1>3. obsTable' = {o \in obsTable : o.at >= cutoff}
  BY <1>1
<1>4. DOMAIN runTable' = {i \in DOMAIN runTable :
                            \/ runTable[i].started >= cutoff
                            \/ \E o \in obsTable' : o.run = i}
  BY <1>1
<1>5. \A i \in DOMAIN runTable' : runTable'[i] = runTable[i]
  BY <1>1
<1>6. UNCHANGED <<clock, pc, now, results, runId>>
  BY DEF Prune, callVars
<1> HIDE DEF cutoff
<1>7. \A c \in Calls : InFlight(c) => now[c] >= cutoff
  BY <1>2, RunStoreAssumption DEF StoreParts, WithinRunTime, TypeOK
<1>8. \A i \in DOMAIN runTable :
        /\ runTable[i].started >= cutoff => i \in DOMAIN runTable' /\ ObsOf(i)' = ObsOf(i)
        /\ ~(runTable[i].started >= cutoff) => i \notin DOMAIN runTable' /\ ObsOf(i)' = {}
  BY <1>3, <1>4 DEF StoreParts, StampedWithStart, ObsOf
<1>9. \A c \in Calls : pc[c] \in Open =>
        /\ runId[c] \in DOMAIN runTable /\ runId[c] \in DOMAIN runTable'
        /\ runTable'[runId[c]] = runTable[runId[c]]
        /\ ObsOf(runId[c])' = ObsOf(runId[c])
  <2> SUFFICES ASSUME NEW c \in Calls, pc[c] \in Open
               PROVE  /\ runId[c] \in DOMAIN runTable /\ runId[c] \in DOMAIN runTable'
                      /\ runTable'[runId[c]] = runTable[runId[c]]
                      /\ ObsOf(runId[c])' = ObsOf(runId[c])
    OBVIOUS
  <2>1. InFlight(c)
    BY DEF InFlight, Ended, Open
  <2>2. runId[c] \in DOMAIN runTable /\ runTable[runId[c]].started >= cutoff
    BY <2>1, <1>7 DEF StoreParts, OwnRunRow
  <2>3. ObsOf(runId[c])' = {o \in obsTable' : o.run = runId[c]}
    BY <1>6 DEF ObsOf
  <2> QED BY <2>2, <2>3, <1>5, <1>8 DEF ObsOf
<1>10. StampedWithStart'
  BY <1>3, <1>4, <1>5 DEF StoreParts, StampedWithStart
<1>11. OwnRunRow'
  BY <1>6, <1>9 DEF StoreParts, OwnRunRow
<1>12. AllOrNothingSoFar'
  <2>1. \A c \in Calls : RowsOf(c)' = RowsOf(c)
    BY <1>6 DEF RowsOf, RowOf
  <2> QED BY <2>1, <1>6, <1>9 DEF StoreParts, AllOrNothingSoFar, Open
<1>13. FinishedRunComplete'
  BY <1>4, <1>5, <1>8 DEF StoreParts, FinishedRunComplete
<1>14. WithinRunTime' /\ OneResultPerCheck' /\ OneRowPerCheck'
  BY <1>3, <1>6 DEF StoreParts, WithinRunTime, OneResultPerCheck,
                    OneRowPerCheck, InFlight
<1> QED BY <1>10, <1>11, <1>12, <1>13, <1>14 DEF StoreParts

\* Time passes only while every call in flight stays within MaxRunTime.
LEMMA TickStep ==
  ASSUME TypeOK, StoreParts, Tick
  PROVE  StoreParts'
<1>1. UNCHANGED <<runTable, obsTable, pc, now, results, runId>>
  BY DEF Tick, callVars
<1>2. clock' = clock + 1 /\ \A c \in Calls : InFlight(c) => clock - now[c] < MaxRunTime
  BY DEF Tick
<1>3. WithinRunTime'
  BY <1>1, <1>2, RunStoreAssumption
     DEF TypeOK, StoreParts, WithinRunTime, InFlight
<1> QED
  BY <1>1, <1>3 DEF StoreParts, StampedWithStart, OwnRunRow, OneResultPerCheck,
     AllOrNothingSoFar, OneRowPerCheck, FinishedRunComplete, ObsOf, RowsOf, RowOf

\* Every step preserves the store invariants; the lemmas above take the
\* steps that write to a table or to results one by one.
LEMMA StoreStep ==
  ASSUME MaxRunTime <= Retain, TypeOK, TypeOK', StoreParts, [Next]_vars
  PROVE  StoreParts'
<1> USE DEF Goto, Open, InFlight, Ended
<1>1. ASSUME NEW c \in Calls, Begin(c) PROVE StoreParts'
  BY <1>1, LocalStep DEF Begin, TypeOK
<1>2. ASSUME NEW c \in Calls, Connect(c) PROVE StoreParts'
  BY <1>2, LocalStep DEF Connect, TypeOK
<1>3. ASSUME NEW c \in Calls, Connected(c) PROVE StoreParts'
  BY <1>3, LocalStep DEF Connected, TypeOK, callVars
<1>4. ASSUME NEW c \in Calls, FinishEvaluation(c) PROVE StoreParts'
  BY <1>4, LocalStep DEF FinishEvaluation, TypeOK
<1>5. ASSUME NEW c \in Calls, InsertObservation(c) PROVE StoreParts'
  BY <1>5, LocalStep DEF InsertObservation, TypeOK
<1>6. ASSUME NEW c \in Calls, EvaluationRaises(c) PROVE StoreParts'
  BY <1>6, LocalStep DEF EvaluationRaises, TypeOK
<1>7. ASSUME NEW c \in Calls, WriteFails(c) PROVE StoreParts'
  BY <1>7, LocalStep DEF WriteFails, TypeOK
<1>8. ASSUME NEW c \in Calls, Crash(c) PROVE StoreParts'
  BY <1>8, LocalStep DEF Crash, TypeOK
<1>9. CASE UNCHANGED vars
  BY <1>9, LocalStep DEF vars, callVars, TypeOK
<1> QED
  BY <1>1, <1>2, <1>3, <1>4, <1>5, <1>6, <1>7, <1>8, <1>9, StartRunStep,
     EvaluateStep, CommitStep, FinishRunStep, PruneStep, TickStep
     DEF Next, Step, Fault

\* With retention no shorter than a run, every store invariant holds in every
\* reachable state: the tables agree with each other and with every call that
\* still writes to them.
THEOREM StoreCorrect ==
  ASSUME MaxRunTime <= Retain
  PROVE  Spec => []StoreInv
<1>1. Init => TypeOK /\ Numbered /\ StoreParts
  BY InitTypeOK, StorePartsInit DEF Init, Numbered, Open
<1>2. TypeOK /\ Numbered /\ StoreParts /\ [Next]_vars
        => TypeOK' /\ Numbered' /\ StoreParts'
  BY TypeStep, StoreStep
<1>3. TypeOK /\ StoreParts => StoreInv
  BY DEF StoreParts, StoreInv
<1> QED BY <1>1, <1>2, <1>3, PTL DEF Spec

\* latest_run and reconstruct_run never see a finished run whose rows are
\* missing, partial or at odds with its status.
THEOREM FinishedRunsAreComplete ==
  ASSUME MaxRunTime <= Retain
  PROVE  Spec => []FinishedRunComplete
<1>1. StoreInv => FinishedRunComplete
  BY DEF StoreInv
<1> QED BY <1>1, StoreCorrect, PTL

\* No observation refers to a run that is gone, without foreign_keys = ON.
THEOREM NoOrphanObservations ==
  ASSUME MaxRunTime <= Retain
  PROVE  Spec => []ReferentialIntegrity
<1>1. StoreInv => ReferentialIntegrity
  BY DEF StoreInv, StampedWithStart, ReferentialIntegrity
<1> QED BY <1>1, StoreCorrect, PTL

\* A call's run row stays its own from start_run to finish_run, although
\* run ids are reused after a prune.
THEOREM RunRowsAreOwned ==
  ASSUME MaxRunTime <= Retain
  PROVE  Spec => []OwnRunRow
<1>1. StoreInv => OwnRunRow
  BY DEF StoreInv
<1> QED BY <1>1, StoreCorrect, PTL

-----------------------------------------------------------------------------
(* Whole runs only: what a step may do to table observation.               *)

\* Only a commit adds observations, and only a prune removes any.
LEMMA WholeRunsStep ==
  ASSUME StoreInv, [Next]_vars
  PROVE  /\ \A o \in obsTable' \ obsTable :
              \E c \in Calls : o \in RowsOf(c) /\ RowsOf(c) \subseteq obsTable'
         /\ \A o \in obsTable \ obsTable' : \A p \in ObsOf(o.run) : p \notin obsTable'
<1>1. ASSUME NEW c \in Calls, CommitObservations(c)
      PROVE  obsTable' = obsTable \cup RowsOf(c)
  BY <1>1 DEF CommitObservations
<1>2. CASE Prune
  <2>1. PICK cutoff \in Int : obsTable' = {o \in obsTable : o.at >= cutoff}
    BY <1>2, RunStoreAssumption DEF Prune, StoreInv, TypeOK
  <2> QED BY <2>1 DEF StoreInv, StampedWithStart, ObsOf
<1>3. CASE UNCHANGED obsTable
  BY <1>3
<1>4. \/ \E c \in Calls : CommitObservations(c)
      \/ Prune
      \/ UNCHANGED obsTable
  BY DEF Next, Step, Fault, Begin, Connect, Connected, StartRun, Evaluate,
     FinishEvaluation, InsertObservation, FinishRun, EvaluationRaises,
     WriteFails, Crash, Tick, vars
<1> QED BY <1>1, <1>2, <1>3, <1>4

\* record_observations lands a run's rows all at once or not at all, and a
\* prune removes them all at once.
THEOREM RunsLandAndLeaveWhole ==
  ASSUME MaxRunTime <= Retain
  PROVE  Spec => WholeRunsOnly
<1>1. StoreInv /\ [Next]_vars
        => [/\ \A o \in obsTable' \ obsTable :
                 \E c \in Calls : o \in RowsOf(c) /\ RowsOf(c) \subseteq obsTable'
            /\ \A o \in obsTable \ obsTable' : \A p \in ObsOf(o.run) : p \notin obsTable'
           ]_vars
  BY WholeRunsStep
<1> QED BY <1>1, StoreCorrect, PTL DEF Spec, WholeRunsOnly

-----------------------------------------------------------------------------
(* Refinement of RunLog.                                                   *)

\* The empty store reads as the empty log.
LEMMA LogInitHolds == Init => Abstract!LogInit
  BY DEF Init, Abstract!LogInit, LogOf, FinishedIds

\* RunLog and RunStore aggregate statuses with the same operator.
LEMMA SameWorst == \A S : Abstract!WorstStatus(S) = WorstStatus(S)
  BY DEF WorstStatus, Abstract!WorstStatus, WorstRank, Abstract!WorstRank,
         RankStatus, Abstract!RankStatus, Severity, Abstract!Severity,
         Status, Abstract!Status

\* Steps that publish nothing and prune nothing are invisible in the log.
LEMMA StutterStep ==
  ASSUME StoreInv,
         \A i \in FinishedIds : /\ i \in DOMAIN runTable'
                                /\ runTable'[i] = runTable[i]
                                /\ ObsOf(i)' = ObsOf(i),
         \A i \in DOMAIN runTable' : runTable'[i].finished => i \in FinishedIds
  PROVE  LogOf' = LogOf
<1>1. FinishedIds' = FinishedIds
  BY DEF FinishedIds
<1>2. \A i \in FinishedIds : EntryOf(i)' = EntryOf(i)
  BY DEF EntryOf
<1> QED BY <1>1, <1>2 DEF LogOf

\* The entry of any finished run is complete in the abstract sense.
LEMMA EntryComplete ==
  StoreInv => \A i \in FinishedIds : Abstract!Complete(EntryOf(i))
<1> SUFFICES ASSUME StoreInv, NEW i \in FinishedIds
             PROVE  Abstract!Complete(EntryOf(i))
  OBVIOUS
<1> DEFINE rows == {[check |-> o.check, status |-> o.status] : o \in ObsOf(i)}
<1>1. \A o \in ObsOf(i) : o \in ObsRow /\ o \in obsTable /\ o.run = i
  BY DEF StoreInv, TypeOK, ObsOf
<1>2. \A o \in ObsOf(i) : o.check \in Checks /\ o.status \in Status
  BY <1>1 DEF ObsRow
<1>3. rows \subseteq Abstract!Row
  BY <1>2 DEF Abstract!Row, Abstract!Status, Status
<1>4. \A q, r \in rows : q.check = r.check => q = r
  BY <1>1 DEF StoreInv, OneRowPerCheck
<1>5. {r.status : r \in rows} = {o.status : o \in ObsOf(i)}
  <2>1. \A o : [check |-> o.check, status |-> o.status].status = o.status
    OBVIOUS
  <2> QED BY <2>1
<1>6. runTable[i].status = WorstStatus({o.status : o \in ObsOf(i)})
  BY DEF StoreInv, FinishedRunComplete, FinishedIds
<1>7. runTable[i].status \in Status
  <2>1. {o.status : o \in ObsOf(i)} \subseteq Status
    BY <1>2
  <2> QED BY <2>1, <1>6, WorstStatusType
<1>8. i \in Nat \ {0} /\ runTable[i].started \in Nat
  BY DEF StoreInv, TypeOK, FinishedIds, RunRow
<1> HIDE DEF rows
<1>9. /\ EntryOf(i).rows = rows
      /\ EntryOf(i).status = runTable[i].status
      /\ EntryOf(i) = [id |-> i, started |-> runTable[i].started,
                       status |-> runTable[i].status, rows |-> rows]
  BY DEF EntryOf, rows
<1>10. EntryOf(i) \in Abstract!Entry
  BY <1>3, <1>7, <1>8, <1>9 DEF Abstract!Entry, Abstract!Status, Status
<1>11. EntryOf(i).status = Abstract!WorstStatus({r.status : r \in EntryOf(i).rows})
  BY <1>5, <1>6, <1>9, SameWorst
<1> QED BY <1>4, <1>9, <1>10, <1>11 DEF Abstract!Complete

\* The same in the next state.
LEMMA EntryCompleteNext ==
  (StoreInv => \A i \in FinishedIds : Abstract!Complete(EntryOf(i)))'
  BY EntryComplete, PTL

\* finish_run publishes: the log gains exactly the entry of the call's run.
LEMMA PublishStep ==
  ASSUME StoreInv, StoreInv', NEW c \in Calls, FinishRun(c)
  PROVE  Abstract!Publish
<1>1. PICK id : id = runId[c]
  OBVIOUS
<1>2. id \in DOMAIN runTable /\ ~runTable[id].finished
  BY <1>1 DEF FinishRun, StoreInv, OwnRunRow, Open
<1>3. /\ DOMAIN runTable' = DOMAIN runTable
      /\ \A i \in DOMAIN runTable : i # id => runTable'[i] = runTable[i]
      /\ runTable'[id].finished = TRUE
      /\ obsTable' = obsTable
  BY <1>1, <1>2 DEF FinishRun
<1>4. id \notin FinishedIds /\ FinishedIds' = FinishedIds \cup {id}
  BY <1>2, <1>3 DEF FinishedIds
<1>5. \A i \in FinishedIds : EntryOf(i)' = EntryOf(i)
  BY <1>2, <1>3 DEF FinishedIds, EntryOf, ObsOf
<1>6. LogOf' = LogOf \cup {EntryOf(id)'}
  BY <1>4, <1>5 DEF LogOf
<1>7. Abstract!Complete(EntryOf(id)')
  BY <1>4, EntryCompleteNext DEF Abstract!Complete
<1>8. \A f \in LogOf : f.id # EntryOf(id)'.id
  BY <1>4 DEF LogOf, EntryOf
<1> QED BY <1>6, <1>7, <1>8 DEF Abstract!Publish

\* A prune expires: a run it deletes started before the cutoff, one it keeps
\* did not, and the rows of a kept run are kept with it.
LEMMA ExpireStep ==
  ASSUME StoreInv, Prune
  PROVE  Abstract!Expire
<1>1. PICK cutoff \in Int :
        /\ obsTable' = {o \in obsTable : o.at >= cutoff}
        /\ DOMAIN runTable' = {i \in DOMAIN runTable :
                                 \/ runTable[i].started >= cutoff
                                 \/ \E o \in obsTable' : o.run = i}
        /\ \A i \in DOMAIN runTable' : runTable'[i] = runTable[i]
  BY RunStoreAssumption DEF Prune, StoreInv, TypeOK
<1>2. \A i \in DOMAIN runTable :
        /\ runTable[i].started >= cutoff => i \in DOMAIN runTable' /\ ObsOf(i)' = ObsOf(i)
        /\ ~(runTable[i].started >= cutoff) => i \notin DOMAIN runTable'
  BY <1>1 DEF StoreInv, StampedWithStart, ObsOf
<1>3. FinishedIds' = {i \in FinishedIds : runTable[i].started >= cutoff}
  BY <1>1, <1>2 DEF FinishedIds
<1>4. \A i \in FinishedIds' : EntryOf(i)' = EntryOf(i)
  BY <1>1, <1>2, <1>3 DEF FinishedIds, EntryOf
<1>5. LogOf' = {EntryOf(i) : i \in FinishedIds'}
  BY <1>4 DEF LogOf
<1>6. \A i \in FinishedIds : /\ EntryOf(i).started = runTable[i].started
                             /\ runTable[i].started \in Nat
  BY DEF EntryOf, FinishedIds, StoreInv, TypeOK, RunRow
<1>7. \A e \in LogOf' : e \in LogOf /\ e.started >= cutoff
  BY <1>3, <1>5, <1>6 DEF LogOf
<1>8. \A e \in LogOf \ LogOf' : ~(e.started >= cutoff) /\ e.started \in Nat
  BY <1>3, <1>5, <1>6 DEF LogOf
<1>9. \A e \in LogOf : e.started \in Nat
  BY <1>6 DEF LogOf
<1> QED BY <1>7, <1>8, <1>9 DEF Abstract!Expire

\* Every step of the store is a publication, an expiry or a stutter of the
\* abstract log.
LEMMA RefinementStep ==
  ASSUME StoreInv, StoreInv', [Next]_vars
  PROVE  [Abstract!LogNext]_LogOf
<1>1. ASSUME NEW c \in Calls, StartRun(c) PROVE LogOf' = LogOf
  <2>1. PICK id : /\ id \notin DOMAIN runTable
                  /\ runTable' = [i \in DOMAIN runTable \cup {id} |->
                                    IF i = id THEN [started |-> now[c],
                                                    status |-> "RUNNING",
                                                    finished |-> FALSE]
                                    ELSE runTable[i]]
                  /\ obsTable' = obsTable
    BY <1>1 DEF StartRun, NextRunId
  <2>2. /\ DOMAIN runTable' = DOMAIN runTable \cup {id}
        /\ \A i \in DOMAIN runTable : runTable'[i] = runTable[i]
        /\ runTable'[id].finished = FALSE
    BY <2>1
  <2> QED BY <2>1, <2>2, StutterStep DEF FinishedIds, ObsOf
<1>2. ASSUME NEW c \in Calls, CommitObservations(c) PROVE LogOf' = LogOf
  <2>1. obsTable' = obsTable \cup RowsOf(c) /\ UNCHANGED runTable
    BY <1>2 DEF CommitObservations
  <2>2. runId[c] \notin FinishedIds
    BY <1>2 DEF CommitObservations, StoreInv, OwnRunRow, Open, FinishedIds
  <2>3. \A i \in FinishedIds : ObsOf(i)' = ObsOf(i)
    BY <2>1, <2>2 DEF ObsOf, RowsOf, RowOf
  <2> QED BY <2>1, <2>3, StutterStep DEF FinishedIds
<1>3. CASE UNCHANGED <<runTable, obsTable>>
  BY <1>3, StutterStep DEF FinishedIds, ObsOf
<1>4. \/ \E c \in Calls : StartRun(c) \/ CommitObservations(c) \/ FinishRun(c)
      \/ Prune
      \/ UNCHANGED <<runTable, obsTable>>
  BY DEF Next, Step, Fault, Begin, Connect, Connected, Evaluate,
     FinishEvaluation, InsertObservation, EvaluationRaises, WriteFails,
     Crash, Tick, vars
<1> QED
  BY <1>1, <1>2, <1>3, <1>4, PublishStep, ExpireStep DEF Abstract!LogNext

\* The two tables are an append-and-expire log of complete runs: transactions,
\* crashes, overlapping calls and the gap between record_observations and
\* finish_run are invisible to a reader of finished runs.
THEOREM StoreImplementsRunLog ==
  ASSUME MaxRunTime <= Retain
  PROVE  Spec => ImplementsRunLog
<1>1. Init => Abstract!LogInit
  BY LogInitHolds
<1>2. StoreInv /\ StoreInv' /\ [Next]_vars => [Abstract!LogNext]_LogOf
  BY RefinementStep
<1> QED
  BY <1>1, <1>2, StoreCorrect, PTL DEF Spec, ImplementsRunLog, Abstract!LogSpec

-----------------------------------------------------------------------------
(* Sessions only delay calls: the theorems about RunStore carry over.      *)

\* Opening and reading a store leaves the calls' variables alone, and the
\* rest of a step is a step of RunStore.
LEMMA SessionStep == [SessionNext]_allVars => [Next]_vars
<1> SUFFICES ASSUME [SessionNext]_allVars PROVE [Next]_vars
  OBVIOUS
<1>1. CASE UNCHANGED allVars
  BY <1>1 DEF allVars
<1>2. CASE \E c \in Calls : /\ session[c] = "open"
                            /\ Step(c) \/ Fault(c)
                            /\ UNCHANGED sessionVars
  BY <1>2 DEF Next
<1>3. CASE Prune \/ Tick
  BY <1>3 DEF Next
<1> QED BY <1>1, <1>2, <1>3 DEF SessionNext

\* A behaviour of processes that first open the store is one of RunStore.
THEOREM SessionsAreRuns == SessionSpec => Spec
<1>1. SessionInit => Init
  BY DEF SessionInit
<1> QED BY <1>1, SessionStep, PTL DEF SessionSpec, Spec

\* What the calls of a session may rely on in every state.
LEMMA SessionStoreInv ==
  ASSUME MaxRunTime <= Retain
  PROVE  SessionSpec => []StoreInv
  BY SessionsAreRuns, StoreCorrect, PTL

\* TypeCorrect of RunStore, for calls behind sessions.
LEMMA SessionTypes == SessionSpec => []TypeOK
  BY SessionsAreRuns, TypeCorrect, PTL

-----------------------------------------------------------------------------
(* Opening.                                                                *)

SessionTypeOK ==
  /\ columns \in {NoTable} \cup SUBSET AllColumns
  /\ session \in [Users -> SessionPhase]
  /\ existing \in [Users -> SUBSET AllColumns]
  /\ position \in [Users -> 1..Len(AddedColumns) + 1]

\* _migrate so far: what the one reading saw is there, so is every column the
\* loop has left behind, and whoever is through finds them all.
Progress(u) ==
  /\ session[u] # "closed" => columns # NoTable /\ existing[u] \subseteq columns
  /\ session[u] \in {"closed", "created"} => position[u] = 1 /\ existing[u] = {}
  /\ session[u] \in {"migrating", "rechecking"} =>
       \A i \in 1..(position[u] - 1) : AddedColumns[i] \in columns
  /\ session[u] = "rechecking" => position[u] <= Len(AddedColumns)
  /\ session[u] \in {"open", "headed", "shown"} => columns = AllColumns

MigrationInv == SessionTypeOK /\ \A u \in Users : Progress(u)

\* The positions of _migrate's loop are those of _OBSERVATION_ADDED_COLUMNS.
LEMMA ColumnsInOrder ==
  /\ Len(AddedColumns) \in Nat
  /\ DOMAIN AddedColumns = 1..Len(AddedColumns)
  /\ \A i \in 1..Len(AddedColumns) : AddedColumns[i] \in AllColumns
  BY StoreSessionsAssumption DEF AllColumns

\* A file of an older release and nobody who has opened it yet.
LEMMA MigrationInit == SessionInit => MigrationInv
<1> SUFFICES ASSUME SessionInit PROVE MigrationInv
  OBVIOUS
<1>1. columns \in {NoTable} \cup SUBSET AllColumns
  BY ColumnsInOrder DEF SessionInit
<1>2. 1 \in 1..Len(AddedColumns) + 1
  BY ColumnsInOrder
<1> QED BY <1>1, <1>2 DEF MigrationInv, SessionTypeOK, Progress, SessionInit, SessionPhase

\* Columns are only ever added, which disturbs nobody else's progress.
LEMMA OthersProgress ==
  ASSUME MigrationInv, NEW v \in Users,
         columns = NoTable \/ columns' = columns
           \/ (columns' \in SUBSET AllColumns /\ columns \subseteq columns'),
         session'[v] = session[v], existing'[v] = existing[v],
         position'[v] = position[v]
  PROVE  Progress(v)'
<1>1. CASE columns = NoTable
  BY <1>1 DEF MigrationInv, Progress
<1>2. CASE columns' = columns
  BY <1>2 DEF MigrationInv, Progress
<1>3. CASE /\ columns # NoTable
           /\ columns' \in SUBSET AllColumns
           /\ columns \subseteq columns'
  BY <1>3, StoreSessionsAssumption DEF MigrationInv, Progress
<1> QED BY <1>1, <1>2, <1>3

\* So a step of one opener needs its own progress only.
LEMMA OwnProgress ==
  ASSUME MigrationInv, NEW u \in Users, SessionTypeOK',
         columns = NoTable \/ columns' = columns
           \/ (columns' \in SUBSET AllColumns /\ columns \subseteq columns'),
         \A v \in Users \ {u} : /\ session'[v] = session[v]
                                /\ existing'[v] = existing[v]
                                /\ position'[v] = position[v],
         Progress(u)'
  PROVE  MigrationInv'
<1>1. \A v \in Users \ {u} : Progress(v)'
  BY OthersProgress
<1> QED BY <1>1 DEF MigrationInv

\* Store.__init__, step by step.
LEMMA OpenStep ==
  ASSUME MigrationInv, NEW u \in Users, OpenStore(u)
  PROVE  MigrationInv'
<1> USE DEF Enter, NextColumn, Forget, SessionPhase
<1>1. CASE CreateTables(u)
  <2>1. columns' \in SUBSET AllColumns /\ columns' # NoTable
    BY <1>1, StoreSessionsAssumption DEF CreateTables, MigrationInv, SessionTypeOK
  <2>2. columns = NoTable \/ columns' = columns
    BY <1>1 DEF CreateTables
  <2>3. SessionTypeOK'
    BY <1>1, <2>1 DEF CreateTables, MigrationInv, SessionTypeOK
  <2>4. Progress(u)'
    BY <1>1, <2>1, <2>2 DEF CreateTables, MigrationInv, SessionTypeOK, Progress
  <2>5. \A v \in Users \ {u} : /\ session'[v] = session[v]
                                /\ existing'[v] = existing[v]
                                /\ position'[v] = position[v]
    BY <1>1 DEF CreateTables, MigrationInv, SessionTypeOK
  <2> QED BY <2>2, <2>3, <2>4, <2>5, OwnProgress
<1>2. CASE ReadColumns(u)
  <2>1. columns \in SUBSET AllColumns
    BY <1>2 DEF ReadColumns, MigrationInv, SessionTypeOK, Progress
  <2>2. SessionTypeOK'
    BY <1>2, <2>1 DEF ReadColumns, MigrationInv, SessionTypeOK
  <2>3. Progress(u)'
    BY <1>2, <2>1 DEF ReadColumns, MigrationInv, SessionTypeOK, Progress
  <2> QED BY <1>2, <2>2, <2>3, OwnProgress
          DEF ReadColumns, MigrationInv, SessionTypeOK
<1>3. CASE SkipColumn(u)
  <2>1. position[u] \in 1..Len(AddedColumns) /\ position'[u] = position[u] + 1
    BY <1>3, ColumnsInOrder DEF SkipColumn, Migrating, MigrationInv, SessionTypeOK
  <2>2. SessionTypeOK'
    BY <1>3, <2>1, ColumnsInOrder DEF SkipColumn, MigrationInv, SessionTypeOK
  <2>3. AddedColumns[position[u]] \in columns
    BY <1>3 DEF SkipColumn, Migrating, Column, MigrationInv, Progress
  <2>4. Progress(u)'
    BY <1>3, <2>1, <2>3 DEF SkipColumn, Migrating, MigrationInv, SessionTypeOK, Progress
  <2> QED BY <1>3, <2>2, <2>4, OwnProgress
          DEF SkipColumn, MigrationInv, SessionTypeOK
<1>4. CASE AddColumn(u)
  <2>1. position[u] \in 1..Len(AddedColumns) /\ position'[u] = position[u] + 1
    BY <1>4, ColumnsInOrder DEF AddColumn, Migrating, MigrationInv, SessionTypeOK
  <2>2. /\ columns' \in SUBSET AllColumns
        /\ columns \subseteq columns'
        /\ AddedColumns[position[u]] \in columns'
    BY <1>4, <2>1, ColumnsInOrder
       DEF AddColumn, Migrating, Column, MigrationInv, SessionTypeOK, Progress
  <2>3. SessionTypeOK'
    BY <1>4, <2>1, <2>2, ColumnsInOrder DEF AddColumn, MigrationInv, SessionTypeOK
  <2>4. Progress(u)'
    BY <1>4, <2>1, <2>2, StoreSessionsAssumption
       DEF AddColumn, Migrating, MigrationInv, SessionTypeOK, Progress
  <2> QED BY <1>4, <2>2, <2>3, <2>4, OwnProgress
          DEF AddColumn, MigrationInv, SessionTypeOK
<1>5. CASE AlterRejected(u)
  <2>1. SessionTypeOK' /\ Progress(u)'
    BY <1>5 DEF AlterRejected, Migrating, MigrationInv, SessionTypeOK, Progress
  <2> QED BY <1>5, <2>1, OwnProgress DEF AlterRejected, MigrationInv, SessionTypeOK
<1>6. CASE Recheck(u)
  <2>1. position[u] \in 1..Len(AddedColumns) /\ session[u] = "rechecking"
    BY <1>6, ColumnsInOrder DEF Recheck, MigrationInv, SessionTypeOK, Progress
  <2>2. CASE Column(u) \in columns
    <3>1. position'[u] = position[u] + 1 /\ session'[u] = "migrating"
      BY <1>6, <2>2 DEF Recheck, MigrationInv, SessionTypeOK
    <3>2. SessionTypeOK'
      BY <1>6, <2>1, <2>2, ColumnsInOrder DEF Recheck, MigrationInv, SessionTypeOK
    <3>3. Progress(u)'
      BY <1>6, <2>1, <2>2, <3>1 DEF Recheck, Column, MigrationInv, SessionTypeOK, Progress
    <3> QED BY <1>6, <2>2, <3>2, <3>3, OwnProgress DEF Recheck, MigrationInv, SessionTypeOK
  <2>3. CASE Column(u) \notin columns
    <3>1. session'[u] = "refused" /\ SessionTypeOK'
      BY <1>6, <2>3 DEF Recheck, MigrationInv, SessionTypeOK
    <3>2. Progress(u)'
      BY <1>6, <2>1, <2>3, <3>1 DEF Recheck, MigrationInv, SessionTypeOK, Progress
    <3> QED BY <1>6, <2>3, <3>1, <3>2, OwnProgress DEF Recheck, MigrationInv, SessionTypeOK
  <2> QED BY <2>2, <2>3
<1>7. CASE Opened(u)
  <2>1. position[u] > Len(AddedColumns) /\ session[u] = "migrating"
    BY <1>7 DEF Opened
  <2>2. AllColumns \subseteq columns
    BY <2>1, ColumnsInOrder DEF MigrationInv, SessionTypeOK, Progress, AllColumns
  <2>3. columns = AllColumns
    BY <2>1, <2>2 DEF MigrationInv, SessionTypeOK, Progress
  <2>4. SessionTypeOK' /\ Progress(u)'
    BY <1>7, <2>3, ColumnsInOrder DEF Opened, MigrationInv, SessionTypeOK, Progress
  <2> QED BY <1>7, <2>4, OwnProgress DEF Opened, MigrationInv, SessionTypeOK
<1>8. CASE DieOpening(u)
  <2>1. SessionTypeOK' /\ Progress(u)'
    BY <1>8, ColumnsInOrder DEF DieOpening, MigrationInv, SessionTypeOK, Progress
  <2> QED BY <1>8, <2>1, OwnProgress DEF DieOpening, MigrationInv, SessionTypeOK
<1> QED BY <1>1, <1>2, <1>3, <1>4, <1>5, <1>6, <1>7, <1>8 DEF OpenStore

\* A reader has a row to go by, and only after a store is open.
ReaderTypeOK ==
  /\ header \in [Readers -> {NoRow} \cup [id : Nat \ {0}, row : RunRow]]
  /\ page \in [Readers -> SUBSET ObsRow]
  /\ \A r \in Readers :
       session[r] \in {"headed", "shown"} =>
         header[r] \in [id : Nat \ {0}, row : RunRow]

\* latest_run, observations_for_run and leaving the screen.
LEMMA ReadStep ==
  ASSUME MigrationInv, ReaderTypeOK, TypeOK, NEW r \in Readers, ReadRun(r)
  PROVE  MigrationInv' /\ ReaderTypeOK'
<1> USE DEF Enter, SessionPhase, Users
<1>1. /\ columns' = columns /\ existing' = existing /\ position' = position
      /\ session[r] \in {"open", "headed", "shown"}
      /\ \E phase \in {"open", "headed", "shown"} :
           session' = [session EXCEPT ![r] = phase]
  BY DEF ReadRun, ReadLatestRun, ReadObservations, Dismiss
<1>2. MigrationInv'
  <2>1. SessionTypeOK' /\ Progress(r)'
    BY <1>1 DEF MigrationInv, SessionTypeOK, Progress
  <2> QED BY <1>1, <2>1, OwnProgress DEF MigrationInv, SessionTypeOK
<1>3. CASE ReadLatestRun(r)
  <2>1. PICK i \in NewestFinished :
          header' = [header EXCEPT ![r] = [id |-> i, row |-> runTable[i]]]
    BY <1>3 DEF ReadLatestRun
  <2>2. [id |-> i, row |-> runTable[i]] \in [id : Nat \ {0}, row : RunRow]
    BY DEF NewestFinished, FinishedIds, TypeOK
  <2>3. ReaderTypeOK'
    BY <1>1, <1>3, <2>1, <2>2
       DEF ReadLatestRun, ReaderTypeOK, MigrationInv, SessionTypeOK
  <2> QED BY <1>2, <2>3
<1>4. CASE ReadObservations(r)
  <2>1. ObsOf(header[r].id) \in SUBSET ObsRow
    BY DEF ObsOf, TypeOK
  <2>2. ReaderTypeOK'
    BY <1>4, <2>1 DEF ReadObservations, ReaderTypeOK, MigrationInv, SessionTypeOK
  <2> QED BY <1>2, <2>2
<1>5. CASE Dismiss(r)
  BY <1>2, <1>5 DEF Dismiss, ReaderTypeOK, MigrationInv, SessionTypeOK
<1> QED BY <1>3, <1>4, <1>5 DEF ReadRun

\* Opening a store hands no reader a row.
LEMMA OpenKeepsReaders ==
  ASSUME MigrationInv, ReaderTypeOK, NEW u \in Users, OpenStore(u)
  PROVE  ReaderTypeOK'
<1>1. /\ header' = header /\ page' = page
      /\ \E phase \in SessionPhase \ {"headed", "shown"} :
           session' = [session EXCEPT ![u] = phase]
        \/ session' = session
  BY DEF OpenStore, CreateTables, ReadColumns, SkipColumn, AddColumn,
         AlterRejected, Recheck, Opened, DieOpening, Enter, SessionPhase
<1>2. \A r \in Readers : session'[r] \in {"headed", "shown"} =>
                            session[r] = session'[r]
  BY <1>1 DEF MigrationInv, SessionTypeOK, Users
<1> QED BY <1>1, <1>2 DEF ReaderTypeOK

\* Any step, TypeOK being an invariant of the calls.
LEMMA SessionInvStep ==
  ASSUME MigrationInv, ReaderTypeOK, TypeOK, [SessionNext]_allVars
  PROVE  MigrationInv' /\ ReaderTypeOK'
<1>1. CASE UNCHANGED sessionVars
  <2>1. MigrationInv'
    BY <1>1 DEF sessionVars, MigrationInv, SessionTypeOK, Progress
  <2>2. ReaderTypeOK'
    BY <1>1 DEF sessionVars, ReaderTypeOK
  <2> QED BY <2>1, <2>2
<1>2. CASE \E u \in Users : OpenStore(u)
  BY <1>2, OpenStep, OpenKeepsReaders
<1>3. CASE \E r \in Readers : ReadRun(r)
  BY <1>3, ReadStep
<1> QED BY <1>1, <1>2, <1>3 DEF SessionNext, allVars

\* Opening and reading keep their invariants in every state.
LEMMA SessionInvCorrect == SessionSpec => [](MigrationInv /\ ReaderTypeOK)
<1>1. SessionInit => MigrationInv /\ ReaderTypeOK
  BY MigrationInit DEF SessionInit, ReaderTypeOK, Users
<1>2. MigrationInv /\ ReaderTypeOK /\ TypeOK /\ [SessionNext]_allVars
        => MigrationInv' /\ ReaderTypeOK'
  BY SessionInvStep
<1> QED BY <1>1, <1>2, SessionTypes, PTL DEF SessionSpec

\* Whoever has opened the store finds every column, whatever release wrote
\* the file and whoever raced it through the migration (OpenStoreIsCurrent).
THEOREM OpenStoresAreCurrent == SessionSpec => []OpenStoreIsCurrent
<1>1. MigrationInv /\ ReaderTypeOK => OpenStoreIsCurrent
  BY DEF MigrationInv, SessionTypeOK, Progress, ReaderTypeOK,
         OpenStoreIsCurrent, Using
<1> QED BY <1>1, SessionInvCorrect, PTL

-----------------------------------------------------------------------------
(* One run on one page.                                                    *)

Expired(row) == clock - row.started > Retain

Kept(id, row) == id \in DOMAIN runTable /\ runTable[id] = row /\ row.finished

\* Between its two reads a reader's row is the stored one, and afterwards its
\* page belongs to it, unless a prune may have taken the run.
OneRun(r) ==
  /\ session[r] = "headed" =>
       Kept(header[r].id, header[r].row) \/ Expired(header[r].row)
  /\ session[r] = "shown" =>
       \/ header[r].row.status = WorstStatus({o.status : o \in page[r]})
       \/ Expired(header[r].row)

\* Calls and the clock leave a finished run as it is until it expires.
LEMMA FinishedStays ==
  ASSUME StoreInv, [Next]_vars, NEW id, NEW row \in RunRow, Kept(id, row)
  PROVE  Kept(id, row)' \/ Expired(row)'
<1> USE DEF Kept
<1>1. CASE runTable' = runTable
  BY <1>1
<1>2. ASSUME NEW c \in Calls, StartRun(c) PROVE Kept(id, row)'
  BY <1>2 DEF StartRun, NextRunId
<1>3. ASSUME NEW c \in Calls, FinishRun(c) PROVE Kept(id, row)'
  <2>1. runId[c] # id
    BY <1>3 DEF FinishRun, StoreInv, OwnRunRow, Open
  <2> QED BY <1>3, <2>1 DEF FinishRun
<1>4. CASE Prune
  <2>1. row.started \in Nat /\ clock \in Nat /\ clock' = clock
    BY <1>4 DEF Prune, RunRow, StoreInv, TypeOK
  <2>2. PICK resolved \in 0..clock :
          \E kept \in SUBSET DOMAIN runTable :
            /\ \A i \in DOMAIN runTable :
                 runTable[i].started >= resolved - Retain => i \in kept
            /\ runTable' = [i \in kept |-> runTable[i]]
    <3>1. PICK resolved \in 0..clock :
            runTable' =
              [i \in {j \in DOMAIN runTable :
                       \/ runTable[j].started >= resolved - Retain
                       \/ \E o \in {p \in obsTable : p.at >= resolved - Retain} :
                            o.run = j} |-> runTable[i]]
      BY <1>4 DEF Prune
    <3> DEFINE kept == {j \in DOMAIN runTable :
                          \/ runTable[j].started >= resolved - Retain
                          \/ \E o \in {p \in obsTable : p.at >= resolved - Retain} :
                               o.run = j}
    <3>2. /\ kept \in SUBSET DOMAIN runTable
          /\ \A i \in DOMAIN runTable :
               runTable[i].started >= resolved - Retain => i \in kept
          /\ runTable' = [i \in kept |-> runTable[i]]
      BY <3>1
    <3> HIDE DEF kept
    <3> QED BY <3>2
  <2>3. CASE row.started >= resolved - Retain
    BY <2>2, <2>3
  <2>4. CASE ~(row.started >= resolved - Retain)
    <3>1. clock - row.started > Retain
      BY <2>1, <2>4, RunStoreAssumption
    <3> QED BY <2>1, <3>1 DEF Expired
  <2> QED BY <2>3, <2>4
<1>5. CASE Tick
  BY <1>1, <1>5 DEF Tick
<1>6. ASSUME NEW c \in Calls, Step(c) \/ Fault(c), ~StartRun(c), ~FinishRun(c)
      PROVE  runTable' = runTable
  BY <1>6 DEF Step, Fault, Begin, Connect, Connected, Evaluate,
              FinishEvaluation, EvaluationRaises, InsertObservation,
              CommitObservations, WriteFails, Crash
<1> QED BY <1>1, <1>2, <1>3, <1>4, <1>5, <1>6 DEF Next, vars

\* What has expired stays expired.
LEMMA ExpiredStays ==
  ASSUME TypeOK, [Next]_vars, NEW row \in RunRow, Expired(row)
  PROVE  Expired(row)'
<1>1. clock' = clock \/ clock' = clock + 1
  BY DEF Next, Step, Fault, Begin, Connect, Connected, StartRun, Evaluate,
         FinishEvaluation, EvaluationRaises, InsertObservation,
         CommitObservations, FinishRun, WriteFails, Crash, Prune, Tick, vars
<1>2. clock \in Nat /\ row.started \in Nat
  BY DEF TypeOK, RunRow
<1> QED BY <1>1, <1>2, RunStoreAssumption DEF Expired

\* A reader that does nothing keeps what it has.
LEMMA IdleReader ==
  ASSUME StoreInv, ReaderTypeOK, [Next]_vars, NEW r \in Readers, OneRun(r),
         session'[r] = session[r], header'[r] = header[r], page'[r] = page[r]
  PROVE  OneRun(r)'
<1>1. CASE session[r] = "headed"
  <2>1. header[r].row \in RunRow
    BY <1>1 DEF ReaderTypeOK
  <2>2. \/ Kept(header[r].id, header[r].row)'
        \/ Expired(header[r].row)'
    BY <1>1, <2>1, FinishedStays, ExpiredStays DEF OneRun, StoreInv
  <2> QED BY <1>1, <2>2 DEF OneRun
<1>2. CASE session[r] = "shown"
  <2>1. header[r].row \in RunRow
    BY <1>2 DEF ReaderTypeOK
  <2> QED BY <1>2, <2>1, ExpiredStays DEF OneRun, StoreInv
<1>3. CASE session[r] \notin {"headed", "shown"}
  BY <1>3 DEF OneRun
<1> QED BY <1>1, <1>2, <1>3

\* Any step: the reader's own reads, and everybody else's doings between.
LEMMA OneRunStep ==
  ASSUME StoreInv, MigrationInv, ReaderTypeOK, [SessionNext]_allVars,
         NEW r \in Readers, OneRun(r)
  PROVE  OneRun(r)'
<1> USE DEF Enter, Users
<1>1. [Next]_vars
  BY SessionStep
<1>2. CASE /\ session'[r] = session[r]
           /\ header'[r] = header[r]
           /\ page'[r] = page[r]
  BY <1>1, <1>2, IdleReader
<1>3. CASE ReadLatestRun(r) /\ UNCHANGED vars
  <2>1. PICK i \in NewestFinished :
          header' = [header EXCEPT ![r] = [id |-> i, row |-> runTable[i]]]
    BY <1>3 DEF ReadLatestRun
  <2>2. header'[r] = [id |-> i, row |-> runTable[i]] /\ session'[r] = "headed"
    BY <1>3, <2>1
       DEF ReadLatestRun, ReaderTypeOK, MigrationInv, SessionTypeOK
  <2>3. i \in DOMAIN runTable /\ runTable[i].finished
    BY DEF NewestFinished, FinishedIds
  <2> QED BY <1>3, <2>2, <2>3 DEF OneRun, Kept, vars
<1>4. CASE ReadObservations(r) /\ UNCHANGED vars
  <2>1. /\ session'[r] = "shown" /\ session[r] = "headed"
        /\ header' = header /\ page'[r] = ObsOf(header[r].id)
    BY <1>4 DEF ReadObservations, ReaderTypeOK, MigrationInv, SessionTypeOK
  <2>2. CASE Kept(header[r].id, header[r].row)
    <3>1. header[r].row.status = WorstStatus({o.status : o \in ObsOf(header[r].id)})
      BY <2>2 DEF Kept, StoreInv, FinishedRunComplete
    <3> QED BY <2>1, <3>1 DEF OneRun
  <2>3. CASE Expired(header[r].row)
    BY <1>4, <2>1, <2>3 DEF OneRun, Expired, vars
  <2> QED BY <2>1, <2>2, <2>3 DEF OneRun
<1>5. CASE Dismiss(r)
  BY <1>5 DEF Dismiss, MigrationInv, SessionTypeOK, OneRun
<1>6. CASE OpenStore(r)
  <2>1. session[r] \notin {"headed", "shown"} /\ session'[r] \notin {"headed", "shown"}
    BY <1>6
       DEF OpenStore, CreateTables, ReadColumns, SkipColumn, AddColumn,
           AlterRejected, Recheck, Opened, DieOpening, Migrating,
           MigrationInv, SessionTypeOK
  <2> QED BY <2>1 DEF OneRun
<1>7. ASSUME NEW u \in Users \ {r}, OpenStore(u) \/ (u \in Readers /\ ReadRun(u))
      PROVE  /\ session'[r] = session[r]
             /\ header'[r] = header[r]
             /\ page'[r] = page[r]
  BY <1>7 DEF OpenStore, CreateTables, ReadColumns, SkipColumn, AddColumn,
              AlterRejected, Recheck, Opened, DieOpening, ReadRun,
              ReadLatestRun, ReadObservations, Dismiss,
              MigrationInv, SessionTypeOK, ReaderTypeOK
<1>8. CASE UNCHANGED sessionVars
  BY <1>2, <1>8 DEF sessionVars
<1>9. CASE \E u \in Users : OpenStore(u) /\ UNCHANGED vars
  BY <1>2, <1>6, <1>7, <1>9
<1>10. CASE \E q \in Readers : ReadRun(q) /\ UNCHANGED vars
  BY <1>2, <1>3, <1>4, <1>5, <1>7, <1>10 DEF ReadRun
<1> QED BY <1>8, <1>9, <1>10 DEF SessionNext, allVars

\* What a reader shows is one run, for any number of writers, readers and
\* prunes between its two statements, as long as no call outlives the
\* retention (PageMatchesHeader).
THEOREM PagesMatchHeaders ==
  ASSUME MaxRunTime <= Retain
  PROVE  SessionSpec => []PageMatchesHeader
<1> DEFINE OneRunEach == \A r \in Readers : OneRun(r)
<1>1. SessionInit => OneRunEach
  BY DEF SessionInit, OneRun, Users
<1>2. StoreInv /\ MigrationInv /\ ReaderTypeOK /\ OneRunEach
        /\ [SessionNext]_allVars => OneRunEach'
  BY OneRunStep
<1>3. OneRunEach => PageMatchesHeader
  BY DEF OneRun, Expired, PageMatchesHeader, Reconstructed
<1> QED BY <1>1, <1>2, <1>3, SessionStoreInv, SessionInvCorrect, PTL
        DEF SessionSpec
=============================================================================
