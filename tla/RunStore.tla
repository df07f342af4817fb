------------------------------ MODULE RunStore ------------------------------
(***************************************************************************)
(* run_and_persist (runner.py) against the SQLite observation store        *)
(* (store.py).  Several calls overlap on one store file: cron jobs, a CLI  *)
(* run beside the TUI, two TUI workers.  Each call resolves `now`, selects *)
(* its checks, connects to the sources they need, opens a run row,         *)
(* evaluates, closes its adapters, records every observation in one        *)
(* transaction and finally stamps the run row.  Any step of a call may     *)
(* fail, the process may die between any two, and a prune may commit in    *)
(* between.                                                                *)
(*                                                                         *)
(* Evaluation is abstracted to "some verdict per check".  SQLite's WAL     *)
(* write lock is taken by the first row of a transaction and held to its   *)
(* commit or rollback; readers see committed rows only.                    *)
(***************************************************************************)
EXTENDS Statuses

CONSTANTS
  Calls,       \* calls of run_and_persist, each in a process or thread
  NoCall,      \* nobody holds the write lock
  Checks,      \* the configured checks
  Sources,     \* the configured sources
  Objects,     \* the objects checks are about
  SourceOf,    \* the source of each check
  ObjectOf,    \* the object of each check
  Paused,      \* checks with active: false
  Verdicts,    \* statuses the evaluation of an active check may produce
  Retain,      \* retention of a prune, in clock ticks (store.retain_days)
  MaxRunTime,  \* ticks from a call's `now` to its end, at most
  MaxClock     \* bound of the exploration

ASSUME RunStoreAssumption ==
  /\ NoCall \notin Calls
  /\ SourceOf \in [Checks -> Sources]
  /\ ObjectOf \in [Checks -> Objects]
  /\ Paused \subseteq Checks
  /\ Verdicts \subseteq Status
  /\ Retain \in Nat
  /\ MaxRunTime \in Nat
  /\ MaxClock \in Nat

VARIABLES
  clock,     \* wall clock
  runTable,  \* table run: run_id -> row
  obsTable,  \* table observation: committed rows
  writer,    \* holder of the write lock
  pc,        \* where each call is
  now,       \* its `now`: started_at and every observed_at
  scope,     \* the checks it covers
  untried,   \* referenced sources it has not connected to yet
  adapters,  \* sources it holds an open adapter on
  failed,    \* sources whose adapter could not be built
  results,   \* the results evaluation has produced
  runId,     \* its run_id, 0 before start_run
  pending    \* rows inserted in its open transaction

callVars == <<now, scope, untried, adapters, failed, results, runId, pending>>
vars == <<clock, runTable, obsTable, writer, pc, callVars>>

Phase == {"ready", "connecting", "opening", "evaluating", "recording",
          "finishing", "done", "raised", "crashed"}
Ended == {"done", "raised", "crashed"}
\* Phases in which a call has an open run row.
Open == {"evaluating", "recording", "finishing"}
InFlight(c) == pc[c] \notin Ended \cup {"ready"}

Result == [check : Checks, status : Status]
ObsRow == [run : Nat \ {0}, check : Checks, status : Status, at : Nat]
RunRow == [started : Nat, status : Status \cup {"RUNNING"}, finished : BOOLEAN]

-----------------------------------------------------------------------------
(* Selecting checks and numbering runs.                                    *)

\* filter_checks: every check, one source's, or one object's of a source.
FilterChecks(only, object) ==
  {k \in Checks : /\ only = "any" \/ SourceOf[k] = only
                  /\ object = "any" \/ ObjectOf[k] = object}

Selections ==
  {FilterChecks("any", "any")}
    \cup {FilterChecks(s, o) : s \in Sources, o \in Objects \cup {"any"}}

\* Sources of the active checks only: a paused check never connects.
Referenced(selected) == {SourceOf[k] : k \in selected \ Paused}

\* INTEGER PRIMARY KEY without AUTOINCREMENT: one more than the largest id
\* present, so an id whose row was deleted may be handed out again.
NextRunId(id) ==
  /\ id \notin DOMAIN runTable
  /\ \A i \in DOMAIN runTable : i < id
  /\ id = 1 \/ id - 1 \in DOMAIN runTable

\* Mutant of RowOf: the row is stamped when it is written, not with the
\* run's resolved `now`.
RowStampedOnWrite(c, r) ==
  [run |-> runId[c], check |-> r.check, status |-> r.status, at |-> clock]

RowOf(c, r) ==
  [run |-> runId[c], check |-> r.check, status |-> r.status, at |-> now[c]]
RowsOf(c) == {RowOf(c, r) : r \in results[c]}
ObsOf(id) == {o \in obsTable : o.run = id}

-----------------------------------------------------------------------------
(* The steps of one call.                                                  *)

Init ==
  /\ clock = 0
  /\ runTable = [i \in {} |-> 0]
  /\ obsTable = {}
  /\ writer = NoCall
  /\ pc = [c \in Calls |-> "ready"]
  /\ now = [c \in Calls |-> 0]
  /\ scope = [c \in Calls |-> {}]
  /\ untried = [c \in Calls |-> {}]
  /\ adapters = [c \in Calls |-> {}]
  /\ failed = [c \in Calls |-> {}]
  /\ results = [c \in Calls |-> {}]
  /\ runId = [c \in Calls |-> 0]
  /\ pending = [c \in Calls |-> {}]

Goto(c, phase) == pc' = [pc EXCEPT ![c] = phase]

\* `now` is resolved before anything else, the checks are filtered.
Begin(c) ==
  /\ pc[c] = "ready"
  /\ now' = [now EXCEPT ![c] = clock]
  /\ \E selected \in Selections :
       /\ scope' = [scope EXCEPT ![c] = selected]
       /\ untried' = [untried EXCEPT ![c] = Referenced(selected)]
  /\ Goto(c, "connecting")
  /\ UNCHANGED <<clock, runTable, obsTable, writer, adapters, failed, results,
                 runId, pending>>

\* One create_adapter; a failure is remembered, never raised.
Connect(c) ==
  /\ pc[c] = "connecting"
  /\ \E s \in untried[c] :
       /\ untried' = [untried EXCEPT ![c] = @ \ {s}]
       /\ \/ /\ adapters' = [adapters EXCEPT ![c] = @ \cup {s}]
             /\ UNCHANGED failed
          \/ /\ failed' = [failed EXCEPT ![c] = @ \cup {s}]
             /\ UNCHANGED adapters
  /\ UNCHANGED <<clock, runTable, obsTable, writer, pc, now, scope, results,
                 runId, pending>>

\* Every referenced source has been tried; reading the git sha comes next.
Connected(c) ==
  /\ pc[c] = "connecting"
  /\ untried[c] = {}
  /\ Goto(c, "opening")
  /\ UNCHANGED <<clock, runTable, obsTable, writer, callVars>>

\* start_run: insert the RUNNING row and commit, before any check runs.
StartRun(c) ==
  /\ pc[c] = "opening"
  /\ writer = NoCall
  /\ \E id \in {1} \cup {i + 1 : i \in DOMAIN runTable} :
       /\ NextRunId(id)
       /\ runTable' = [i \in DOMAIN runTable \cup {id} |->
                         IF i = id THEN [started |-> now[c],
                                         status |-> "RUNNING",
                                         finished |-> FALSE]
                         ELSE runTable[i]]
       /\ runId' = [runId EXCEPT ![c] = id]
  /\ Goto(c, "evaluating")
  /\ UNCHANGED <<clock, obsTable, writer, now, scope, untried, adapters,
                 failed, results, pending>>

\* Mutant of StatusesFor: a failed connection gets a status of its own.
StatusesWithUnreachable(c, k) ==
  IF k \in Paused THEN {"SKIPPED"}
  ELSE IF SourceOf[k] \in failed[c] THEN {"UNREACHABLE"}
  ELSE Verdicts

\* A paused check is SKIPPED before its source is looked at; a check on a
\* source that failed to connect is an ERROR; any other gets a verdict.
StatusesFor(c, k) ==
  IF k \in Paused THEN {"SKIPPED"}
  ELSE IF SourceOf[k] \in failed[c] THEN {"ERROR"}
  ELSE Verdicts

Evaluate(c) ==
  /\ pc[c] = "evaluating"
  /\ \E k \in scope[c] \ {r.check : r \in results[c]} :
       \E s \in StatusesFor(c, k) :
         results' = [results EXCEPT ![c] = @ \cup {[check |-> k, status |-> s]}]
  /\ UNCHANGED <<clock, runTable, obsTable, writer, pc, now, scope, untried,
                 adapters, failed, runId, pending>>

\* run_checks returns, and the finally clause closes every adapter.
FinishEvaluation(c) ==
  /\ pc[c] = "evaluating"
  /\ {r.check : r \in results[c]} = scope[c]
  /\ adapters' = [adapters EXCEPT ![c] = {}]
  /\ Goto(c, "recording")
  /\ UNCHANGED <<clock, runTable, obsTable, writer, now, scope, untried,
                 failed, results, runId, pending>>

\* run_checks raises (a raising on_result, an interrupt): the finally
\* clause still closes the adapters, and the run row stays RUNNING.
EvaluationRaises(c) ==
  /\ pc[c] = "evaluating"
  /\ adapters' = [adapters EXCEPT ![c] = {}]
  /\ Goto(c, "raised")
  /\ UNCHANGED <<clock, runTable, obsTable, writer, now, scope, untried,
                 failed, results, runId, pending>>

\* Mutant of InsertObservation: record_observation in a loop, one commit
\* per row.
InsertAndCommit(c) ==
  /\ pc[c] = "recording"
  /\ writer = NoCall
  /\ \E row \in RowsOf(c) \ pending[c] :
       /\ pending' = [pending EXCEPT ![c] = @ \cup {row}]
       /\ obsTable' = obsTable \cup {row}
  /\ UNCHANGED <<clock, runTable, writer, pc, now, scope, untried, adapters,
                 failed, results, runId>>

\* One INSERT of record_observations.  The first takes the write lock.
InsertObservation(c) ==
  /\ pc[c] = "recording"
  /\ writer \in {NoCall, c}
  /\ \E row \in RowsOf(c) \ pending[c] :
       pending' = [pending EXCEPT ![c] = @ \cup {row}]
  /\ writer' = c
  /\ UNCHANGED <<clock, runTable, obsTable, pc, now, scope, untried, adapters,
                 failed, results, runId>>

\* The one commit of record_observations.  A run without results inserted
\* nothing, holds no lock and commits nothing.
CommitObservations(c) ==
  /\ pc[c] = "recording"
  /\ pending[c] = RowsOf(c)
  /\ obsTable' = obsTable \cup pending[c]
  /\ pending' = [pending EXCEPT ![c] = {}]
  /\ writer' = IF writer = c THEN NoCall ELSE writer
  /\ Goto(c, "finishing")
  /\ UNCHANGED <<clock, runTable, now, scope, untried, adapters, failed,
                 results, runId>>

\* Mutant of FinishRun: the UPDATE lost its WHERE run_id = ?.
FinishEveryOpenRun(c) ==
  /\ pc[c] = "finishing"
  /\ writer = NoCall
  /\ runTable' = [i \in DOMAIN runTable |->
                    IF runTable[i].finished THEN runTable[i]
                    ELSE [started |-> runTable[i].started,
                          status |-> WorstStatus({r.status : r \in results[c]}),
                          finished |-> TRUE]]
  /\ Goto(c, "done")
  /\ UNCHANGED <<clock, obsTable, writer, callVars>>

\* finish_run: an UPDATE by run_id, which changes nothing when no row has it.
FinishRun(c) ==
  /\ pc[c] = "finishing"
  /\ writer = NoCall
  /\ runTable' = [i \in DOMAIN runTable |->
                    IF i = runId[c]
                    THEN [started |-> runTable[i].started,
                          status |-> WorstStatus({r.status : r \in results[c]}),
                          finished |-> TRUE]
                    ELSE runTable[i]]
  /\ Goto(c, "done")
  /\ UNCHANGED <<clock, obsTable, writer, callVars>>

\* The connection is gone: SQLite rolls the open transaction back and
\* releases the lock.
Rollback(c) ==
  /\ pending' = [pending EXCEPT ![c] = {}]
  /\ writer' = IF writer = c THEN NoCall ELSE writer

\* Mutant of WriteFails: a failure to record is logged, and the run is
\* finished all the same.
SwallowRecordingFailure(c) ==
  /\ pc[c] = "recording"
  /\ Rollback(c)
  /\ Goto(c, "finishing")
  /\ UNCHANGED <<clock, runTable, obsTable, now, scope, untried, adapters,
                 failed, results, runId>>

\* Mutant of WriteFails: the failed call's connection stays open, and with
\* it the transaction and the write lock.
FailWithoutClosing(c) ==
  /\ pc[c] \in {"opening", "recording", "finishing"}
  /\ Goto(c, "raised")
  /\ UNCHANGED <<clock, runTable, obsTable, writer, callVars>>

\* A store write raises (the lock was held past the busy timeout, the disk
\* is full): nothing in run_and_persist catches it, and the caller's own
\* finally closes the store.  Adapters are whatever they were.
WriteFails(c) ==
  /\ pc[c] \in {"opening", "recording", "finishing"}
  /\ Rollback(c)
  /\ Goto(c, "raised")
  /\ UNCHANGED <<clock, runTable, obsTable, now, scope, untried, adapters,
                 failed, results, runId>>

\* The process dies; its connections die with it.
Crash(c) ==
  /\ InFlight(c)
  /\ Rollback(c)
  /\ adapters' = [adapters EXCEPT ![c] = {}]
  /\ Goto(c, "crashed")
  /\ UNCHANGED <<clock, runTable, obsTable, now, scope, untried, failed,
                 results, runId>>

-----------------------------------------------------------------------------
(* The environment of a call.                                              *)

\* Mutant of Prune: the cutoff is the present, not `now` less the retention.
PruneWithoutRetention ==
  /\ writer = NoCall
  /\ \E cutoff \in 0..clock :
       LET keptObs == {o \in obsTable : o.at >= cutoff}
           keptRuns == {i \in DOMAIN runTable :
                          \/ runTable[i].started >= cutoff
                          \/ \E o \in keptObs : o.run = i}
       IN /\ obsTable' = keptObs
          /\ runTable' = [i \in keptRuns |-> runTable[i]]
  /\ UNCHANGED <<clock, writer, pc, callVars>>

\* Mutant of Prune: only the observations are deleted.
PruneObservationsOnly ==
  /\ writer = NoCall
  /\ \E resolved \in 0..clock :
       obsTable' = {o \in obsTable : o.at >= resolved - Retain}
  /\ UNCHANGED <<clock, runTable, writer, pc, callVars>>

\* Store.prune, both deletes in one transaction.  Its cutoff was computed
\* at `resolved`, possibly a while before it got the write lock.
Prune ==
  /\ writer = NoCall
  /\ \E resolved \in 0..clock :
       LET cutoff == resolved - Retain
           keptObs == {o \in obsTable : o.at >= cutoff}
           keptRuns == {i \in DOMAIN runTable :
                          \/ runTable[i].started >= cutoff
                          \/ \E o \in keptObs : o.run = i}
       IN /\ obsTable' = keptObs
          /\ runTable' = [i \in keptRuns |-> runTable[i]]
  /\ UNCHANGED <<clock, writer, pc, callVars>>

\* Time passes, but no call outlives MaxRunTime.
Tick ==
  /\ clock < MaxClock
  /\ \A c \in Calls : InFlight(c) => clock - now[c] < MaxRunTime
  /\ clock' = clock + 1
  /\ UNCHANGED <<runTable, obsTable, writer, pc, callVars>>

Step(c) ==
  \/ Begin(c)
  \/ Connect(c)
  \/ Connected(c)
  \/ StartRun(c)
  \/ Evaluate(c)
  \/ FinishEvaluation(c)
  \/ InsertObservation(c)
  \/ CommitObservations(c)
  \/ FinishRun(c)

Fault(c) == EvaluationRaises(c) \/ WriteFails(c) \/ Crash(c)

Next ==
  \/ \E c \in Calls : Step(c) \/ Fault(c)
  \/ Prune
  \/ Tick

Spec == Init /\ [][Next]_vars

\* A call in flight keeps running unless it fails; nothing forces a fault,
\* a prune or the start of a call.
Fairness == \A c \in Calls : WF_vars(Step(c) /\ pc[c] # "ready")

FairSpec == Spec /\ Fairness

-----------------------------------------------------------------------------
(* Properties.                                                             *)

\* Types: every variable stays in the set its comment promises.
TypeOK ==
  /\ clock \in Nat
  /\ DOMAIN runTable \subseteq Nat \ {0}
  /\ \A i \in DOMAIN runTable : runTable[i] \in RunRow
  /\ obsTable \subseteq ObsRow
  /\ writer \in Calls \cup {NoCall}
  /\ pc \in [Calls -> Phase]
  /\ now \in [Calls -> Nat]
  /\ scope \in [Calls -> SUBSET Checks]
  /\ untried \in [Calls -> SUBSET Sources]
  /\ adapters \in [Calls -> SUBSET Sources]
  /\ failed \in [Calls -> SUBSET Sources]
  /\ results \in [Calls -> SUBSET Result]
  /\ runId \in [Calls -> Nat]
  /\ pending \in [Calls -> SUBSET ObsRow]

\* A run that reads as finished has all its observations: its stored status
\* is the worst of the rows stored under its id.  This is what latest_run
\* and reconstruct_run take for granted; it joins two tables written in two
\* separate transactions, with crashes and prunes in between.
FinishedRunComplete ==
  \A i \in DOMAIN runTable :
    runTable[i].finished =>
      runTable[i].status = WorstStatus({o.status : o \in ObsOf(i)})

\* The REFERENCES clause of table observation, which SQLite does not enforce
\* here: no observation outlives its run row, not even one recorded by a
\* call that was evaluating while the prune committed.
ReferentialIntegrity == \A o \in obsTable : o.run \in DOMAIN runTable

\* Between start_run and finish_run a call owns its run row: the row exists,
\* still reads RUNNING, and no other call in flight writes under the same
\* id, although ids of deleted rows are handed out again.
OwnRunRow ==
  \A c \in Calls :
    pc[c] \in Open =>
      /\ runId[c] \in DOMAIN runTable
      /\ ~runTable[runId[c]].finished
      /\ runTable[runId[c]].started = now[c]
      /\ \A d \in Calls \ {c} :
           pc[d] \in Open => runId[d] # runId[c]

\* "The run's observations either all land or none do" (record_observations),
\* and they also leave together: a committed change of table observation
\* adds all results of a call's run or removes whole runs.
WholeRunsOnly ==
  [][/\ \A o \in obsTable' \ obsTable :
          \E c \in Calls : o \in RowsOf(c) /\ RowsOf(c) \subseteq obsTable'
     /\ \A o \in obsTable \ obsTable' : \A p \in ObsOf(o.run) : p \notin obsTable'
    ]_vars

\* Every finished run, with its rows, as one entry of the abstract log.
EntryOf(i) ==
  [id |-> i, started |-> runTable[i].started, status |-> runTable[i].status,
   rows |-> {[check |-> o.check, status |-> o.status] : o \in ObsOf(i)}]

FinishedIds == {i \in DOMAIN runTable : runTable[i].finished}

LogOf == {EntryOf(i) : i \in FinishedIds}

Abstract == INSTANCE RunLog WITH log <- LogOf

\* The two tables, read through latest_run and observations_for_run, are an
\* append-and-expire log of complete runs: finish_run publishes a run in one
\* step, a published run never changes, and only prunes remove runs.
ImplementsRunLog == Abstract!LogSpec

\* A call that got past `now` ends: no call waits forever for the write lock,
\* because whoever holds it commits, fails or dies.
EveryCallEnds == \A c \in Calls : pc[c] = "connecting" ~> pc[c] \in Ended

\* The inductive strengthening of the three invariants above (proved in
\* StoreProofs): what ties a row to its run, and a call to the clock.
StampedWithStart ==
  \A o \in obsTable :
    o.run \in DOMAIN runTable /\ o.at = runTable[o.run].started

WithinRunTime ==
  \A c \in Calls :
    InFlight(c) => now[c] <= clock /\ clock <= now[c] + MaxRunTime

OneResultPerCheck ==
  \A c \in Calls : \A q, r \in results[c] : q.check = r.check => q = r

AllOrNothingSoFar ==
  \A c \in Calls :
    /\ pc[c] \in {"evaluating", "recording"} => ObsOf(runId[c]) = {}
    /\ pc[c] = "finishing" => ObsOf(runId[c]) = RowsOf(c)

OneRowPerCheck ==
  \A o, p \in obsTable : o.run = p.run /\ o.check = p.check => o = p

\* Everything a prune, a crash or another call must not disturb: the tables
\* agree with each other and with every call still using them.
StoreInv ==
  /\ TypeOK
  /\ WithinRunTime
  /\ StampedWithStart
  /\ OwnRunRow
  /\ OneResultPerCheck
  /\ AllOrNothingSoFar
  /\ OneRowPerCheck
  /\ FinishedRunComplete
=============================================================================
