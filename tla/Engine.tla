------------------------------- MODULE Engine -------------------------------
(***************************************************************************)
(* run_checks (engine.py) inside run_and_persist (runner.py): the checks   *)
(* are grouped by source, each source's checks run one after another on    *)
(* that source's connection in a thread of their own, and the caller       *)
(* collects the groups in the order the sources first appear.  on_result   *)
(* is called from the threads and may raise; the caller may be             *)
(* interrupted while it waits.  Afterwards run_and_persist closes the      *)
(* adapters.                                                               *)
(*                                                                         *)
(* What a check's query would return is decided beforehand (`fate`), so    *)
(* that a result can be compared with what the check alone would give.     *)
(***************************************************************************)
EXTENDS Statuses, Sequences

CONSTANTS
  N,              \* number of checks; check k is the k-th in config order
  Sources,        \* the configured sources
  SourceOf,       \* the source of each check
  Transactional,  \* sources whose database aborts a transaction on error
  Verdicts        \* statuses a query that succeeds may lead to

ASSUME EngineAssumption ==
  /\ N \in Nat
  /\ SourceOf \in [1..N -> Sources]
  /\ Transactional \subseteq Sources
  /\ Verdicts \subseteq {"OK", "WARN", "FAIL"}

Checks == 1..N

\* paused: active is false.  off: skip_off_schedule on a day off.  compile:
\* raises before it reaches the database (a metric or column that does not
\* compile).  query: its query raises.  answers: its query returns.
Fate == {"paused", "off", "compile", "query", "answers"}

VARIABLES
  fate,       \* what becomes of each check
  failed,     \* failed_sources: sources whose adapter could not be built
  adapters,   \* sources with an open adapter
  thread,     \* the future of each source in by_source
  out,        \* run_source's `results`: what each thread has so far
  calling,    \* sources whose thread is about to call on_result
  aborted,    \* sources whose connection is in an aborted transaction
  delivered,  \* results each thread has passed to on_result, in order
  main,       \* where the calling thread is
  taken,      \* sources whose results it has collected
  collected   \* `results` of run_checks

vars == <<fate, failed, adapters, thread, out, calling, aborted, delivered,
          main, taken, collected>>

-----------------------------------------------------------------------------
(* Grouping.                                                               *)

ChecksOf(s) == {k \in Checks : SourceOf[k] = s}

\* The keys of by_source, a dict in insertion order.
BySource == {SourceOf[k] : k \in Checks}

\* s comes before t in by_source.
Before(s, t) == \E k \in ChecksOf(s) : \A j \in ChecksOf(t) : k < j

\* Mutant of Referenced: a source counts by its first check only.
ReferencedByFirst ==
  {s \in BySource : \E k \in ChecksOf(s) : /\ fate[k] # "paused"
                                           /\ \A j \in ChecksOf(s) : k <= j}

\* Sources of the checks that are not paused; only these are connected to.
Referenced ==
  {SourceOf[k] : k \in {j \in Checks : fate[j] # "paused"}}

Done(s) == {out[s][i].check : i \in DOMAIN out[s]}

\* The next check of a thread, in config order.
Upcoming(s) ==
  {k \in ChecksOf(s) \ Done(s) : \A j \in ChecksOf(s) \ Done(s) : k <= j}

-----------------------------------------------------------------------------
(* The threads.                                                            *)

Init ==
  /\ fate \in [Checks -> Fate]
  /\ failed \in SUBSET Referenced
  /\ adapters = Referenced \ failed
  /\ thread = [s \in BySource |-> "queued"]
  /\ out = [s \in BySource |-> <<>>]
  /\ calling = {}
  /\ aborted = {}
  /\ delivered = [s \in BySource |-> <<>>]
  /\ main = "collecting"
  /\ taken = {}
  /\ collected = <<>>

\* There are as many pool threads as sources: none waits for another.
Take(s) ==
  /\ thread[s] = "queued"
  /\ thread' = [thread EXCEPT ![s] = "running"]
  /\ UNCHANGED <<fate, failed, adapters, out, calling, aborted, delivered,
                 main, taken, collected>>

\* What evaluate_check makes of a check on an adapter of its source.
StatusesOf(k) ==
  IF fate[k] = "paused" THEN {"SKIPPED"}
  ELSE IF SourceOf[k] \in failed THEN {"ERROR"}
  ELSE IF fate[k] = "off" THEN {"SKIPPED"}
  ELSE IF fate[k] # "answers" \/ SourceOf[k] \in aborted THEN {"ERROR"}
  ELSE Verdicts

\* Whether evaluating a check sends its query to the database.
Queries(k) ==
  fate[k] \in {"query", "answers"} /\ SourceOf[k] \notin failed

\* Mutant of Evaluate: every source shares one connection.
EvaluateOnOneConnection(s) ==
  /\ thread[s] = "running"
  /\ s \notin calling
  /\ \E k \in Upcoming(s) : \E status \in StatusesOf(k) :
       /\ out' = [out EXCEPT ![s] = Append(@, [check |-> k, status |-> status])]
       /\ aborted' = IF Queries(k) /\ fate[k] = "query" /\ s \in Transactional
                     THEN Sources ELSE aborted
  /\ calling' = calling \cup {s}
  /\ UNCHANGED <<fate, failed, adapters, thread, delivered, main, taken,
                 collected>>

\* One check, evaluated and appended.  After an error such a database answers
\* no query until a rollback, which the adapter never sends.
Evaluate(s) ==
  /\ thread[s] = "running"
  /\ s \notin calling
  /\ \E k \in Upcoming(s) : \E status \in StatusesOf(k) :
       /\ out' = [out EXCEPT ![s] = Append(@, [check |-> k, status |-> status])]
       /\ aborted' = IF Queries(k) /\ fate[k] = "query" /\ s \in Transactional
                     THEN aborted \cup {s} ELSE aborted
  /\ calling' = calling \cup {s}
  /\ UNCHANGED <<fate, failed, adapters, thread, delivered, main, taken,
                 collected>>

\* on_result gets the result just appended.
OnResult(s) ==
  /\ s \in calling
  /\ delivered' = [delivered EXCEPT ![s] = Append(@, out[s][Len(out[s])])]
  /\ calling' = calling \ {s}
  /\ UNCHANGED <<fate, failed, adapters, thread, out, aborted, main, taken,
                 collected>>

\* Mutant of OnResultRaises: the thread goes on, its result undelivered.
OnResultSwallowed(s) ==
  /\ s \in calling
  /\ calling' = calling \ {s}
  /\ UNCHANGED <<fate, failed, adapters, thread, out, aborted, delivered,
                 main, taken, collected>>

\* on_result raises: the source's later checks are never evaluated.
OnResultRaises(s) ==
  /\ s \in calling
  /\ calling' = calling \ {s}
  /\ thread' = [thread EXCEPT ![s] = "raised"]
  /\ UNCHANGED <<fate, failed, adapters, out, aborted, delivered, main, taken,
                 collected>>

FinishSource(s) ==
  /\ thread[s] = "running"
  /\ s \notin calling
  /\ Done(s) = ChecksOf(s)
  /\ thread' = [thread EXCEPT ![s] = "finished"]
  /\ UNCHANGED <<fate, failed, adapters, out, calling, aborted, delivered,
                 main, taken, collected>>

-----------------------------------------------------------------------------
(* The caller.                                                             *)

\* Mutant of Turn: groups are collected as they finish.
AnyTurn(s) == s \in BySource \ taken

\* pool.map hands out results in the order of by_source.
Turn(s) ==
  s \in BySource \ taken /\ \A t \in BySource \ (taken \cup {s}) : Before(s, t)

Collect(s) ==
  /\ main = "collecting"
  /\ Turn(s)
  /\ thread[s] = "finished"
  /\ collected' = collected \o out[s]
  /\ taken' = taken \cup {s}
  /\ UNCHANGED <<fate, failed, adapters, thread, out, calling, aborted,
                 delivered, main>>

\* A future raises when its turn comes, or the wait is interrupted: futures
\* no thread has picked up are cancelled.
Drain ==
  /\ main = "collecting"
  /\ main' = "draining"
  /\ thread' = [s \in BySource |-> IF thread[s] = "queued" THEN "dropped"
                                   ELSE thread[s]]
  /\ UNCHANGED <<fate, failed, adapters, out, calling, aborted, delivered,
                 taken, collected>>

CollectRaises(s) == Turn(s) /\ thread[s] = "raised" /\ Drain

Interrupt == taken # BySource /\ Drain

Running(s) == thread[s] \in {"queued", "running"}

\* Mutant of LeavePool: the pool is shut down without waiting.
LeaveAtOnce ==
  /\ \/ main = "collecting" /\ taken = BySource /\ main' = "returned"
     \/ main = "draining" /\ main' = "raised"
  /\ UNCHANGED <<fate, failed, adapters, thread, out, calling, aborted,
                 delivered, taken, collected>>

\* Leaving the `with` block waits for the threads still running.
LeavePool ==
  /\ \/ main = "collecting" /\ taken = BySource /\ main' = "returned"
     \/ main = "draining" /\ main' = "raised"
  /\ \A s \in BySource : ~Running(s)
  /\ UNCHANGED <<fate, failed, adapters, thread, out, calling, aborted,
                 delivered, taken, collected>>

\* Mutant of CloseAdapters: no finally, adapters close after a normal return.
CloseAfterReturn ==
  /\ main = "returned"
  /\ adapters # {}
  /\ adapters' = {}
  /\ UNCHANGED <<fate, failed, thread, out, calling, aborted, delivered, main,
                 taken, collected>>

\* run_and_persist's finally clause.
CloseAdapters ==
  /\ main \in {"returned", "raised"}
  /\ adapters # {}
  /\ adapters' = {}
  /\ UNCHANGED <<fate, failed, thread, out, calling, aborted, delivered, main,
                 taken, collected>>

Thread(s) ==
  \/ Take(s)
  \/ Evaluate(s)
  \/ OnResult(s)
  \/ OnResultRaises(s)
  \/ FinishSource(s)

Caller ==
  \/ \E s \in BySource : Collect(s) \/ CollectRaises(s)
  \/ LeavePool
  \/ CloseAdapters

Next == (\E s \in BySource : Thread(s)) \/ Caller \/ Interrupt

Spec == Init /\ [][Next]_vars

\* Queries end (sources have a timeout) and so do calls of on_result.
Fairness == WF_vars(Caller) /\ \A s \in BySource : WF_vars(Thread(s))

FairSpec == Spec /\ Fairness

-----------------------------------------------------------------------------
(* Properties.                                                             *)

OneResult == [check : Checks, status : Status]

\* Types: threads have results for checks of their own source only.
TypeOK ==
  /\ fate \in [Checks -> Fate]
  /\ failed \subseteq Referenced
  /\ adapters \subseteq Referenced
  /\ thread \in [BySource -> {"queued", "running", "finished", "raised", "dropped"}]
  /\ \A s \in BySource : /\ out[s] \in Seq(OneResult)
                         /\ delivered[s] \in Seq(OneResult)
                         /\ Done(s) \subseteq ChecksOf(s)
  /\ calling \subseteq BySource
  /\ aborted \subseteq Transactional
  /\ main \in {"collecting", "draining", "returned", "raised"}
  /\ taken \subseteq BySource
  /\ collected \in Seq(OneResult)

\* A thread that goes on to a check that needs an adapter finds an open one:
\* `adapters[source]` raises no KeyError that would discard the whole run,
\* and run_and_persist closes no adapter a thread is still using, although an
\* interrupted run leaves threads behind for a while.
AdapterAtHand ==
  \A s \in BySource :
    Running(s) => \A k \in ChecksOf(s) \ Done(s) :
                    fate[k] # "paused" /\ s \notin failed => s \in adapters

\* Types and adapters.
EngineInv == TypeOK /\ AdapterAtHand

\* The checks in the order a report lists them: by the first appearance of
\* their source, then in config order.
Precedes(j, k) ==
  IF SourceOf[j] = SourceOf[k] THEN j < k ELSE Before(SourceOf[j], SourceOf[k])

\* A run that returns has one result per check, in an order that does not
\* depend on which source was faster.
ResultsInOrder ==
  main = "returned" =>
    /\ {collected[i].check : i \in DOMAIN collected} = Checks
    /\ \A i, j \in DOMAIN collected :
         i < j => Precedes(collected[i].check, collected[j].check)

\* "called once per check as its Result becomes available" (run_checks): a
\* run that returns has passed exactly its results to on_result, and no run
\* passes one twice.
EachResultDeliveredOnce ==
  /\ \A s \in BySource : \A i, j \in DOMAIN delivered[s] :
       delivered[s][i].check = delivered[s][j].check => i = j
  /\ main = "returned" =>
       {collected[i] : i \in DOMAIN collected}
         = UNION {{delivered[s][i] : i \in DOMAIN delivered[s]} : s \in BySource}

\* A check that cannot be evaluated itself: its source is unreachable, or its
\* own query does not compile or raises.
FailsItself(k) ==
  /\ fate[k] # "paused"
  /\ SourceOf[k] \in failed \/ fate[k] \in {"compile", "query"}

\* "every check on that source -> ERROR ... Never OK" and "one unreachable
\* source never blocks the rest of the run" (run_checks): what cannot be
\* evaluated is an ERROR and nothing else, and an ERROR is never another
\* source's doing.  It is the check's own, or it comes after a query that
\* failed on the same connection, to a database that aborts transactions.
ErrorsAreLocal ==
  \A s \in BySource : \A i \in DOMAIN out[s] :
    /\ FailsItself(out[s][i].check) => out[s][i].status = "ERROR"
    /\ out[s][i].status = "ERROR" /\ ~FailsItself(out[s][i].check)
         => /\ s \in Transactional
            /\ \E j \in 1..i-1 : FailsItself(out[s][j].check)

\* "Query error (bad column, permission, syntax): that check -> ERROR"
\* (docs/original-specification.md): a check whose own query would return is
\* no ERROR because of another check's query.  Aborted transactions break it:
\* see Findings in README.md.
QueryErrorsStayOwn ==
  \A s \in BySource : \A i \in DOMAIN out[s] :
    out[s][i].status = "ERROR" => FailsItself(out[s][i].check)

\* Every evaluation ends, with all adapters closed.
EvaluationEnds == <>(main \in {"returned", "raised"} /\ adapters = {})

Abstract ==
  INSTANCE Evaluation
    WITH results <- UNION {{out[s][i] : i \in DOMAIN out[s]} : s \in BySource},
         phase <- IF main \in {"collecting", "draining"} THEN "evaluating" ELSE main

\* The threads together are the evaluation RunStore takes for granted.
ImplementsEvaluation == Abstract!EvaluationSpec
=============================================================================
