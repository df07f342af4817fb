------------------------------ MODULE Baselines ------------------------------
(***************************************************************************)
(* History-based expectations (engine.py, with the store queries they      *)
(* read): a schema check with `unchanged`, or a numeric check with         *)
(* `vs_previous: {baseline: previous}`.  One check is followed over many   *)
(* runs.  A run reads its baseline while it evaluates and persists its     *)
(* observation later; meanwhile the source changes, other runs commit, a   *)
(* prune deletes old rows, or the process dies.                            *)
(*                                                                         *)
(* How a run's rows reach the table at all is RunStore's subject; here a   *)
(* run has one row and Persist is its commit.                              *)
(***************************************************************************)
EXTENDS Statuses

CONSTANTS
  Runners,     \* processes that run the check again and again
  CheckSpecs,  \* the ways the check may be configured
  MaxRuns,     \* bound on the number of runs started
  NULL,        \* SQL NULL
  NoResult,    \* a runner that has not evaluated yet
  Unreachable  \* a source that raises instead of returning a scalar

ASSUME BaselinesAssumption ==
  /\ \A spec \in CheckSpecs :
       /\ spec.expect \in {"unchanged", "vs_previous"}
       /\ spec.severity \in {"error", "warn"}
       /\ spec.allow_empty \in BOOLEAN
       /\ spec.on_missing \in {"pass", "warn", "skip"}
       /\ spec.ratio \in BOOLEAN /\ spec.delta \in BOOLEAN
       /\ spec.ratio \/ spec.delta
       /\ spec.skip_off_schedule \in BOOLEAN
       /\ \A x \in spec.scalars : x.type \in {"null", "number", "decimal", "text"}
  /\ MaxRuns \in Nat

VARIABLES
  check,    \* how the check is configured: its operator, severity and
            \* options, whether ratio (0.5 .. 2) and delta (-1 .. 1) guards
            \* are set, and the scalars its source may return
  source,   \* what the source returns now, or Unreachable
  obs,      \* the check's committed observations
  started,  \* runs started so far; the clock that stamps them
  at,       \* `now` of each runner's current run
  result,   \* each runner's evaluated result, NoResult before
  shapes    \* history: every value_text ever stored, pruned rows' included

vars == <<check, source, obs, started, at, result, shapes>>

-----------------------------------------------------------------------------
(* Values.                                                                 *)

\* Mutant of SplitValue: a number is stored as text too.
SplitValueTwice(x) ==
  [value |-> IF x.type = "number" THEN x.v ELSE NULL,
   value_text |-> IF x.type # "null" THEN <<x.type, x.v>> ELSE NULL]

\* split_value: int and float go in column value; None in neither; anything
\* else, a fingerprint as well as a Decimal, in column value_text.
SplitValue(x) ==
  [value |-> IF x.type = "number" THEN x.v ELSE NULL,
   value_text |-> IF x.type \in {"decimal", "text"} THEN <<x.type, x.v>> ELSE NULL]

Null == [type |-> "null", v |-> 0]

\* `path` tells which branch of the evaluation produced a result; the code
\* keeps no such field, the properties below use it.
Outcome(status, x, path) == [status |-> status, value |-> x, path |-> path]

-----------------------------------------------------------------------------
(* Store queries.  Rows of one check, newest observed_at first.            *)

\* Mutant of Newest: ORDER BY observed_at ASC.
Oldest(rows) == CHOOSE o \in rows : \A p \in rows : o.at <= p.at

Newest(rows) == CHOOSE o \in rows : \A p \in rows : p.at <= o.at

\* latest_fingerprint_observation.
Fingerprinted(rows) == {o \in rows : o.value_text # NULL}

\* Mutant of Clean: any observation will do (latest_observation).
AnyStatus(rows) == rows

\* latest_clean_observation.
Clean(rows) == {o \in rows : o.status \in CleanStatus}

-----------------------------------------------------------------------------
(* Evaluation.                                                             *)

\* Mutant of EvaluateUnchanged: the baseline is the latest observation of any
\* kind, so a run without a fingerprint looks like a change, or hides one.
CompareWithLatest(x) ==
  LET passed == obs = {} \/ Newest(obs).value_text \in {NULL, SplitValue(x).value_text}
  IN Outcome(Verdict(check.severity, passed), x,
             IF obs = {} THEN "missing" ELSE "compared")

EvaluateUnchanged(x) ==
  LET prior == Fingerprinted(obs)
      passed == prior = {} \/ Newest(prior).value_text = SplitValue(x).value_text
  IN Outcome(Verdict(check.severity, passed), x,
             IF prior = {} THEN "missing" ELSE "compared")

\* The stored `value` of the baseline row; NULL when there is no clean row.
PreviousBaseline ==
  IF Clean(obs) = {} THEN NULL ELSE Newest(Clean(obs)).value

OnMissingStatus == [pass |-> "OK", warn |-> "WARN", skip |-> "SKIPPED"]

\* Every configured guard must hold; ratio guards do not apply to a zero
\* baseline.  (v and baseline are non-negative, so a ratio is a product.)
Close(v, baseline) ==
  /\ check.ratio /\ baseline # 0 => baseline <= 2 * v /\ v <= 2 * baseline
  /\ check.delta => v - baseline \in -1..1

\* A NULL scalar is an empty table; a zero baseline without a delta guard
\* counts as missing; arithmetic on a scalar that is no int or float raises,
\* which evaluate_check turns into an ERROR without a value.
EvaluateVsPrevious(x) ==
  LET baseline == PreviousBaseline
      missing == baseline = NULL \/ (baseline = 0 /\ ~check.delta)
  IN IF x.type = "null"
     THEN Outcome(Verdict(check.severity, check.allow_empty), x, "empty")
     ELSE IF missing
     THEN Outcome(OnMissingStatus[check.on_missing], x, "missing")
     ELSE IF x.type # "number"
     THEN Outcome("ERROR", Null, "error")
     ELSE Outcome(Verdict(check.severity, Close(x.v, baseline)), x, "compared")

-----------------------------------------------------------------------------
(* Actions.                                                                *)

Init ==
  /\ check \in CheckSpecs
  /\ source \in check.scalars
  /\ obs = {}
  /\ started = 0
  /\ at = [r \in Runners |-> 0]
  /\ result = [r \in Runners |-> NoResult]
  /\ shapes = {}

\* A run resolves `now`; microsecond timestamps keep runs apart.
Start(r) ==
  /\ at[r] = 0
  /\ started < MaxRuns
  /\ started' = started + 1
  /\ at' = [at EXCEPT ![r] = started']
  /\ UNCHANGED <<check, source, obs, result, shapes>>

\* Off schedule the check is SKIPPED without touching its source; a source
\* that fails yields an ERROR.  Neither carries a value.
Evaluate(r) ==
  /\ at[r] # 0
  /\ result[r] = NoResult
  /\ \/ /\ check.skip_off_schedule
        /\ result' = [result EXCEPT ![r] = Outcome("SKIPPED", Null, "skipped")]
     \/ /\ source = Unreachable
        /\ result' = [result EXCEPT ![r] = Outcome("ERROR", Null, "error")]
     \/ /\ source # Unreachable
        /\ result' = [result EXCEPT ![r] =
                        IF check.expect = "unchanged" THEN EvaluateUnchanged(source)
                        ELSE EvaluateVsPrevious(source)]
  /\ UNCHANGED <<check, source, obs, started, at, shapes>>

\* `until` is history too: how many runs had begun when the row was stored.
RowOf(r) ==
  [at |-> at[r], until |-> started,
   status |-> result[r].status, path |-> result[r].path,
   value |-> SplitValue(result[r].value).value,
   value_text |-> SplitValue(result[r].value).value_text]

\* The run's observation commits, stamped with the run's `now`.
Persist(r) ==
  /\ result[r] # NoResult
  /\ obs' = obs \cup {RowOf(r)}
  /\ shapes' = shapes \cup ({RowOf(r).value_text} \ {NULL})
  /\ at' = [at EXCEPT ![r] = 0]
  /\ result' = [result EXCEPT ![r] = NoResult]
  /\ UNCHANGED <<check, source, started>>

\* The process dies or the write fails; the runner will start another run.
Lose(r) ==
  /\ at[r] # 0
  /\ at' = [at EXCEPT ![r] = 0]
  /\ result' = [result EXCEPT ![r] = NoResult]
  /\ UNCHANGED <<check, source, obs, started, shapes>>

\* The monitored table changes, or its source goes away and comes back.
Drift ==
  /\ source' \in (check.scalars \cup {Unreachable}) \ {source}
  /\ UNCHANGED <<check, obs, started, at, result, shapes>>

Prune ==
  /\ \E cutoff \in {o.at : o \in obs} :
       obs' = {o \in obs : o.at > cutoff}
  /\ UNCHANGED <<check, source, started, at, result, shapes>>

Next ==
  \/ \E r \in Runners : Start(r) \/ Evaluate(r) \/ Persist(r) \/ Lose(r)
  \/ Drift
  \/ Prune

Spec == Init /\ [][Next]_vars

-----------------------------------------------------------------------------
(* Properties.                                                             *)

Path == {"skipped", "error", "empty", "missing", "compared"}

\* Types: rows carry at most one of value and value_text, each run stamps at
\* most one row, and only a run in progress holds a result.
TypeOK ==
  /\ check \in CheckSpecs
  /\ source \in check.scalars \cup {Unreachable}
  /\ started \in 0..MaxRuns
  /\ at \in [Runners -> 0..started]
  /\ \A o \in obs : /\ o.at \in 1..started /\ o.until \in o.at..started
                    /\ o.status \in Status /\ o.path \in Path
                    /\ o.value = NULL \/ o.value_text = NULL
                    /\ \A p \in obs : p.at = o.at => p = o
  /\ \A r \in Runners : result[r] # NoResult => at[r] # 0

\* Runs other than o's that began after p's and before o was stored: they may
\* stand between the two, or have overlapped o's.
Meanwhile(p, o) == {q \in obs \ {o} : p.at < q.at /\ q.at <= o.until}

\* p was stored before o's run began, and of the runs meanwhile none has left
\* a row that satisfies Usable.
NextAfter(p, o, Usable(_)) ==
  p.until < o.at /\ \A q \in Meanwhile(p, o) : ~Usable(q)

HasFingerprint(o) == o.value_text # NULL

\* "alarms (FAIL/WARN) exactly once, and the new shape becomes the baseline
\* for the next run" (_evaluate_schema), as far as runs can keep it: between
\* a fingerprint and the next run to begin after it was stored, with skipped,
\* failed, crashed, pruned or overlapping older runs in between, the later
\* one alarms exactly when they differ.
UnchangedAlarmsOnce ==
  check.expect = "unchanged" =>
  \A o, p \in obs :
    /\ HasFingerprint(o) /\ HasFingerprint(p)
    /\ NextAfter(p, o, HasFingerprint)
    => (o.status = "OK" <=> o.value_text = p.value_text)

\* However runs overlap, and whatever a prune took, a shape that no run has
\* stored before never passes for an unchanged one.
NoChangeUnnoticed ==
  [][check.expect = "unchanged" =>
       \A o \in obs' \ obs :
         o.path = "compared" /\ o.value_text \notin shapes => o.status # "OK"]_vars

\* No fingerprinted row strictly between p and o.
Adjacent(p, o) ==
  p.at < o.at /\ ~\E q \in obs : p.at < q.at /\ q.at < o.at /\ HasFingerprint(q)

\* What the sentence says of any two fingerprints in a row, overlapping runs
\* included.  _reconstructed_schema_diff and _schema_baselines rely on it:
\* they compare each stored row with the fingerprint before it.  Overlapping
\* runs break it: see Findings in README.md.
ChangeAlarmsExactlyOnce ==
  check.expect = "unchanged" =>
  \A o, p \in obs :
    HasFingerprint(o) /\ HasFingerprint(p) /\ Adjacent(p, o)
    => (o.status = "OK" <=> o.value_text = p.value_text)

Broken(o) == o.status \in {"ERROR", "SKIPPED"}

\* Whether a row's value can serve as a vs_previous baseline at all.
UsableBaseline(o) == o.value # NULL /\ (o.value # 0 \/ check.delta)

\* "a broken or skipped run's null value never becomes the comparison
\* baseline" (latest_clean_observation): once a usable number is stored, only
\* an empty or zero observation since then sends a later run back to
\* on_missing; errors, days off, crashes, prunes and overlaps do not.
BrokenRunsKeepBaseline ==
  check.expect = "vs_previous" =>
  \A o, p \in obs :
    /\ o.path = "missing" /\ p.until < o.at
    /\ ~Broken(p) /\ UsableBaseline(p)
    => \E q \in Meanwhile(p, o) : ~Broken(q) /\ ~UsableBaseline(q)

\* A stored verdict agrees with the stored history: a compared row's status
\* is what its guards say about the clean row stored before its run began,
\* unless a run that began after that row left a clean one meanwhile.
VerdictMatchesHistory ==
  check.expect = "vs_previous" =>
  \A o, p \in obs :
    /\ o.path = "compared" /\ ~Broken(p)
    /\ NextAfter(p, o, LAMBDA q : ~Broken(q))
    => (o.status = "OK" <=> p.value # NULL /\ Close(o.value, p.value))
=============================================================================
