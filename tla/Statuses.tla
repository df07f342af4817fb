------------------------------ MODULE Statuses ------------------------------
(***************************************************************************)
(* The status algebra every other module shares: the five statuses a       *)
(* check can end in, their severity ranks, the run-level aggregation and   *)
(* exit code (models.py), the verdict of a value check (engine.py), and    *)
(* the two dashboard roll-ups that deliberately deviate from it            *)
(* (tui/dashboard.py).  Pure operators, no state.                          *)
(***************************************************************************)
EXTENDS Integers, FiniteSets

Status == {"OK", "WARN", "FAIL", "ERROR", "SKIPPED"}

\* OK and SKIPPED share rank 0.
Severity == [s \in Status |-> IF s = "ERROR" THEN 3 ELSE IF s = "FAIL" THEN 2
                              ELSE IF s = "WARN" THEN 1 ELSE 0]

RankStatus == [r \in 0..3 |-> IF r = 3 THEN "ERROR" ELSE IF r = 2 THEN "FAIL"
                              ELSE IF r = 1 THEN "WARN" ELSE "OK"]

\* max((_SEVERITY[s] for s in statuses), default=0)
WorstRank(S) ==
  CHOOSE r \in 0..3 : /\ r \in {Severity[s] : s \in S} \cup {0}
                      /\ \A s \in S : Severity[s] <= r

WorstStatus(S) == RankStatus[WorstRank(S)]

ExitCode(s) == Severity[s]

\* A check's configured severity decides how a failed verdict is reported.
Verdict(severity, passed) ==
  IF passed THEN "OK" ELSE IF severity = "warn" THEN "WARN" ELSE "FAIL"

\* Statuses whose value may serve as a comparison baseline.
CleanStatus == {"OK", "WARN", "FAIL"}

NoStatus == "none"

\* A dashboard row made of nothing but SKIPPED checks shows SKIPPED.
WorstOrUnknown(S) ==
  IF S = {} THEN NoStatus
  ELSE IF S = {"SKIPPED"} THEN "SKIPPED"
  ELSE WorstStatus(S)

\* What a day's corner marker may flag: something the day saw that is
\* strictly worse than where it ended, FAIL before WARN before ERROR.
Qualifies(candidate, latest, S) ==
  /\ candidate \in S
  /\ candidate # latest
  /\ WorstStatus({candidate, latest}) = candidate

DayMarker(latest, S) ==
  IF latest = NoStatus THEN NoStatus
  ELSE IF Qualifies("FAIL", latest, S) THEN "FAIL"
  ELSE IF Qualifies("WARN", latest, S) THEN "WARN"
  ELSE IF Qualifies("ERROR", latest, S) THEN "ERROR"
  ELSE NoStatus
=============================================================================
