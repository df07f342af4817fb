----------------------------- MODULE Evaluation -----------------------------
(***************************************************************************)
(* What run_and_persist relies on while it evaluates: results come in one  *)
(* at a time, one per check; the evaluation returns when every check has   *)
(* one, or raises at any time before.  Evaluate, FinishEvaluation and      *)
(* EvaluationRaises of RunStore are these steps; Engine implements them    *)
(* with a thread per source.                                               *)
(***************************************************************************)
EXTENDS Statuses

CONSTANT Checks

VARIABLES results, phase

evaluation == <<results, phase>>

EvaluationInit == results = {} /\ phase = "evaluating"

Deliver ==
  /\ phase = "evaluating"
  /\ \E k \in Checks \ {r.check : r \in results}, s \in Status :
       results' = results \cup {[check |-> k, status |-> s]}
  /\ UNCHANGED phase

Return ==
  /\ phase = "evaluating"
  /\ {r.check : r \in results} = Checks
  /\ phase' = "returned"
  /\ UNCHANGED results

Raise ==
  /\ phase = "evaluating"
  /\ phase' = "raised"
  /\ UNCHANGED results

EvaluationNext == Deliver \/ Return \/ Raise

EvaluationSpec == EvaluationInit /\ [][EvaluationNext]_evaluation
=============================================================================
