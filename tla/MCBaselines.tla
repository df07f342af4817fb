---------------------------- MODULE MCBaselines ----------------------------
(***************************************************************************)
(* Instances of Baselines for TLC: two table shapes for the schema check,  *)
(* a handful of scalars for the numeric one.                               *)
(***************************************************************************)
EXTENDS Baselines, TLC

CONSTANTS r1, r2

RunnerSymmetry == Permutations({r1, r2})

Shapes == {[type |-> "text", v |-> i] : i \in 1..2}

Number(n) == [type |-> "number", v |-> n]

\* 1 and 2 are close under both guards, 0 and 2 under neither, 1 and then 0
\* under delta alone; 0 is also special as a baseline.
Numbers == {Number(0), Number(1), Number(2), Null}

\* A column whose driver returns decimal.Decimal, but for whole numbers.
Decimals == {Number(2), [type |-> "decimal", v |-> 2], [type |-> "decimal", v |-> 3]}

Unchanged ==
  [expect |-> "unchanged", severity |-> "error", allow_empty |-> FALSE,
   on_missing |-> "pass", ratio |-> TRUE, delta |-> FALSE,
   skip_off_schedule |-> TRUE, scalars |-> Shapes]

RatioOnly == [Unchanged EXCEPT !.expect = "vs_previous", !.on_missing = "warn",
                               !.scalars = Numbers]
BothGuards == [RatioOnly EXCEPT !.severity = "warn", !.delta = TRUE,
                                !.on_missing = "pass"]
DeltaOnly == [RatioOnly EXCEPT !.ratio = FALSE, !.delta = TRUE,
                               !.allow_empty = TRUE]
Skipping == [RatioOnly EXCEPT !.on_missing = "skip"]

OnDecimals == [RatioOnly EXCEPT !.scalars = Decimals]

EveryKind == {Unchanged, RatioOnly, BothGuards, DeltaOnly, Skipping, OnDecimals}
=============================================================================
