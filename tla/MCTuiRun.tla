------------------------------ MODULE MCTuiRun ------------------------------
(***************************************************************************)
(* Instances of TuiRun for TLC: two objects with one check each, so that   *)
(* full and scoped runs differ, and one object with one.                   *)
(***************************************************************************)
EXTENDS TuiRun, TLC

CONSTANTS k1, k2, o1, o2

Apart == (k1 :> o1) @@ (k2 :> o2)
Single == k1 :> o1

\* Exchanging both checks together with their objects.
Mirror == {p \in Permutations({k1, k2, o1, o2}) : \A k \in {k1, k2} :
             p[k] \in {k1, k2} /\ p[Apart[k]] = Apart[p[k]]}
=============================================================================
