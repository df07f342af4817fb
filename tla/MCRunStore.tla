----------------------------- MODULE MCRunStore -----------------------------
(***************************************************************************)
(* Instances of RunStore for TLC: two sources, one of them with two checks *)
(* on different objects of which one is paused in some configurations.     *)
(***************************************************************************)
EXTENDS RunStore, TLC

CONSTANTS c1, c2, c3, k1, k2, s1, s2, o1

MCSourceOf == (k1 :> s1) @@ (k2 :> s2)
MCObjectOf == (k1 :> o1) @@ (k2 :> o1)

\* Calls are interchangeable: no definition singles one out.
CallSymmetry == Permutations(Calls)
=============================================================================
