----------------------------- MODULE MCHomeGrid -----------------------------
(***************************************************************************)
(* HomeGrid for TLC: two objects of two sources, the first with two        *)
(* checks; the first day is a holiday.                                    *)
(***************************************************************************)
EXTENDS HomeGrid, TLC

CONSTANTS s1, s2, k1, k2, k3

MCSourceOf == <<s1, s2>>
MCObjectOf == (k1 :> 1) @@ (k2 :> 1) @@ (k3 :> 2)

\* The two checks of one object are interchangeable.
Twins == Permutations({k1, k2})

MCNeedles == {{1, 2}, {2}}
=============================================================================
