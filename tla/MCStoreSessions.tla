--------------------------- MODULE MCStoreSessions ---------------------------
(***************************************************************************)
(* StoreSessions for TLC: two overlapping calls with one check, and one    *)
(* reader.                                                                 *)
(***************************************************************************)
EXTENDS StoreSessions, TLC

CONSTANTS c1, c2, k1, s1, o1, r1

MCSourceOf == k1 :> s1
MCObjectOf == k1 :> o1
MCAddedColumns == <<"expected", "error">>

CallSymmetry == Permutations(Calls)
=============================================================================
