------------------------------ MODULE MCEngine ------------------------------
(***************************************************************************)
(* An instance of Engine for TLC: two sources whose checks alternate, one  *)
(* of them on a database that aborts transactions.                         *)
(***************************************************************************)
EXTENDS Engine

CONSTANTS s1, s2

Alternating == <<s1, s2, s1, s2>>
=============================================================================
