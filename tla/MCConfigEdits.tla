---------------------------- MODULE MCConfigEdits ----------------------------
(***************************************************************************)
(* An instance of ConfigEdits for TLC: a root file and two included ones.  *)
(* Table "v" is written ${VAR}; "u" has no source.                         *)
(***************************************************************************)
EXTENDS ConfigEdits

MCOrder == <<"root", "a", "b">>
MCTables == {"t", "u", "v", "w"}

\* What ${VAR} stands for: a table nobody else names, or table "t".
Apart == [x \in MCTables |-> IF x = "v" THEN "w" ELSE x]
Collides == [x \in MCTables |-> IF x = "v" THEN "t" ELSE x]

B(t, m) == [table |-> t, metric |-> m, id |-> None, active |-> "unset",
            arg |-> None, body |-> "good"]
E(t) == [table |-> t, active |-> "unset", about |-> None, use |-> None,
         with |-> {}, skip |-> {}, checks |-> <<>>]

MCCheckForms ==
  {B("t", "m1"), B("v", "m1"), [B("t", "m2") EXCEPT !.id = "x", !.active = "off"],
   [B("t", "m3") EXCEPT !.body = "unbuildable"], [B("t", "m3") EXCEPT !.body = "not a mapping"]}

MCEntryForms ==
  {[E("t") EXCEPT !.checks = <<B(None, "m1")>>],
   [E("t") EXCEPT !.active = "off", !.about = "text", !.checks = <<B(None, "m2")>>],
   [E("t") EXCEPT !.active = "off", !.checks = <<[B(None, "m3") EXCEPT !.active = "on"]>>],
   [E("u") EXCEPT !.about = "text"],
   [E("v") EXCEPT !.active = "on", !.about = "text", !.checks = <<B(None, "m1")>>],
   [E("t") EXCEPT !.use = "s", !.about = "text"],
   [E("t") EXCEPT !.use = "s", !.active = "off", !.skip = {"m1"}, !.with = {"p"}],
   [E("t") EXCEPT !.skip = {"m1"}],
   [E("t") EXCEPT !.checks = <<[B(None, "m1") EXCEPT !.body = "restating"], B(None, "m2")>>],
   [E(None) EXCEPT !.checks = <<B(None, "m1")>>]}

MCProposals == {<<"m1", "m2">>, <<"m3", "m3">>}

MCSetForms ==
  {[ok |-> TRUE, with |-> {}, checks |-> <<B(None, "m1"), [B(None, "m3") EXCEPT !.id = "x"]>>],
   [ok |-> TRUE, with |-> {"p"}, checks |-> <<B(None, "m1"), [B(None, "m2") EXCEPT !.arg = "p"]>>],
   [ok |-> FALSE, with |-> {}, checks |-> <<>>]}
=============================================================================
