-------------------------- MODULE MCConfigureScreen --------------------------
(***************************************************************************)
(* An instance of ConfigureScreen for TLC: a table that may be missing and *)
(* whose timestamp columns may be one or two, and a view without keys.     *)
(***************************************************************************)
EXTENDS ConfigureScreen

Column(name, category, nullable, conventional) ==
  [name |-> name, category |-> category, nullable |-> nullable, conventional |-> conventional]

Id == Column("id", "string", FALSE, FALSE)
Updated == Column("updated_at", "temporal", FALSE, TRUE)
Created == Column("created_at", "temporal", FALSE, TRUE)

Info(columns, keys, is_view) ==
  [columns |-> columns, keys |-> keys, is_view |-> is_view, history |-> TRUE, sees_keys |-> FALSE]

SomeDescriptions ==
  [orders |-> {Info({Id, Updated}, {"id"}, FALSE),
               Info({Id, Updated, Created}, {"id"}, FALSE), Missing},
   totals |-> {Info({Id}, {}, TRUE)}]

SomeForms ==
  {[table |-> "orders", entered |-> "updated_at"], [table |-> "totals", entered |-> ""],
   [table |-> "no table", entered |-> ""]}

Schema == Block("orders", "schema", NoColumn)

JustSchema == {Schema}

\* The view's schema check, written for a ${VAR}.
JustTotals == {Block("totals", "schema", NoColumn)}

\* Everything proposed, or a single box.
AllOrOne(proposed, offered) ==
  {proposed} \cup {{b} : b \in offered \cup (proposed \cap {Schema})}
=============================================================================
