------------------------------ MODULE Proposal ------------------------------
(***************************************************************************)
(* Which checks dbfresh proposes and offers for a table, from what its     *)
(* database says about it (configurator.py).  Pure operators.              *)
(*                                                                         *)
(* A block is reduced to what check_id hashes: the table (source and       *)
(* object), the metric, and the column or key.  Expectations, which        *)
(* check_id ignores, and the order of blocks are left out.                 *)
(***************************************************************************)
EXTENDS Naturals, FiniteSets

NoColumn == "no column"

Block(table, metric, column) == [table |-> table, metric |-> metric, column |-> column]

(* A description (ObjectInfo): its columns, each with a name, a category,  *)
(* whether it is nullable and whether its name is a conventional one for a *)
(* timestamp; the columns that alone are a key; whether it is a view; and, *)
(* from the dialect, whether DESCRIBE HISTORY works and keys are visible.  *)

Names(columns) == {c.name : c \in columns}

Temporal(info) == {c \in info.columns : c.category = "temporal"}

\* pick_timestamp_column: the columns among which the choice is.  A single
\* one is taken, several are put to the user.
TimestampCandidates(info) ==
  LET conventional == {c \in Temporal(info) : c.conventional}
  IN  Names(IF conventional # {} THEN conventional ELSE Temporal(info))

NeedsChoice(info) == Cardinality(TimestampCandidates(info)) > 1

\* The freshness part of propose_checks: by a column, or by the history of a
\* table that has no candidate at all.
FreshnessColumns(info, entered) ==
  IF NeedsChoice(info) THEN TimestampCandidates(info) \cap {entered}
  ELSE IF TimestampCandidates(info) # {} THEN TimestampCandidates(info)
  ELSE IF info.history /\ ~info.is_view THEN {NoColumn} ELSE {}

ProposeChecks(table, info, entered) ==
  {Block(table, "schema", NoColumn), Block(table, "row_count", NoColumn)}
    \cup {Block(table, "freshness", c) : c \in FreshnessColumns(info, entered)}
    \cup {Block(table, "duplicate_count", c) : c \in info.keys}

CategoryOffers ==
  [numeric  |-> {"null_rate", "sum", "avg", "min", "max", "duplicate_count"},
   temporal |-> {"freshness", "null_rate"},
   string   |-> {"null_rate", "duplicate_count"},
   boolean  |-> {"null_rate"},
   other    |-> {"null_rate"}]

Offers(table, c) ==
  {Block(table, m, c.name) : m \in {n \in CategoryOffers[c.category] :
                                      n = "null_rate" => c.nullable}}

\* Mutant of OfferedColumnChecks: a proposed key is not looked for, since
\* duplicate_count has its column in `key`.
OfferedDespiteKeys(table, info, proposed) ==
  (UNION {Offers(table, c) : c \in info.columns})
    \ {b \in proposed : b.metric # "duplicate_count"}

\* offered_column_checks: by category, without the pairs of metric and column
\* that are proposed already.
OfferedColumnChecks(table, info, proposed) ==
  (UNION {Offers(table, c) : c \in info.columns}) \ proposed

\* Which notes come with a proposal.
Notes(info, entered) ==
  (IF info.keys = {} /\ ~info.sees_keys THEN {"keys"} ELSE {})
    \cup (IF NeedsChoice(info) /\ entered \notin TimestampCandidates(info)
          THEN {"ambiguous"} ELSE {})
=============================================================================
