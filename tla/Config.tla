------------------------------- MODULE Config -------------------------------
(***************************************************************************)
(* Composing a configuration from its files (config.py): the root file and *)
(* the files it includes are read, ${VAR}s replaced, the check_sets of all *)
(* files put together, tables: entries flattened into check blocks, the    *)
(* blocks built and validated as one list.  load_config stops at the first *)
(* problem, load_config_tolerant lets a missing variable pass, and         *)
(* validate_config collects.  Pure operators over the contents of files.   *)
(*                                                                         *)
(* A file is [checks, tables, sets]; a table stands for a source and an    *)
(* object, a metric for everything else a derived check_id hashes.         *)
(***************************************************************************)
EXTENDS Integers, Sequences, FiniteSets, SequencesExt

CONSTANTS
  LoadOrder,     \* the root file, then the included ones in lexicographic order
  Tables,        \* names of tables, as written in a file
  Meant,         \* the name each written name becomes once its ${VAR} is replaced
  Unconfigured,  \* tables whose source no sources: entry describes
  Metrics, Params, SetNames, Ids

Files == ToSet(LoadOrder)

None == "none"

ASSUME ConfigAssumption ==
  /\ LoadOrder \in Seq(Files) /\ LoadOrder # <<>>
  /\ IsInjective(LoadOrder)
  /\ Meant \in [Tables -> Tables]
  /\ Unconfigured \subseteq Tables
  /\ None \notin Tables \cup SetNames

Activity == {"unset", "on", "off"}

\* "unbuildable" blocks make _build_check raise; "rejected" ones are built
\* and fail validation; "restating" ones repeat the source and object their
\* table entry already states.
Bodies == {"good", "unbuildable", "rejected", "restating", "not a mapping"}

\* A check block.  arg is the parameter its text mentions as {{ arg }}.
Block == [table : Tables \cup {None}, metric : Metrics, id : Ids \cup {None},
          active : Activity, arg : Params \cup {None}, body : Bodies]

\* A block of checks: names its table; one of an entry or a set leaves that to
\* the entry.  Placeholders mean something in the items of a set only.
FlatCheck == {b \in Block : b.table # None /\ b.arg = None /\ b.body # "restating"}
SetItem == {b \in Block : b.table = None}
EntryCheck == {b \in SetItem : b.arg = None}

Entry == [table : Tables \cup {None}, active : Activity, about : {None, "text"},
          use : SetNames \cup {None}, with : SUBSET Params, skip : SUBSET Metrics,
          checks : Seq(EntryCheck)]

CheckSet == [ok : BOOLEAN, with : SUBSET Params, checks : Seq(SetItem)]

IsFile(x) == /\ x \in [checks : Seq(FlatCheck), tables : Seq(Entry), sets : {x.sets}]
             /\ x.sets \in [DOMAIN x.sets -> CheckSet]
             /\ DOMAIN x.sets \subseteq SetNames

-----------------------------------------------------------------------------
\* Parts of sequences

\* The elements of s at the places in I, in order.
Picked(s, I) ==
  LET Nth(k) == CHOOSE i \in I : Cardinality({j \in I : j <= i}) = k
  IN  [k \in 1..Cardinality(I) |-> s[Nth(k)]]

\* The elements of s that are in T, in order.
Where(s, T) == Picked(s, {i \in DOMAIN s : s[i] \in T})

-----------------------------------------------------------------------------
\* ${VAR} interpolation

Resolved(t, undefined) == IF t \in undefined \cup {None} THEN t ELSE Meant[t]

InterpolateEnv(file, undefined) ==
  LET Named(s) == [i \in DOMAIN s |-> [s[i] EXCEPT !.table = Resolved(@, undefined)]]
  IN  [file EXCEPT !.checks = Named(@), !.tables = Named(@)]

Missing(files, undefined) ==
  undefined \cap UNION {{x.table : x \in ToSet(files[f].checks) \cup ToSet(files[f].tables)}
                        : f \in Files}

-----------------------------------------------------------------------------
\* check_sets: of all files

\* The files, by their place in the order, that define set n well enough.
Definers(files, order, n) ==
  {i \in DOMAIN order : /\ n \in DOMAIN files[order[i]].sets
                        /\ files[order[i]].sets[n].ok}

\* The first file to define a name keeps it.
ComposedSets(files, order) ==
  [n \in {m \in SetNames : Definers(files, order, m) # {}} |->
     files[order[Min(Definers(files, order, n))]].sets[n]]

\* Mutant of SetProblems: a second definition of a name goes unnoticed.
OnlyMalformedSets(files, order) ==
  {"malformed set" : n \in {m \in SetNames : \E f \in Files :
      m \in DOMAIN files[f].sets /\ ~files[f].sets[m].ok}}

SetProblems(files, order) ==
  {"malformed set" : n \in {m \in SetNames : \E f \in Files :
      m \in DOMAIN files[f].sets /\ ~files[f].sets[m].ok}}
  \cup {"set defined twice" : n \in {m \in SetNames :
      Cardinality(Definers(files, order, m)) > 1}}

-----------------------------------------------------------------------------
\* tables: entries

Placeable(b) == b.body \notin {"not a mapping", "restating"}
BlockProblems(S) == {"misplaced check" : b \in {c \in S : ~Placeable(c)}}

\* _expand_check_set: a table's with: adds to and overrides the set's.
Parameters(e, sets) == sets[e.use].with \cup e.with

\* _substitute_placeholders: the item's placeholder has a value.
Supplied(b, e, sets) == b.arg \in Parameters(e, sets) \cup {None}

\* skip: names metrics; an item that is no mapping has none.
Skipped(b, e) == b.body # "not a mapping" /\ b.metric \in e.skip

Expanded(e, sets) ==
  LET items == sets[e.use].checks
  IN  IF e.use \notin DOMAIN sets THEN <<>>
      ELSE Where(items, {b \in ToSet(items) :
                           Placeable(b) /\ ~Skipped(b, e) /\ Supplied(b, e, sets)})

UseProblems(e, sets) ==
  IF e.use \notin DOMAIN sets THEN {"unknown set"}
  ELSE LET items == ToSet(sets[e.use].checks)
           kept == {b \in items : ~Skipped(b, e)}
       IN  {"stray parameter" : p \in Parameters(e, sets) \ {b.arg : b \in items}}
           \cup {"unknown skip" : m \in e.skip
                    \ {b.metric : b \in {c \in items : Skipped(c, e)}}}
           \cup BlockProblems(kept)
           \cup {"parameter without value" : b \in {c \in kept :
                    Placeable(c) /\ ~Supplied(c, e, sets)}}

\* 'with' and 'skip' mean nothing without 'use'.
Meaningless(e) == e.use = None /\ (e.with # {} \/ e.skip # {})

\* The entry's own active is a default, never an override.
WithEntryActive(b, e) == IF b.active = "unset" THEN e.active ELSE b.active

\* What one entry contributes: its set's checks, then its own.
FlattenEntry(e, sets) ==
  IF e.table = None \/ Meaningless(e) THEN <<>>
  ELSE LET own == Where(e.checks, {b \in ToSet(e.checks) : Placeable(b)})
           bs == Expanded(e, sets) \o own
       IN  [i \in DOMAIN bs |-> [bs[i] EXCEPT !.table = e.table, !.arg = None,
                                              !.active = WithEntryActive(bs[i], e)]]

FlattenTableChecks(tables, sets) ==
  FlattenSeq([i \in DOMAIN tables |-> FlattenEntry(tables[i], sets)])

EntryProblems(e, sets) ==
  IF e.table = None THEN {"no table"}
  ELSE IF Meaningless(e) THEN {"with or skip without use"}
  ELSE (IF e.use = None THEN {} ELSE UseProblems(e, sets)) \cup BlockProblems(ToSet(e.checks))

TableProblems(tables, sets) == UNION {EntryProblems(e, sets) : e \in ToSet(tables)}

\* Entries, by place, whose lineage metadata describes their table.
Described(tables) == {i \in DOMAIN tables : tables[i].table # None /\ tables[i].about # None}

MetaProblems(tables) ==
  {"described twice" : p \in {q \in Described(tables) \X Described(tables) :
      q[1] # q[2] /\ tables[q[1]].table = tables[q[2]].table}}

-----------------------------------------------------------------------------
\* The composed list

AllTables(files, order) == FlattenSeq([i \in DOMAIN order |-> files[order[i]].tables])

\* Per file, the flat checks: and then the flattened tables:.
RawChecks(files, order, sets) ==
  FlattenSeq([i \in DOMAIN order |->
     files[order[i]].checks \o FlattenTableChecks(files[order[i]].tables, sets)])

CheckId(b) == IF b.id # None THEN <<b.id>> ELSE <<b.table, b.metric>>

ValidateChecks(raw) ==
  {"rejected check" : b \in {c \in ToSet(raw) : c.body = "rejected"}}
  \cup {"unknown source" : b \in {c \in ToSet(raw) : c.table \in Unconfigured}}
  \cup {"duplicate check_id" : p \in {q \in (DOMAIN raw) \X (DOMAIN raw) :
           q[1] < q[2] /\ CheckId(raw[q[1]]) = CheckId(raw[q[2]])}}

\* A described table without a check to catch its unknown source.
MetaSourceProblems(tables, raw) ==
  {"unknown source" : i \in {j \in Described(tables) :
      /\ tables[j].table \in Unconfigured
      /\ tables[j].table \notin {b.table : b \in ToSet(raw)}}}

-----------------------------------------------------------------------------
\* The three ways to load.  An outcome is how the call ends and, for
\* validate_config, what it returns: the variables without a value and the
\* problems.

Compose(files, undefined, order) ==
  LET read == [f \in Files |-> InterpolateEnv(files[f], undefined)]
      sets == ComposedSets(read, order)
      tables == AllTables(read, order)
  IN  [raw |-> RawChecks(read, order, sets), tables |-> tables,
       problems |-> SetProblems(read, order) \cup TableProblems(tables, sets)
                    \cup MetaProblems(tables)]

\* A block that is no mapping has no .get: _build_check raises an
\* AttributeError, which nothing translates into a ConfigError.
BuildFailure(b) ==
  CASE b.body = "not a mapping" -> "AttributeError"
    [] b.body = "unbuildable" -> "ConfigError"
    [] OTHER -> "loaded"

Unbuilt(raw) == {i \in DOMAIN raw : BuildFailure(raw[i]) # "loaded"}

LoadOutcome(files, undefined, order, tolerant) ==
  LET c == Compose(files, undefined, order)
  IN  IF (Missing(files, undefined) # {} /\ ~tolerant) \/ c.problems # {} THEN "ConfigError"
      ELSE IF Unbuilt(c.raw) # {} THEN BuildFailure(c.raw[Min(Unbuilt(c.raw))])
      ELSE IF ValidateChecks(c.raw) \cup MetaSourceProblems(c.tables, c.raw) # {}
           THEN "ConfigError"
      ELSE "loaded"

Loads(files) == LoadOutcome(files, {}, LoadOrder, FALSE) = "loaded"

\* Mutant of BuildProblems: a check that fails to build is skipped unrecorded.
NoBuildProblems(raw) == {}

BuildProblems(raw) == {"unbuildable check" : i \in Unbuilt(raw)}

\* Every undefined variable, every problem found on the way, and whatever
\* validation says of the checks that could be built.
ValidateOutcome(files, undefined) ==
  LET c == Compose(files, undefined, LoadOrder)
      built == Where(c.raw, {b \in ToSet(c.raw) : BuildFailure(b) = "loaded"})
  IN  IF \E b \in ToSet(c.raw) : BuildFailure(b) = "AttributeError"
      THEN [end |-> "AttributeError", missing |-> {}, problems |-> {}]
      ELSE [end |-> "validated", missing |-> Missing(files, undefined),
            problems |-> c.problems \cup BuildProblems(c.raw)
                         \cup ValidateChecks(built) \cup MetaSourceProblems(c.tables, c.raw)]

\* What a loaded configuration means to the rest of the program: which
\* checks there are, under which identity, which of them run, and which
\* tables are described.
Meaning(files, order) ==
  LET c == Compose(files, {}, order)
  IN  [checks |-> {[id |-> CheckId(b), table |-> b.table, metric |-> b.metric,
                    runs |-> b.active # "off"] : b \in ToSet(c.raw)},
       described |-> {c.tables[i].table : i \in Described(c.tables)}]
=============================================================================
