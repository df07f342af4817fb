----------------------------- MODULE ConfigEdits -----------------------------
(***************************************************************************)
(* People and commands editing the files of one configuration.  dbfresh    *)
(* never writes a configuration: `dbfresh add` proposes checks and         *)
(* `dbfresh config migrate` regroups a file's checks under tables:, and in *)
(* both cases the user pastes the printed block.  Hand edits come from     *)
(* small libraries of things people write, CheckForms, EntryForms and      *)
(* SetForms.                                                               *)
(***************************************************************************)
EXTENDS Config

CONSTANTS
  CheckForms, EntryForms, SetForms,
  Objects,     \* tables people run the wizard for
  Proposals,   \* sequences of metrics it may propose: the column offers
               \* can repeat one
  MaxEdits     \* bound on hand edits and pasted proposals together

Root == LoadOrder[1]

ASSUME ConfigEditsAssumption ==
  /\ \A b \in CheckForms : b \in FlatCheck
  /\ \A d \in SetForms : d \in CheckSet
  /\ \A e \in EntryForms : e \in Entry
  /\ Objects \subseteq {t \in Tables \ Unconfigured : Meant[t] = t}
  /\ Proposals \subseteq Seq(Metrics)
  /\ MaxEdits \in Nat

VARIABLES
  files,       \* the contents of each file
  edits

vars == <<files, edits>>

TypeOK ==
  /\ files = [f \in Files |-> files[f]]
  /\ \A f \in Files : IsFile(files[f])
  /\ edits \in 0..MaxEdits

Init ==
  /\ files = [f \in Files |-> [checks |-> <<>>, tables |-> <<>>, sets |-> <<>>]]
  /\ edits = 0

-----------------------------------------------------------------------------
\* Edits by hand

Edit(f, file) ==
  /\ edits < MaxEdits
  /\ edits' = edits + 1
  /\ files' = [files EXCEPT ![f] = file]

WriteCheck(f) ==
  \E b \in CheckForms : Edit(f, [files[f] EXCEPT !.checks = Append(@, b)])

WriteEntry(f) ==
  /\ \E e \in EntryForms : Edit(f, [files[f] EXCEPT !.tables = Append(@, e)])

DefineSet(f) ==
  /\ \E n \in SetNames : \E d \in SetForms :
       /\ n \notin DOMAIN files[f].sets
       /\ Edit(f, [files[f] EXCEPT !.sets =
                     [m \in DOMAIN @ \cup {n} |-> IF m = n THEN d ELSE @[m]]])

-----------------------------------------------------------------------------
\* Grouping

\* The places of s that hold what no earlier place does.
FirstPlaces(s) == {i \in DOMAIN s : \A j \in 1..(i - 1) : s[j] # s[i]}

\* Mutant of Distinct: the order comes out backwards.
DistinctBackwards(s) == Reverse(Picked(s, FirstPlaces(s)))

\* Each element once, where it first occurs.
Distinct(s) == Picked(s, FirstPlaces(s))

TablesOf(s) == [i \in DOMAIN s |-> s[i].table]

\* Mutant of NestedChecks: the blocks go on naming their table.
NestedChecksRestating(checks, t) ==
  Where(checks, {b \in ToSet(checks) : b.table = t})

\* The blocks of table t, which the entry above them names.
NestedChecks(checks, t) ==
  LET own == Where(checks, {b \in ToSet(checks) : b.table = t})
  IN  [i \in DOMAIN own |-> [own[i] EXCEPT !.table = None]]

\* One entry per table in the given order, carrying the fields kept for it.  An
\* entry without checks needs such a field to be kept.
GroupChecksByTable(checks, active, about, order) ==
  LET EntryOf(t) == [table |-> t, use |-> None, with |-> {}, skip |-> {},
                     active |-> IF t \in DOMAIN active THEN active[t] ELSE "unset",
                     about |-> IF t \in about THEN "text" ELSE None,
                     checks |-> NestedChecks(checks, t)]
      named == Distinct(order \o TablesOf(checks))
      kept == Where(named, {t \in ToSet(named) : \/ NestedChecks(checks, t) # <<>>
                                                 \/ t \in about \cup DOMAIN active})
  IN  [i \in DOMAIN kept |-> EntryOf(kept[i])]

-----------------------------------------------------------------------------
\* dbfresh add

\* Mutant of DefinedIds: each file is flattened with its own sets only.
DefinedIdsFileByFile(fs) ==
  UNION {{CheckId(b) : b \in ToSet(fs[f].checks)
                            \cup ToSet(FlattenTableChecks(fs[f].tables, fs[f].sets))} : f \in Files}

\* The files as they are written: no ${VAR} is replaced.
DefinedIds(fs) ==
  {CheckId(b) : b \in ToSet(RawChecks(fs, LoadOrder, ComposedSets(fs, LoadOrder)))}

\* The proposed blocks no check of the configuration, and no earlier block,
\* collides with.
PartitionNewChecks(fs, blocks) ==
  LET defined == DefinedIds(fs)
      ids == [i \in DOMAIN blocks |-> CheckId(blocks[i])]
  IN  Picked(blocks, {i \in FirstPlaces(ids) : ids[i] \notin defined})

Proposed(t, metrics) ==
  [i \in DOMAIN metrics |-> [table |-> t, metric |-> metrics[i], id |-> None,
                             active |-> "unset", arg |-> None, body |-> "good"]]

\* The printed block, pasted under tables: of file f.
Pasted(f, new) ==
  [files EXCEPT ![f].tables = @ \o GroupChecksByTable(new, <<>>, {}, <<>>)]

\* The wizard asks for an object of a configured source and proposes checks.
AddChecks(f) ==
  /\ Loads(files)
  /\ \E t \in Objects, metrics \in Proposals :
       LET new == PartitionNewChecks(files, Proposed(t, metrics))
       IN  /\ new # <<>>
           /\ Edit(f, Pasted(f, new)[f])

-----------------------------------------------------------------------------
\* dbfresh config migrate, on one file as it is written

Plain(file) == Where(file.tables, {e \in ToSet(file.tables) : e.use = None})
SetBacked(file) == Where(file.tables, {e \in ToSet(file.tables) : e.use # None})

Actives(file, t) == {e.active : e \in {x \in ToSet(Plain(file)) : x.table = t}}

\* Mutant of Hoisted: a flat check of the table does not keep it from hoisting.
HoistedOverFlatChecks(file) ==
  {t \in Tables : \E v \in {"on", "off"} : Actives(file, t) = {v}}

\* Tables whose entries' active may stay on the regrouped entry.
Hoisted(file) ==
  {t \in Tables : /\ \E v \in {"on", "off"} : Actives(file, t) = {v}
                  /\ t \notin {b.table : b \in ToSet(file.checks)}}

MigrateProblems(file) ==
  {"misplaced check" : b \in {c \in ToSet(file.checks) : c.body = "not a mapping"}}
  \cup MetaProblems(file.tables)
  \cup TableProblems(Plain(file), <<>>)

\* The block printed in place of checks: and tables:, where first is the key
\* that comes first in the file.
MigratedTables(file, first) ==
  LET hoisted == Hoisted(file)
      unhoisted == [i \in DOMAIN Plain(file) |->
         [Plain(file)[i] EXCEPT !.active = IF Plain(file)[i].table \in hoisted THEN "unset" ELSE @]]
      flat == file.checks
      flattened == FlattenTableChecks(unhoisted, <<>>)
      active == [t \in hoisted |-> CHOOSE v \in Actives(file, t) : TRUE]
      about == {Plain(file)[i].table : i \in Described(Plain(file))}
      raw == IF first = "checks" THEN flat \o flattened ELSE flattened \o flat
      order == IF first = "checks" THEN TablesOf(flat) \o TablesOf(Plain(file))
               ELSE TablesOf(Plain(file)) \o TablesOf(flat)
  IN  GroupChecksByTable(raw, active, about, order) \o SetBacked(file)

\* Nothing is printed for a file without checks or already grouped.
HasToMigrate(file, first) ==
  LET tables == MigratedTables(file, first)
  IN  tables # <<>> /\ (file.checks # <<>> \/ tables # file.tables)

Migrated(f, first) ==
  [files EXCEPT ![f].checks = <<>>, ![f].tables = MigratedTables(files[f], first)]

Migrate(f, first) ==
  /\ MigrateProblems(files[f]) = {}
  /\ HasToMigrate(files[f], first)
  /\ files' = Migrated(f, first)
  /\ UNCHANGED edits

-----------------------------------------------------------------------------
Next ==
  \E f \in Files :
    \/ WriteCheck(f) \/ WriteEntry(f) \/ DefineSet(f)
    \/ AddChecks(f)
    \/ Migrate(f, "checks") \/ Migrate(f, "tables")

Spec == Init /\ [][Next]_vars

-----------------------------------------------------------------------------
\* Properties

Orders == {o \in [DOMAIN LoadOrder -> Files] : IsInjective(o) /\ o[1] = Root}

\* The load order of included files carries no semantics (config.py,
\* resolve_includes): in whatever order they are read, the configuration loads
\* or not alike, and means the same.
LoadOrderIsIrrelevant ==
  LET loads == Loads(files)
      before == Meaning(files, LoadOrder)
  IN  \A o \in Orders \ {LoadOrder} :
        /\ loads <=> LoadOutcome(files, {}, o, FALSE) = "loaded"
        /\ loads => Meaning(files, o) = before

\* Types and the load order.
FilesInv == TypeOK /\ LoadOrderIsIrrelevant

\* On a machine with its variables set or missing, `config validate` finds a
\* configuration without problems exactly when a command that loads it
\* succeeds, and the TUI opens what has no problem but missing variables.
ValidateForeseesLoad ==
  \A undefined \in {{}, {t \in Tables : Meant[t] # t}} :
    LET v == ValidateOutcome(files, undefined)
    IN  /\ LoadOutcome(files, undefined, LoadOrder, FALSE) = "loaded" <=>
             v = [end |-> "validated", missing |-> {}, problems |-> {}]
        /\ LoadOutcome(files, undefined, LoadOrder, TRUE) = "loaded" <=>
             v = [end |-> "validated", missing |-> Missing(files, undefined), problems |-> {}]

\* Pasting what `dbfresh add` prints, into any file, leaves a configuration
\* that loads, keeps what it meant, and for which the same proposal has
\* nothing new (docs/authoring-checks.md: "already defined, not proposed again").
AddedChecksLoad ==
  LET before == Meaning(files, LoadOrder)
  IN  Loads(files) =>
    \A f \in Files, t \in Objects, metrics \in Proposals :
      LET blocks == Proposed(t, metrics)
          after == Pasted(f, PartitionNewChecks(files, blocks))
      IN  /\ Loads(after)
          /\ before.checks \subseteq Meaning(after, LoadOrder).checks
          /\ PartitionNewChecks(after, blocks) = <<>>

\* Migrating a file of a configuration that loads is never refused and changes
\* no check's identity and no table's description, and pauses or resumes
\* nothing, even while other files use its sets (cli.py: "regrouping never
\* pauses or resumes a check").
MigrationKeepsMeaning ==
  LET before == Meaning(files, LoadOrder)
  IN  Loads(files) =>
    \A f \in Files, first \in {"checks", "tables"} :
      /\ MigrateProblems(files[f]) = {}
      /\ HasToMigrate(files[f], first) =>
           /\ Loads(Migrated(f, first))
           /\ Meaning(Migrated(f, first), LoadOrder) = before

\* A migrated file, loadable or not, has one plain entry per table, and
\* migrating it again finds nothing to do.
MigrationConverges ==
  \A f \in Files, first \in {"checks", "tables"} :
    LET after == Migrated(f, first)[f]
    IN  MigrateProblems(files[f]) = {} /\ HasToMigrate(files[f], first) =>
          /\ IsInjective(TablesOf(Plain(after)))
          /\ \A again \in {"checks", "tables"} : ~HasToMigrate(after, again)
=============================================================================
