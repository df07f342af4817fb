---------------------------- MODULE StoreSessions ----------------------------
(***************************************************************************)
(* Opening and reading the observation store (store.py) while other        *)
(* processes do the same.  Store.__init__ creates the tables when the file *)
(* is new and adds the observation columns an older file lacks, one        *)
(* autocommitted ALTER each, from one reading of the column names; two     *)
(* openers of the same old file race to add them.  A reader (the report    *)
(* screen, the dashboard's "last run" line) then asks for the newest       *)
(* finished run and, in a second statement, for its observations.          *)
(*                                                                         *)
(* The calls of run_and_persist, prunes and the clock are those of         *)
(* RunStore: a call starts once its own session is open.                   *)
(***************************************************************************)
EXTENDS RunStore, Sequences

CONSTANTS
  Readers,       \* processes or screens that open the store to read it
  AddedColumns,  \* _OBSERVATION_ADDED_COLUMNS, in order
  NoTable,       \* the file holds no tables yet
  NoRow          \* latest_run has returned nothing

Users == Calls \cup Readers
AllColumns == {AddedColumns[i] : i \in DOMAIN AddedColumns}

ASSUME StoreSessionsAssumption ==
  /\ Calls \cap Readers = {}
  /\ AddedColumns \in Seq(AllColumns)
  /\ \A known \in SUBSET AllColumns : known # NoTable

VARIABLES
  columns,   \* added columns table observation has, or NoTable
  session,   \* where each user's Store is
  existing,  \* the column names its _migrate read, once
  position,  \* the added column its _migrate looks at
  header,    \* the run row a reader got from latest_run
  page       \* the observations it got for that run, a set of rows

sessionVars == <<columns, session, existing, position, header, page>>
allVars == <<vars, sessionVars>>

SessionPhase ==
  {"closed", "created", "migrating", "rechecking", "open", "headed", "shown",
   "refused", "dead"}

\* A store file written by any release: absent, or with the columns that
\* release knew, or as a crashed migration left it.
SessionInit ==
  /\ Init
  /\ columns \in {NoTable} \cup
       {{AddedColumns[i] : i \in 1..n} : n \in 0..Len(AddedColumns)}
  /\ session = [u \in Users |-> "closed"]
  /\ existing = [u \in Users |-> {}]
  /\ position = [u \in Users |-> 1]
  /\ header = [r \in Readers |-> NoRow]
  /\ page = [r \in Readers |-> {}]

Enter(u, phase) == session' = [session EXCEPT ![u] = phase]

-----------------------------------------------------------------------------
(* Store.__init__.                                                         *)

\* executescript(_SCHEMA): CREATE TABLE IF NOT EXISTS.  Only a new file
\* needs the write lock, and gets every column at once.
CreateTables(u) ==
  /\ session[u] = "closed"
  /\ columns = NoTable => writer = NoCall
  /\ columns' = IF columns = NoTable THEN AllColumns ELSE columns
  /\ Enter(u, "created")
  /\ UNCHANGED <<existing, position, header, page>>

\* _observation_columns, the read every decision of _migrate rests on.
ReadColumns(u) ==
  /\ session[u] = "created"
  /\ existing' = [existing EXCEPT ![u] = columns]
  /\ Enter(u, "migrating")
  /\ UNCHANGED <<columns, position, header, page>>

Column(u) == AddedColumns[position[u]]
Migrating(u) == session[u] = "migrating" /\ position[u] <= Len(AddedColumns)
NextColumn(u) == position' = [position EXCEPT ![u] = @ + 1]

\* Mutant of SkipColumn: a store with any added column is taken for current.
SkipTheRest(u) ==
  /\ Migrating(u)
  /\ existing[u] # {}
  /\ NextColumn(u)
  /\ UNCHANGED <<columns, session, existing, header, page>>

\* A column the read has seen is skipped.
SkipColumn(u) ==
  /\ Migrating(u)
  /\ Column(u) \in existing[u]
  /\ NextColumn(u)
  /\ UNCHANGED <<columns, session, existing, header, page>>

\* ALTER TABLE observation ADD COLUMN, committed on its own.
AddColumn(u) ==
  /\ Migrating(u)
  /\ Column(u) \notin existing[u] \cup columns
  /\ writer = NoCall
  /\ columns' = columns \cup {Column(u)}
  /\ NextColumn(u)
  /\ UNCHANGED <<session, existing, header, page>>

\* OperationalError: the column is there by now, the write lock was held
\* past the busy timeout (a process of another release may hold it too),
\* the disk is full, ...
AlterRejected(u) ==
  /\ Migrating(u)
  /\ Column(u) \notin existing[u]
  /\ Enter(u, "rechecking")
  /\ UNCHANGED <<columns, existing, position, header, page>>

\* Mutant of Recheck: any OperationalError counts as "already there".
RecheckNothing(u) ==
  /\ session[u] = "rechecking"
  /\ NextColumn(u)
  /\ Enter(u, "migrating")
  /\ UNCHANGED <<columns, existing, header, page>>

\* The except branch reads the columns again, for this one column only.
Recheck(u) ==
  /\ session[u] = "rechecking"
  /\ IF Column(u) \in columns
     THEN NextColumn(u) /\ Enter(u, "migrating")
     ELSE UNCHANGED position /\ Enter(u, "refused")
  /\ UNCHANGED <<columns, existing, header, page>>

\* _migrate's locals end with it.
Forget(u) ==
  /\ existing' = [existing EXCEPT ![u] = {}]
  /\ position' = [position EXCEPT ![u] = 1]

Opened(u) ==
  /\ session[u] = "migrating"
  /\ position[u] > Len(AddedColumns)
  /\ Forget(u)
  /\ Enter(u, "open")
  /\ UNCHANGED <<columns, header, page>>

\* The process dies while it opens the store: what it committed stays.
DieOpening(u) ==
  /\ session[u] \in {"created", "migrating", "rechecking"}
  /\ Forget(u)
  /\ Enter(u, "dead")
  /\ UNCHANGED <<columns, header, page>>

OpenStore(u) ==
  \/ CreateTables(u)
  \/ ReadColumns(u)
  \/ SkipColumn(u)
  \/ AddColumn(u)
  \/ AlterRejected(u)
  \/ Recheck(u)
  \/ Opened(u)
  \/ DieOpening(u)

-----------------------------------------------------------------------------
(* A reader: latest_run, then observations_for_run of the id it returned.  *)

NewestFinished == {i \in FinishedIds : \A j \in FinishedIds : j <= i}

\* Mutant of ReadLatestRun: the newest run, finished or not.
ReadNewestRow(r) ==
  /\ session[r] = "open"
  /\ \E i \in {j \in DOMAIN runTable : \A k \in DOMAIN runTable : k <= j} :
       header' = [header EXCEPT ![r] = [id |-> i, row |-> runTable[i]]]
  /\ Enter(r, "headed")
  /\ UNCHANGED <<columns, existing, position, page>>

\* WHERE finished_at IS NOT NULL ORDER BY run_id DESC LIMIT 1.  Without a
\* finished run the reader shows its "no run" message and reads no further.
ReadLatestRun(r) ==
  /\ session[r] = "open"
  /\ \E i \in NewestFinished :
       header' = [header EXCEPT ![r] = [id |-> i, row |-> runTable[i]]]
  /\ Enter(r, "headed")
  /\ UNCHANGED <<columns, existing, position, page>>

ReadObservations(r) ==
  /\ session[r] = "headed"
  /\ page' = [page EXCEPT ![r] = ObsOf(header[r].id)]
  /\ Enter(r, "shown")
  /\ UNCHANGED <<columns, existing, position, header>>

\* The screen is left; the next one reads again, on the same session.
Dismiss(r) ==
  /\ session[r] = "shown"
  /\ header' = [header EXCEPT ![r] = NoRow]
  /\ page' = [page EXCEPT ![r] = {}]
  /\ Enter(r, "open")
  /\ UNCHANGED <<columns, existing, position>>

\* reconstruct_run: the status of the header over the results in the rows.
Reconstructed(r) == [status |-> header[r].row.status, results |-> page[r]]

ReadRun(r) == ReadLatestRun(r) \/ ReadObservations(r) \/ Dismiss(r)

-----------------------------------------------------------------------------

\* Only a call whose Store is open runs; a prune comes from an open one.
SessionNext ==
  \/ \E u \in Users : OpenStore(u) /\ UNCHANGED vars
  \/ \E r \in Readers : ReadRun(r) /\ UNCHANGED vars
  \/ \E c \in Calls : /\ session[c] = "open"
                      /\ Step(c) \/ Fault(c)
                      /\ UNCHANGED sessionVars
  \/ /\ \E u \in Users : session[u] \in {"open", "headed", "shown"}
     /\ Prune
     /\ UNCHANGED sessionVars
  \/ Tick /\ UNCHANGED sessionVars

SessionSpec == SessionInit /\ [][SessionNext]_allVars

-----------------------------------------------------------------------------
(* Properties.                                                             *)

Using == {u \in Users : session[u] \in {"open", "headed", "shown"}}

\* Whoever has opened the store finds every column its INSERTs and readers
\* name, whatever release wrote the file, whoever raced it through the
\* migration or died in the middle of one.  (With the types of the module's
\* variables.)
OpenStoreIsCurrent ==
  /\ columns \in {NoTable} \cup SUBSET AllColumns
  /\ session \in [Users -> SessionPhase]
  /\ existing \in [Users -> SUBSET AllColumns]
  /\ position \in [Users -> 1..Len(AddedColumns) + 1]
  /\ \A r \in Readers :
       header[r] = NoRow \/ header[r] \in [id : Nat \ {0}, row : RunRow]
  /\ page \in [Readers -> SUBSET ObsRow]
  /\ \A u \in Using : columns = AllColumns

\* What a reader shows is one run: the status in its header is the worst of
\* the rows below it, although the two came from two statements with runs
\* recorded, finished and pruned in between.  (A run old enough to be pruned
\* may vanish between the two; its header is then shown over no rows, or
\* over those of the run that was given its id.)
PageMatchesHeader ==
  \A r \in Readers :
    session[r] = "shown" =>
      \/ Reconstructed(r).status = WorstStatus({o.status : o \in Reconstructed(r).results})
      \/ clock - header[r].row.started > Retain
=============================================================================
