--------------------------- MODULE ConfigureScreen ---------------------------
(***************************************************************************)
(* The TUI's Configure screen (tui/configure.py).  Propose starts a worker *)
(* whose thread connects to the source, looks at the table and returns an  *)
(* outcome; the screen, which the person goes on using, mounts check boxes *)
(* from it.  Accept renders the chosen blocks that the files do not define *)
(* yet as YAML in a modal; the person pastes it.  Presses and the worker's *)
(* state changes reach the screen through its message queue, so a button   *)
(* that a press will disable can be pressed again before the press is      *)
(* handled.                                                                *)
(***************************************************************************)
EXTENDS Proposal, Sequences

CONSTANTS
  Forms,         \* what a form may hold: a table, a timestamp column
  NoTable,       \* no source is selected
  Descriptions,  \* the descriptions each table may have in its database
  Missing,       \* the description of a table that does not exist
  Loaded,        \* the checks in the files when the screen is opened
  Veiled,        \* others in the files, for a table they name by a ${VAR}
  Edited,        \* checks a person may write into the files or remove
  Picks(_, _),   \* selections made among proposed and offered blocks
  MaxPresses,    \* bound on the presses of Propose
  MaxWaiting,    \* bound on the presses of one button that wait at a time
  MaxEdits,      \* bound on the edits of the files
  Nothing        \* no outcome, no panels

Presses == 1..MaxPresses

ASSUME ConfigureAssumption ==
  /\ MaxPresses \in Nat /\ MaxWaiting \in Nat /\ MaxEdits \in Nat
  /\ \A f \in Forms : f.table \in DOMAIN Descriptions \cup {NoTable}
  /\ NoTable \notin DOMAIN Descriptions

VARIABLES
  form,     \* the selected source and object, and the timestamp column entered
  queue,    \* messages the screen has yet to handle
  newest,   \* the last press of Propose that started a worker, 0 before any
  asked,    \* the form each press was made with
  task,     \* the worker of each press, an asyncio task
  thread,   \* where its thread is in _propose_worker
  answer,   \* the outcome of each press
  adapters, \* presses whose thread has an open connection
  enabled,  \* whether the Propose button is
  busy,     \* "proposing checks..." is in the title
  panels,   \* the blocks with a check box, their table and the notes
  modals,   \* the YAML screens, top first: the blocks each shows, pasted or not
  files,    \* the checks the files define, by their own names
  parses,   \* whether every one of them is YAML
  edits,    \* edits of the files so far
  twice,    \* whether some check was pasted beside itself
  open,     \* the screen is there
  patient   \* each press of Propose waited for the one before to be handled

formVars == <<form, patient>>
workVars == <<asked, task, thread, answer, adapters>>
fileVars == <<files, parses, edits, twice>>
vars == <<formVars, queue, newest, workVars, enabled, busy, panels, modals, fileVars, open>>

Message(kind, p) == [kind |-> kind, press |-> p]
Queued(kind) == {i \in DOMAIN queue : queue[i].kind = kind}

\* An error needs no more than its kind: every other field keeps its default.
Failed == [error |-> TRUE]
Found(table, info, entered) ==
  LET proposed == ProposeChecks(table, info, entered)
  IN  [error |-> FALSE, table |-> table, proposed |-> proposed,
       offered |-> OfferedColumnChecks(table, info, proposed),
       notes |-> Notes(info, entered)]

Init ==
  /\ form \in Forms
  /\ queue = <<>>
  /\ newest = 0
  /\ asked = [p \in Presses |-> Nothing]
  /\ task = [p \in Presses |-> "none"]
  /\ thread = [p \in Presses |-> "none"]
  /\ answer = [p \in Presses |-> Nothing]
  /\ adapters = {}
  /\ enabled = TRUE /\ busy = FALSE
  /\ panels = Nothing /\ modals = <<>>
  /\ files = Loaded /\ parses = TRUE /\ edits = 0 /\ twice = FALSE
  /\ open = TRUE /\ patient = TRUE

-----------------------------------------------------------------------------
(* The person.  A modal, while it is there, takes every key and click.     *)

Reachable == open /\ modals = <<>>

FillForm ==
  /\ Reachable
  /\ form' \in Forms \ {form}
  /\ UNCHANGED <<patient, queue, newest, workVars, enabled, busy, panels, modals, fileVars, open>>

PressPropose ==
  /\ Reachable /\ enabled
  /\ Cardinality(Queued("propose")) < MaxWaiting
  /\ newest + Cardinality(Queued("propose")) < MaxPresses
  /\ queue' = Append(queue, Message("propose", 0))
  /\ patient' = (patient /\ Queued("propose") = {})
  /\ UNCHANGED <<form, newest, workVars, enabled, busy, panels, modals, fileVars, open>>

\* Accept is enabled with the panels, since no proposal is empty, and a press
\* does not disable it.
PressAccept ==
  /\ Reachable /\ panels # Nothing
  /\ Cardinality(Queued("accept")) < MaxWaiting
  /\ queue' = Append(queue, Message("accept", 0))
  /\ UNCHANGED <<formVars, newest, workVars, enabled, busy, panels, modals, fileVars, open>>

\* Merge the YAML into a file and keep it; the next look at the files has it.
PasteModal ==
  /\ modals # <<>> /\ ~Head(modals).pasted
  /\ modals' = [modals EXCEPT ![1].pasted = TRUE]
  /\ files' = files \cup Head(modals).blocks
  /\ twice' = (twice \/ Head(modals).blocks \cap (files \cup Veiled) # {})
  /\ UNCHANGED <<formVars, queue, newest, workVars, enabled, busy, panels, parses, edits, open>>

CloseModal ==
  /\ modals # <<>>
  /\ modals' = Tail(modals)
  /\ UNCHANGED <<formVars, queue, newest, workVars, enabled, busy, panels, fileVars, open>>

\* Somebody edits the files by hand: a check comes or goes, or a file stops
\* or starts to be YAML.
EditFiles ==
  /\ edits < MaxEdits
  /\ edits' = edits + 1
  /\ \/ /\ \E b \in Edited : files' \in {files \cup {b}, files \ {b}} \ {files}
        /\ UNCHANGED parses
     \/ /\ parses' = ~parses
        /\ UNCHANGED files
  /\ UNCHANGED <<formVars, queue, newest, workVars, enabled, busy, panels, modals, twice, open>>

\* Workers that are cancelled: one whose task never began leaves no trace, a
\* thread stops only if it has not begun.
CancelTasks(old) ==
  /\ task' = [p \in Presses |-> IF p \notin old THEN task[p]
                                ELSE IF task[p] = "pending" THEN "dropped" ELSE "cancelled"]
  /\ thread' = [p \in Presses |-> IF p \in old /\ thread[p] = "queued"
                                  THEN "dropped" ELSE thread[p]]

Active == {p \in Presses : task[p] \in {"pending", "running"}}

\* The screen goes, with its queue and what is on top of it; Textual cancels
\* its workers.
Leave ==
  /\ open' = FALSE
  /\ queue' = <<>>
  /\ CancelTasks(Active)
  /\ panels' = Nothing /\ modals' = <<>>
  /\ busy' = FALSE /\ enabled' = FALSE
  /\ UNCHANGED <<formVars, newest, asked, answer, adapters, fileVars>>

\* Cancel, or Escape.
Dismiss == Reachable /\ Leave

-----------------------------------------------------------------------------
(* The worker: a task on the event loop and the thread behind it.          *)

StartTask(p) ==
  /\ task[p] = "pending"
  /\ task' = [task EXCEPT ![p] = "running"]
  /\ thread' = [thread EXCEPT ![p] = "queued"]
  /\ queue' = Append(queue, Message("running", p))
  /\ UNCHANGED <<formVars, newest, asked, answer, adapters, enabled, busy, panels, modals,
                 fileVars, open>>

\* create_adapter: a connection, or an outcome that says why there is none.
ThreadConnect(p) ==
  /\ thread[p] = "queued"
  /\ \/ /\ thread' = [thread EXCEPT ![p] = "connected"]
        /\ adapters' = adapters \cup {p}
        /\ UNCHANGED answer
     \/ /\ thread' = [thread EXCEPT ![p] = "returned"]
        /\ answer' = [answer EXCEPT ![p] = Failed]
        /\ UNCHANGED adapters
  /\ UNCHANGED <<formVars, queue, newest, asked, task, enabled, busy, panels, modals,
                 fileVars, open>>

\* Mutant of ThreadIntrospect: a table that is missing returns before the try.
IntrospectWithoutFinally(p) ==
  /\ thread[p] = "connected"
  /\ thread' = [thread EXCEPT ![p] = "returned"]
  /\ \E info \in Descriptions[asked[p].table] :
       /\ answer' = [answer EXCEPT ![p] = IF info = Missing THEN Failed
                       ELSE Found(asked[p].table, info, asked[p].entered)]
       /\ adapters' = IF info = Missing THEN adapters ELSE adapters \ {p}
  /\ UNCHANGED <<formVars, queue, newest, asked, task, enabled, busy, panels, modals,
                 fileVars, open>>

\* describe(), the choice of checks, and the finally clause.
ThreadIntrospect(p) ==
  /\ thread[p] = "connected"
  /\ thread' = [thread EXCEPT ![p] = "returned"]
  /\ \E info \in Descriptions[asked[p].table] :
       answer' = [answer EXCEPT ![p] = IF info = Missing THEN Failed
                    ELSE Found(asked[p].table, info, asked[p].entered)]
  /\ adapters' = adapters \ {p}
  /\ UNCHANGED <<formVars, queue, newest, asked, task, enabled, busy, panels, modals,
                 fileVars, open>>

\* Anything unexpected after the connection was made.
ThreadRaises(p) ==
  /\ thread[p] = "connected"
  /\ thread' = [thread EXCEPT ![p] = "raised"]
  /\ adapters' = adapters \ {p}
  /\ UNCHANGED <<formVars, queue, newest, asked, task, answer, enabled, busy, panels, modals,
                 fileVars, open>>

EndTask(p) ==
  /\ task[p] = "running"
  /\ thread[p] \in {"returned", "raised"}
  /\ task' = [task EXCEPT ![p] = "ended"]
  /\ queue' = Append(queue, Message(IF thread[p] = "returned" THEN "success" ELSE "error", p))
  /\ UNCHANGED <<formVars, newest, asked, thread, answer, adapters, enabled, busy, panels,
                 modals, fileVars, open>>

-----------------------------------------------------------------------------
(* The screen's message handlers.                                          *)

Received(kind) == queue # <<>> /\ Head(queue).kind = kind

\* _propose without a source: a toast.
HandleProposeNowhere ==
  /\ Received("propose") /\ form.table = NoTable
  /\ queue' = Tail(queue)
  /\ UNCHANGED <<formVars, newest, workVars, enabled, busy, panels, modals, fileVars, open>>

\* Mutant of HandlePropose: the old proposal stays until the new one is there.
HandleProposeWithoutReset ==
  /\ Received("propose") /\ form.table # NoTable
  /\ LET p == newest + 1
     IN /\ newest' = p
        /\ asked' = [asked EXCEPT ![p] = form]
        /\ task' = [task EXCEPT ![p] = "pending"]
        /\ queue' = Tail(queue)
  /\ enabled' = FALSE
  /\ UNCHANGED <<formVars, thread, answer, adapters, busy, panels, modals, fileVars, open>>

\* _propose: reset the panels, disable the button, start a worker.  The group
\* is exclusive: the worker before it, if any is active, is cancelled, and
\* says so if it had begun.
HandlePropose ==
  /\ Received("propose") /\ form.table # NoTable
  /\ LET p == newest + 1
         begun == {q \in Presses : task[q] = "running"}
     IN /\ newest' = p
        /\ asked' = [asked EXCEPT ![p] = form]
        /\ task' = [q \in Presses |->
                      IF q = p THEN "pending"
                      ELSE IF q \in begun THEN "cancelled"
                      ELSE IF task[q] = "pending" THEN "dropped" ELSE task[q]]
        /\ thread' = [q \in Presses |-> IF q \in begun /\ thread[q] = "queued"
                                        THEN "dropped" ELSE thread[q]]
        /\ queue' = IF begun = {} THEN Tail(queue)
                    ELSE Append(Tail(queue), Message("cancelled", CHOOSE q \in begun : TRUE))
  /\ panels' = Nothing
  /\ enabled' = FALSE
  /\ UNCHANGED <<formVars, answer, adapters, busy, modals, fileVars, open>>

HandleRunning ==
  /\ Received("running")
  /\ queue' = Tail(queue)
  /\ busy' = TRUE
  /\ UNCHANGED <<formVars, newest, workVars, enabled, panels, modals, fileVars, open>>

\* Mutant of HandleFailure: only an outcome brings the button back.
HandleFailureQuietly ==
  /\ queue # <<>>
  /\ \/ Head(queue).kind \in {"cancelled", "error"}
     \/ Head(queue).kind = "success" /\ answer[Head(queue).press] = Failed
  /\ queue' = Tail(queue)
  /\ busy' = FALSE
  /\ UNCHANGED <<formVars, newest, workVars, enabled, panels, modals, fileVars, open>>

\* A worker ended without a proposal: cancelled, failed, or with an error for
\* its outcome.
HandleFailure ==
  /\ queue # <<>>
  /\ \/ Head(queue).kind \in {"cancelled", "error"}
     \/ Head(queue).kind = "success" /\ answer[Head(queue).press] = Failed
  /\ queue' = Tail(queue)
  /\ busy' = FALSE /\ enabled' = TRUE
  /\ UNCHANGED <<formVars, newest, workVars, panels, modals, fileVars, open>>

\* Mutant of HandleProposal: the existing checks are those of the form's table.
HandleProposalForForm ==
  /\ Received("success") /\ answer[Head(queue).press] # Failed
  /\ panels = Nothing
  /\ queue' = Tail(queue)
  /\ busy' = FALSE /\ enabled' = TRUE
  /\ panels' = [answer[Head(queue).press] EXCEPT !.table = form.table]
  /\ UNCHANGED <<formVars, newest, workVars, modals, fileVars, open>>

\* The outcome is mounted: existing checks of its table, its proposed and its
\* offered blocks, its notes.
HandleProposal ==
  /\ Received("success") /\ answer[Head(queue).press] # Failed
  /\ panels = Nothing
  /\ queue' = Tail(queue)
  /\ busy' = FALSE /\ enabled' = TRUE
  /\ panels' = answer[Head(queue).press]
  /\ UNCHANGED <<formVars, newest, workVars, modals, fileVars, open>>

\* Mounting beside mounted boxes repeats the widget id of the first one
\* ("proposed-0-schema"), which Textual refuses: the app ends.
HandleProposalTwice ==
  /\ Received("success") /\ answer[Head(queue).press] # Failed
  /\ panels # Nothing
  /\ Leave

\* partition_new_checks: it reads the files, not the loaded configuration,
\* and takes a table's name as it is written there.
NewBlocks(blocks) == blocks \ files

\* Freshness and null rates have an input beside their box.
HasInput(b) == b.metric \in {"freshness", "null_rate"}

\* Nothing is accepted: no panels any more, no box ticked, an input that does
\* not parse, or nothing the files do not define.
HandleAcceptInVain ==
  /\ Received("accept")
  /\ \/ panels = Nothing
     \/ /\ panels # Nothing
        /\ \E chosen \in Picks(panels.proposed, panels.offered) \cup {{}} :
             \/ chosen = {}
             \/ \E b \in chosen : HasInput(b)
             \/ parses /\ NewBlocks(chosen) = {}
  /\ queue' = Tail(queue)
  /\ UNCHANGED <<formVars, newest, workVars, enabled, busy, panels, modals, fileVars, open>>

\* The YAML screen goes on top, of another one if Accept was pressed twice.
HandleAccept ==
  /\ Received("accept") /\ panels # Nothing /\ parses
  /\ \E chosen \in Picks(panels.proposed, panels.offered) :
       /\ NewBlocks(chosen) # {}
       /\ modals' = <<[blocks |-> NewBlocks(chosen), pasted |-> FALSE]>> \o modals
  /\ queue' = Tail(queue)
  /\ UNCHANGED <<formVars, newest, workVars, enabled, busy, panels, fileVars, open>>

\* Boxes are ticked and a file is not YAML: nothing catches what
\* partition_new_checks raises, and the app ends.
HandleAcceptRaises ==
  /\ Received("accept") /\ panels # Nothing /\ ~parses
  /\ Picks(panels.proposed, panels.offered) # {}
  /\ Leave

Handle ==
  \/ HandleProposeNowhere
  \/ HandlePropose
  \/ HandleRunning
  \/ HandleFailure
  \/ HandleProposal
  \/ HandleProposalTwice
  \/ HandleAcceptInVain
  \/ HandleAccept
  \/ HandleAcceptRaises

Person ==
  \/ FillForm
  \/ PressPropose
  \/ PressAccept
  \/ PasteModal
  \/ CloseModal
  \/ EditFiles
  \/ Dismiss

Thread(p) == ThreadConnect(p) \/ ThreadIntrospect(p) \/ ThreadRaises(p)

Next ==
  \/ Person
  \/ \E p \in Presses : StartTask(p) \/ Thread(p) \/ EndTask(p)
  \/ Handle

\* The event loop and the threads keep going; the person need not do anything.
Fairness ==
  /\ WF_vars(Handle)
  /\ \A p \in Presses : WF_vars(StartTask(p)) /\ WF_vars(Thread(p)) /\ WF_vars(EndTask(p))

Spec == Init /\ [][Next]_vars /\ Fairness

-----------------------------------------------------------------------------
(* Properties.                                                             *)

TypeOK ==
  /\ form \in Forms
  /\ newest \in 0..MaxPresses
  /\ asked \in [Presses -> Forms \cup {Nothing}]
  /\ task \in [Presses -> {"none", "pending", "running", "dropped", "cancelled", "ended"}]
  /\ thread \in [Presses -> {"none", "queued", "dropped", "connected", "returned", "raised"}]
  /\ adapters \subseteq {p \in Presses : thread[p] = "connected"}
  /\ \A b \in {enabled, busy, parses, twice, open, patient} : b \in BOOLEAN

\* A worker is under way, or the screen has yet to hear that it ended.
Outstanding ==
  \/ Active # {}
  \/ \E i \in DOMAIN queue : queue[i].kind \in {"cancelled", "success", "error"}

\* "shows a busy state the whole time" (test_tui_configure.py): for a person
\* whose presses are handled one by one, Propose is enabled exactly when no
\* worker is under way, and the title is busy no longer than that.
ProposeMeansIdle ==
  patient /\ open => /\ (enabled <=> ~Outstanding)
                     /\ (busy => Outstanding)

\* Types and the Propose button.
ScreenInv == TypeOK /\ ProposeMeansIdle

\* Whatever is typed while the thread is away, the panels show the outcome
\* of the last press and nothing of another: existing checks, boxes and notes
\* are about one table, each box is another check, and a press that failed
\* leaves no boxes of the one before to accept.
PanelsAnswerLastPress ==
  patient /\ panels # Nothing =>
    /\ panels = answer[newest]
    /\ panels.table = asked[newest].table
    /\ \A b \in panels.proposed \cup panels.offered : b.table = panels.table
    /\ panels.proposed \cap panels.offered = {}

\* "accepting twice can't produce a duplicate" (docs/tui.md): whatever is
\* accepted and pasted, no check is pasted beside itself.  A second press that
\* is already queued breaks this, as does a ${VAR}: see Findings in README.md.
NothingPastedTwice == ~twice

\* "shows a busy state the whole time" (test_tui_configure.py): from when the
\* screen hears that the last press has its worker to when its thread is
\* done, the title is busy and Propose disabled.  Two presses in a row break
\* it: see Findings in README.md.
BusyWhileProposing ==
  /\ open /\ newest # 0 /\ thread[newest] \in {"queued", "connected"}
  /\ \A i \in Queued("running") : queue[i].press # newest
  => busy /\ ~enabled

\* A press of Propose ends: its connection is closed, also when the screen is
\* gone or the press was superseded, and the button comes back.
EveryPressEnds ==
  \A p \in Presses :
    task[p] = "pending" ~> /\ thread[p] \notin {"queued", "connected"}
                           /\ p \notin adapters
                           /\ open => enabled /\ ~busy
=============================================================================
