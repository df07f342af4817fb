------------------------------- MODULE RunLog -------------------------------
(***************************************************************************)
(* What the observation store promises its readers, without transactions,  *)
(* processes or crashes: a log of complete runs.  A run enters the log in  *)
(* one step, with one row per check it covered and the worst of their      *)
(* statuses as its own; it never changes afterwards; and it leaves the log *)
(* only as a whole, together with every run as old as itself or older.     *)
(* RunStore implements this specification (see LogOf there).               *)
(***************************************************************************)
EXTENDS Statuses

CONSTANTS Checks

VARIABLE log

Row == [check : Checks, status : Status]

Entry == [id : Nat \ {0}, started : Nat, status : Status, rows : SUBSET Row]

\* One row per check, and the entry's own status is the worst of them.
Complete(e) ==
  /\ e \in Entry
  /\ \A q, r \in e.rows : q.check = r.check => q = r
  /\ e.status = WorstStatus({r.status : r \in e.rows})

LogInit == log = {}

Publish ==
  \E e \in log' :
    /\ Complete(e)
    /\ \A f \in log : f.id # e.id
    /\ log' = log \cup {e}

\* A prune removes exactly the runs older than some cutoff.
Expire ==
  /\ log' \subseteq log
  /\ \A gone \in log \ log', kept \in log' : gone.started < kept.started

LogNext == Publish \/ Expire

LogSpec == LogInit /\ [][LogNext]_log
=============================================================================
