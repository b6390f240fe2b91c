------------------------------ MODULE ChangeSets ------------------------------
(***************************************************************************)
(* How a snapshot reaches the store and comes back (workflow/change.go,    *)
(* internal/postgres/run_store.go).  A stored Run is a row of              *)
(* workflow_runs, a row of task_runs for every task and a row of attempts  *)
(* for every attempt.  A save carries only the rows that differ between    *)
(* two snapshots, a load puts the rows together again.  The file store     *)
(* applies the same change sets to the snapshot it keeps.                  *)
(*                                                                         *)
(* Below, x is a snapshot with its cancellation request: the fields snap   *)
(* and cancel.  Revisions are compared by the user of this module.  Events *)
(* are left out, as in WorkflowState.                                      *)
(***************************************************************************)
EXTENDS WorkflowState

TaskRow(s, t) ==
    [status |-> s.task[t], remaining |-> s.remaining[t], readyAt |-> s.readyAt[t]]

RunRow(x) == [status |-> x.snap.status, cancel |-> x.cancel]

AttemptsOf(s) == UNION {{t} \X (1..Len(s.attempts[t])) : t \in Task}

\* insertSnapshot: all rows of a new Run.
insertSnapshot(x) ==
    [run |-> RunRow(x),
     tasks |-> [t \in Task |-> TaskRow(x.snap, t)],
     attempts |-> [k \in AttemptsOf(x.snap) |-> x.snap.attempts[k[1]][k[2]]]]

\* loadSnapshot: attempts are read in order and must be numbered without gaps.
loadSnapshot(rows) ==
    LET Numbers(t) == {k[2] : k \in {j \in DOMAIN rows.attempts : j[1] = t}}
        n == [t \in Task |-> Cardinality(Numbers(t))]
        contiguous == \A t \in Task : Numbers(t) = 1..n[t]
    IN  [snap |-> [status |-> rows.run.status,
                   task |-> [t \in Task |-> rows.tasks[t].status],
                   remaining |-> [t \in Task |-> rows.tasks[t].remaining],
                   readyAt |-> [t \in Task |-> rows.tasks[t].readyAt],
                   attempts |-> [t \in Task |->
                       IF contiguous THEN [i \in 1..n[t] |-> rows.attempts[<<t, i>>]]
                       ELSE <<>>],
                   err |-> ~contiguous],
         cancel |-> rows.run.cancel]

-----------------------------------------------------------------------------
\* Faulty variant: the counter of a task is not compared.
ChangedTasks_Status(before, after) ==
    {t \in Task : before.task[t] # after.task[t] \/ before.readyAt[t] # after.readyAt[t]}

ChangedTasks(before, after) ==
    {t \in Task : TaskRow(before, t) # TaskRow(after, t)}

\* Attempts of the old history that differ; attempts behind its end are new.
changeSetFromSnapshots(before, after) ==
    LET b == before.snap
        a == after.snap
        new == AttemptsOf(a) \ AttemptsOf(b)
        updated == {k \in AttemptsOf(a) \cap AttemptsOf(b) :
                       a.attempts[k[1]][k[2]] # b.attempts[k[1]][k[2]]}
    IN  [run |-> RunRow(after),
         tasks |-> [t \in ChangedTasks(b, a) |-> TaskRow(a, t)],
         inserts |-> [k \in new |-> a.attempts[k[1]][k[2]]],
         updates |-> [k \in updated |-> a.attempts[k[1]][k[2]]]]

\* validateChangeSetShape and insertAttempt: counters are not negative, an
\* inserted attempt is the next of its task, an updated one exists.
ValidChange(rows, change) ==
    LET known == DOMAIN rows.attempts IN
    /\ \A t \in DOMAIN change.tasks : change.tasks[t].remaining >= 0
    /\ \A k \in DOMAIN change.inserts :
          /\ k \notin known
          /\ k[2] = 1 \/ <<k[1], k[2] - 1>> \in known \cup DOMAIN change.inserts
    /\ DOMAIN change.updates \subseteq known

\* Rows that are written, over those that are there.
Over(written, rows) ==
    [k \in DOMAIN written \cup DOMAIN rows |->
        IF k \in DOMAIN written THEN written[k] ELSE rows[k]]

\* Rows of tasks keep their attempts, which are rows of their own.
TasksAfter(rows, change) == Over(change.tasks, rows.tasks)
AttemptsAfter(rows, change) == Over(change.inserts, Over(change.updates, rows.attempts))

\* One transaction: the Run's row is replaced, the other rows one by one.
applyChangeSet(rows, change) ==
    [run |-> change.run,
     tasks |-> TasksAfter(rows, change),
     attempts |-> AttemptsAfter(rows, change)]
===============================================================================
