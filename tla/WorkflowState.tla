----------------------------- MODULE WorkflowState -----------------------------
(***************************************************************************)
(* The state rules of one Run, shared by the local Engine and by the       *)
(* PostgreSQL dispatch path (workflow/state.go, workflow/run.go and        *)
(* workflow/distributed_state.go).  Every operator takes a snapshot and    *)
(* returns the snapshot the Go function would hand to the store.           *)
(*                                                                         *)
(* A Go error return is the field err of the result: the caller rolls its  *)
(* transaction back, so a snapshot with err = TRUE is never stored.        *)
(* Operators that the code calls in a loop take the set of tasks of the    *)
(* whole loop; the transitions of different tasks do not interfere.        *)
(***************************************************************************)
EXTENDS Integers, Sequences, FiniteSets

CONSTANTS
    NumTasks,       \* number of tasks of the definition; tasks are indexes
    Deps,           \* compiled.dependencies: task -> its direct dependencies
    MaxAttempts,    \* Retry.MaxAttempts per task
    RetryInterval   \* Retry.IntervalMillis per task, in clock ticks

Task == 1..NumTasks

ASSUME DefinitionAssumption ==
    /\ NumTasks \in Nat \ {0}
    /\ Deps \in [Task -> SUBSET Task]
    /\ MaxAttempts \in [Task -> Nat \ {0}]
    /\ RetryInterval \in [Task -> Nat]

(* Compile rejects cyclic definitions: in every non-empty set of tasks some *)
(* task depends on no task of the set.                                      *)
ASSUME AcyclicAssumption ==
    \A S \in SUBSET Task : S # {} => \E t \in S : Deps[t] \cap S = {}

-----------------------------------------------------------------------------
(* Status values and the three transition tables.                           *)

WorkflowStatus == {"pending", "running", "succeeded", "failed", "canceled"}

TaskStatus ==
    {"waiting_dependencies", "ready", "queued", "running", "waiting_retry",
     "succeeded", "failed", "canceled", "skipped"}

AttemptStatus ==
    {"running", "succeeded", "failed", "timed_out", "canceled", "interrupted"}

ResultKind == {"success", "temporary_failure", "permanent_failure"}

WorkflowTerminal == {"succeeded", "failed", "canceled"}
TaskTerminal == {"succeeded", "failed", "canceled", "skipped"}

workflowTransitions(from) ==
    CASE from = "pending" -> {"running", "canceled"}
      [] from = "running" -> {"succeeded", "failed", "canceled"}
      [] OTHER -> {}

taskTransitions(from) ==
    CASE from = "waiting_dependencies" -> {"ready", "canceled", "skipped"}
      [] from = "ready" -> {"queued", "running", "canceled", "skipped"}
      [] from = "queued" -> {"running", "ready", "canceled"}
      [] from = "running" -> {"succeeded", "waiting_retry", "failed", "canceled"}
      [] from = "waiting_retry" -> {"ready", "failed", "canceled"}
      [] OTHER -> {}

attemptTransitions(from) ==
    IF from = "running" THEN AttemptStatus \ {"running"} ELSE {}

-----------------------------------------------------------------------------
(* The snapshot.  attempts[t] is the attempt history of t; the number of an *)
(* attempt is its position.  readyAt[t] is 0 when the code has no ReadyAt.  *)

AttemptOf(Owner) == [status : AttemptStatus, owner : Owner]

Snapshot(Owner) ==
    [status    : WorkflowStatus,
     task      : [Task -> TaskStatus],
     attempts  : [Task -> Seq(AttemptOf(Owner))],
     remaining : [Task -> Int],
     readyAt   : [Task -> Int],
     err       : BOOLEAN]

newRunSnapshot ==
    [status    |-> "pending",
     task      |-> [t \in Task |->
                      IF Deps[t] = {} THEN "ready" ELSE "waiting_dependencies"],
     attempts  |-> [t \in Task |-> <<>>],
     remaining |-> [t \in Task |-> Cardinality(Deps[t])],
     readyAt   |-> [t \in Task |-> 0],
     err       |-> FALSE]

Successors(t) == {u \in Task : t \in Deps[u]}

\* Faulty variant: the walk stops at the direct successors.
Descendants_DirectOnly == [t \in Task |-> Successors(t)]

(* The tasks the breadth-first walk of skipDescendantsFrom visits: the      *)
(* smallest set with the successors of t that is closed under successors.   *)
Descendants ==
    [t \in Task |->
        {u \in Task :
            \A S \in SUBSET Task :
                (Successors(t) \subseteq S /\ \A x \in S : Successors(x) \subseteq S)
                    => u \in S}]

-----------------------------------------------------------------------------
(* transitionWorkflow, transitionTask and transitionAttempt.                *)

Reject(s) == [s EXCEPT !.err = TRUE]

transitionWorkflow(s, to) ==
    IF to \in workflowTransitions(s.status)
    THEN [s EXCEPT !.status = to]
    ELSE Reject(s)

\* transitionTask for every task of T; ReadyAt is cleared on the way.
transitionTasks(s, T, to) ==
    IF \A t \in T : to \in taskTransitions(s.task[t])
    THEN [s EXCEPT !.task = [t \in Task |-> IF t \in T THEN to ELSE s.task[t]],
                   !.readyAt = [t \in Task |-> IF t \in T THEN 0 ELSE s.readyAt[t]]]
    ELSE Reject(s)

\* Faulty variant: the outcome is written to every attempt of the task.
transitionAttempts_AllRows(s, T, outcome) ==
    [s EXCEPT !.attempts =
        [t \in Task |->
            [i \in 1..Len(s.attempts[t]) |->
                IF t \in T THEN [s.attempts[t][i] EXCEPT !.status = outcome[t]]
                ELSE s.attempts[t][i]]]]

\* transitionAttempt of the last attempt of every task of T, to outcome[t].
transitionAttempts(s, T, outcome) ==
    IF \A t \in T : /\ s.attempts[t] # <<>>
                    /\ outcome[t] \in attemptTransitions(
                           s.attempts[t][Len(s.attempts[t])].status)
    THEN [s EXCEPT !.attempts =
            [t \in Task |->
                IF t \in T
                THEN [s.attempts[t] EXCEPT ![Len(s.attempts[t])].status = outcome[t]]
                ELSE s.attempts[t]]]
    ELSE Reject(s)

activeAttempt(s, t, number) ==
    /\ s.task[t] = "running"
    /\ s.attempts[t] # <<>>
    /\ number = Len(s.attempts[t])
    /\ s.attempts[t][Len(s.attempts[t])].status = "running"

-----------------------------------------------------------------------------
(* The operations of distributed_state.go.                                  *)

QueueTask(s, t) ==
    LET started == IF s.status = "pending" THEN transitionWorkflow(s, "running") ELSE s
    IN  IF started.status = "running"
        THEN transitionTasks(started, {t}, "queued")
        ELSE Reject(started)

ReturnQueuedTasksToReady(s, T) == transitionTasks(s, T, "ready")

\* owner[t] is the WorkerID and DispatchID recorded with the new attempt.
StartQueuedAttempts(s, T, owner) ==
    LET moved == transitionTasks(s, T, "running")
    IN  [moved EXCEPT !.attempts =
            [t \in Task |->
                IF t \in T
                THEN Append(s.attempts[t], [status |-> "running", owner |-> owner[t]])
                ELSE s.attempts[t]]]

\* Faulty variant: a failure leaves the tasks behind it waiting.
skipDescendantsFrom_None(s, F) == s

skipDescendantsFrom(s, F) ==
    transitionTasks(s, {u \in Task : /\ \E f \in F : u \in Descendants[f]
                                     /\ s.task[u] \notin TaskTerminal}, "skipped")

settleWorkflowIfComplete(s) ==
    IF \E t \in Task : s.task[t] \notin TaskTerminal
    THEN s
    ELSE IF \E t \in Task : s.task[t] = "failed"
    THEN transitionWorkflow(s, "failed")
    ELSE IF \A t \in Task : s.task[t] = "succeeded"
    THEN transitionWorkflow(s, "succeeded")
    ELSE Reject(s)

\* Faulty variant: one attempt too many.
RetriesLeft_OneMore(s, T) == {t \in T : Len(s.attempts[t]) <= MaxAttempts[t]}

\* The tasks of T that may run again.
RetriesLeft(s, T) == {t \in T : Len(s.attempts[t]) < MaxAttempts[t]}

(* applyRetryDecision after the last attempts of T ended: a task with        *)
(* attempts left waits for its retry, the others fail with all descendants.  *)
applyRetryDecision(s, T, at) ==
    LET again == RetriesLeft(s, T)
        waiting == transitionTasks(s, again, "waiting_retry")
        timed == [waiting EXCEPT !.readyAt =
                    [t \in Task |-> IF t \in again THEN at + RetryInterval[t]
                                    ELSE waiting.readyAt[t]]]
        failed == transitionTasks(timed, T \ again, "failed")
    IN  settleWorkflowIfComplete(skipDescendantsFrom(failed, T \ again))

\* InterruptAttempt and TimeoutAttempt: outcome[t] tells which one ends t.
EndAttempts(s, T, outcome, at) ==
    applyRetryDecision(transitionAttempts(s, T, outcome), T, at)

failPermanently(s, t) ==
    LET ended == transitionAttempts(s, {t}, [x \in {t} |-> "failed"])
        failed == transitionTasks(ended, {t}, "failed")
    IN  settleWorkflowIfComplete(skipDescendantsFrom(failed, {t}))

\* Faulty variant: a task is released before its last dependency.
Released_OneEarly(s, U) == {u \in U : s.remaining[u] <= 1}

\* The tasks of U that wait for no further dependency.
Released(s, U) == {u \in U : s.remaining[u] = 0}

(* The success branch of ApplyAttemptResult: every dependency edge lowers   *)
(* the counter of its successor once; at zero the successor becomes ready.  *)
succeed(s, t) ==
    LET ended == transitionAttempts(s, {t}, [x \in {t} |-> "succeeded"])
        done == transitionTasks(ended, {t}, "succeeded")
        counted == [done EXCEPT !.remaining =
                      [u \in Task |-> IF u \in Successors(t) THEN s.remaining[u] - 1
                                      ELSE s.remaining[u]]]
        released == transitionTasks(counted,
                      Released(counted, Successors(t)), "ready")
    IN  IF \E u \in Successors(t) : counted.remaining[u] < 0
        THEN Reject(counted)
        ELSE settleWorkflowIfComplete(released)

ApplyAttemptResult(s, t, kind, at) ==
    CASE kind = "success" -> succeed(s, t)
      [] kind = "temporary_failure" -> EndAttempts(s, {t}, [x \in {t} |-> "failed"], at)
      [] kind = "permanent_failure" -> failPermanently(s, t)

\* A retry is due when the persisted ReadyAt has been reached.
retryDue(s, t, at) ==
    s.task[t] = "waiting_retry" /\ s.attempts[t] # <<>> /\ s.readyAt[t] <= at

MakeRetryReady(s, t) == transitionTasks(s, {t}, "ready")

\* Faulty variant: what runs when the Run is canceled counts as failed.
CancelRunSnapshot_FailsRunning(s) ==
    LET running == {t \in Task : s.task[t] = "running"}
        ended == transitionAttempts(s, running, [t \in running |-> "interrupted"])
        failed == transitionTasks(ended, running, "failed")
        open == {t \in Task : failed.task[t] \notin TaskTerminal}
    IN  transitionWorkflow(transitionTasks(failed, open, "canceled"), "canceled")

CancelRunSnapshot(s) ==
    LET open == {t \in Task : s.task[t] \notin TaskTerminal}
        running == {t \in open : /\ s.task[t] = "running"
                                 /\ s.attempts[t] # <<>>
                                 /\ s.attempts[t][Len(s.attempts[t])].status = "running"}
        ended == transitionAttempts(s, running, [t \in running |-> "canceled"])
    IN  transitionWorkflow(transitionTasks(ended, open, "canceled"), "canceled")

-----------------------------------------------------------------------------
(* What every stored snapshot satisfies.                                    *)

Unsucceeded(s, t) == {u \in Deps[t] : s.task[u] # "succeeded"}

(* RemainingDependencies[i] is the number of direct dependencies of task i  *)
(* that have not succeeded yet (run.go), whatever happened before: the      *)
(* counter is only ever decremented, never recomputed.                      *)
RemainingExact(s) ==
    \A t \in Task : s.remaining[t] = Cardinality(Unsucceeded(s, t))

(* No task runs, waits for a worker or has ended by itself before all its   *)
(* dependencies succeeded; a task that still waits has a dependency that    *)
(* may yet succeed; a skipped task has a dependency that failed.            *)
DependencyOrder(s) ==
    \A t \in Task :
        /\ s.task[t] \in {"ready", "queued", "running", "waiting_retry",
                          "succeeded", "failed"} => Unsucceeded(s, t) = {}
        /\ s.task[t] = "waiting_dependencies" =>
              /\ Unsucceeded(s, t) # {}
              /\ \A u \in Deps[t] : s.task[u] \notin {"failed", "skipped", "canceled"}
        /\ s.task[t] = "skipped" =>
              \E u \in Deps[t] : s.task[u] \in {"failed", "skipped"}

(* The attempt history agrees with the task: exactly the last attempt of a  *)
(* running task runs, only a succeeded task has a succeeded attempt (its    *)
(* last one), and a task that may run again has attempts left.              *)
RetryableEnd == {"failed", "timed_out", "interrupted"}

TaskHistory(status, attempts, limit) ==
    LET n == Len(attempts) IN
    /\ n <= limit
    /\ status \in {"ready", "queued", "waiting_retry"} => n < limit
    /\ status \in {"running", "succeeded"} => n > 0 /\ attempts[n].status = status
    /\ status \in {"waiting_retry", "failed"} => n > 0 /\ attempts[n].status \in RetryableEnd
    /\ status \in {"waiting_dependencies", "skipped"} => n = 0
    /\ \A i \in 1..n :
          attempts[i].status \in {"running", "succeeded", "canceled"} =>
                i = n /\ status = attempts[i].status

AttemptHistory(s) ==
    \A t \in Task : TaskHistory(s.task[t], s.attempts[t], MaxAttempts[t])

(* The Run status tells the truth about its tasks: an open Run has an open  *)
(* task, a succeeded Run has only succeeded tasks, a failed one ended by a  *)
(* failure and has no canceled task.                                        *)
StatusAgrees(s) ==
    /\ s.status \in {"pending", "running"} =>
          /\ \E t \in Task : s.task[t] \notin TaskTerminal
          /\ \A t \in Task : s.task[t] # "canceled"
    /\ s.status = "pending" =>
          \A t \in Task : s.task[t] \in {"waiting_dependencies", "ready"}
    /\ s.status = "succeeded" => \A t \in Task : s.task[t] = "succeeded"
    /\ s.status = "failed" =>
          /\ \E t \in Task : s.task[t] = "failed"
          /\ \A t \in Task : s.task[t] \in TaskTerminal \ {"canceled"}
    /\ s.status = "canceled" =>
          /\ \E t \in Task : s.task[t] = "canceled"
          /\ \A t \in Task : s.task[t] \in TaskTerminal

SnapshotInv(s) ==
    /\ RemainingExact(s)
    /\ DependencyOrder(s)
    /\ AttemptHistory(s)
    /\ StatusAgrees(s)
    /\ s.err = FALSE

(* A Run that is not settled always has a task the platform can act on, so  *)
(* it cannot hang with every remaining task waiting for a dependency.       *)
NeverStuck(s) ==
    s.status \in {"pending", "running"} =>
        \E t \in Task : s.task[t] \in {"ready", "queued", "running", "waiting_retry"}
=============================================================================
