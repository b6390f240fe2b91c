-------------------------- MODULE WorkflowStateProofs --------------------------
(***************************************************************************)
(* The state rules of one Run preserve the snapshot invariant, for every   *)
(* acyclic definition.                                                     *)
(***************************************************************************)
EXTENDS WorkflowState, FiniteSetTheorems, TLAPS

(* u is s after transitionTask moved exactly the tasks T to the status to.    *)
TasksMovedTo(s, u, T, to, Owner) ==
    /\ u \in Snapshot(Owner)
    /\ u.status = s.status
    /\ u.attempts = s.attempts
    /\ u.remaining = s.remaining
    /\ u.err = s.err
    /\ \A t \in Task : u.task[t] = IF t \in T THEN to ELSE s.task[t]
    /\ \A t \in Task : u.readyAt[t] = IF t \in T THEN 0 ELSE s.readyAt[t]

(* transitionTask on a set of tasks whose transitions the table allows       *)
(* changes the statuses of exactly these tasks.                              *)
LEMMA TasksMoved ==
    ASSUME NEW Owner, NEW s \in Snapshot(Owner), NEW T \in SUBSET Task,
           NEW to \in TaskStatus,
           \A t \in T : to \in taskTransitions(s.task[t])
    PROVE  TasksMovedTo(s, transitionTasks(s, T, to), T, to, Owner)
  <1> DEFINE task == [t \in Task |-> IF t \in T THEN to ELSE s.task[t]]
             readyAt == [t \in Task |-> IF t \in T THEN 0 ELSE s.readyAt[t]]
  <1>1. transitionTasks(s, T, to) = [s EXCEPT !.task = task, !.readyAt = readyAt]
    BY DEF transitionTasks
  <1>2. task \in [Task -> TaskStatus] /\ readyAt \in [Task -> Int]
    BY DEF Snapshot
  <1> HIDE DEF task, readyAt
  <1>3. LET u == [s EXCEPT !.task = task, !.readyAt = readyAt] IN
        /\ u \in Snapshot(Owner)
        /\ u.status = s.status
        /\ u.attempts = s.attempts
        /\ u.remaining = s.remaining
        /\ u.err = s.err
        /\ u.task = task
        /\ u.readyAt = readyAt
    BY <1>2 DEF Snapshot
  <1> QED BY <1>1, <1>3 DEF task, readyAt, TasksMovedTo

(* transitionWorkflow changes nothing but the status of the Run.             *)
LEMMA WorkflowMoved ==
    ASSUME NEW Owner, NEW s \in Snapshot(Owner), NEW to \in WorkflowStatus,
           to \in workflowTransitions(s.status)
    PROVE  LET u == transitionWorkflow(s, to) IN
           /\ u \in Snapshot(Owner)
           /\ u.status = to
           /\ u.task = s.task
           /\ u.attempts = s.attempts
           /\ u.remaining = s.remaining
           /\ u.err = s.err
  BY DEF transitionWorkflow, Snapshot

(* u is s after transitionAttempt ended the last attempts of exactly T.       *)
AttemptsEndedBy(s, u, T, outcome, Owner) ==
    /\ u \in Snapshot(Owner)
    /\ u.status = s.status
    /\ u.task = s.task
    /\ u.remaining = s.remaining
    /\ u.err = s.err
    /\ \A t \in Task :
         /\ Len(u.attempts[t]) = Len(s.attempts[t])
         /\ \A i \in 1..Len(s.attempts[t]) :
              u.attempts[t][i] =
                 IF t \in T /\ i = Len(s.attempts[t])
                 THEN [s.attempts[t][i] EXCEPT !.status = outcome[t]]
                 ELSE s.attempts[t][i]

(* transitionAttempt ends the last attempt of each task and no other.        *)
LEMMA AttemptsEnded ==
    ASSUME NEW Owner, NEW s \in Snapshot(Owner), NEW T \in SUBSET Task,
           NEW outcome \in [T -> AttemptStatus \ {"running"}],
           \A t \in T : /\ s.attempts[t] # <<>>
                        /\ s.attempts[t][Len(s.attempts[t])].status = "running"
    PROVE  AttemptsEndedBy(s, transitionAttempts(s, T, outcome), T, outcome, Owner)
  <1> DEFINE ended == [t \in Task |->
                         IF t \in T
                         THEN [s.attempts[t] EXCEPT ![Len(s.attempts[t])].status = outcome[t]]
                         ELSE s.attempts[t]]
  <1>1. transitionAttempts(s, T, outcome) = [s EXCEPT !.attempts = ended]
    BY DEF transitionAttempts, attemptTransitions
  <1>2. ASSUME NEW t \in Task
        PROVE  /\ ended[t] \in Seq(AttemptOf(Owner))
               /\ Len(ended[t]) = Len(s.attempts[t])
               /\ \A i \in 1..Len(s.attempts[t]) :
                     ended[t][i] =
                        IF t \in T /\ i = Len(s.attempts[t])
                        THEN [s.attempts[t][i] EXCEPT !.status = outcome[t]]
                        ELSE s.attempts[t][i]
    <2>1. s.attempts[t] \in Seq(AttemptOf(Owner))
      BY <1>2 DEF Snapshot
    <2>2. CASE t \notin T
      BY <1>2, <2>1, <2>2
    <2>3. CASE t \in T
      <3> DEFINE a == s.attempts[t]
                 n == Len(s.attempts[t])
      <3>1. a \in Seq(AttemptOf(Owner)) /\ n \in 1..n /\ outcome[t] \in AttemptStatus
        BY <2>1, <2>3
      <3>2. ended[t] = [a EXCEPT ![n].status = outcome[t]]
        BY <1>2, <2>3
      <3>3. [a[n] EXCEPT !.status = outcome[t]] \in AttemptOf(Owner)
        <4>1. a[n] \in AttemptOf(Owner)
          BY <3>1
        <4> HIDE DEF a, n
        <4> QED BY <3>1, <4>1 DEF AttemptOf
      <3> QED BY <3>1, <3>2, <3>3, <2>3
    <2> QED BY <2>2, <2>3
  <1> HIDE DEF ended
  <1>3. ended \in [Task -> Seq(AttemptOf(Owner))]
    <2>1. \E f \in [Task -> Seq(AttemptOf(Owner))] : ended = f
      BY <1>2 DEF ended
    <2> QED BY <2>1
  <1>4. LET u == [s EXCEPT !.attempts = ended] IN
        /\ u \in Snapshot(Owner)
        /\ u.status = s.status
        /\ u.task = s.task
        /\ u.remaining = s.remaining
        /\ u.err = s.err
        /\ u.attempts = ended
    BY <1>3 DEF Snapshot
  <1> QED BY <1>1, <1>2, <1>4 DEF AttemptsEndedBy

-----------------------------------------------------------------------------
(* What the store holds for a Run: a well-typed snapshot that satisfies the    *)
(* snapshot invariant.                                                       *)
Sound(s, Owner) == s \in Snapshot(Owner) /\ SnapshotInv(s)

(* A step in which no task starts or stops being succeeded leaves the        *)
(* counters exact.                                                           *)
LEMMA SameSuccesses ==
    ASSUME NEW Owner, NEW s \in Snapshot(Owner), NEW u \in Snapshot(Owner),
           u.remaining = s.remaining,
           \A t \in Task : u.task[t] = "succeeded" <=> s.task[t] = "succeeded"
    PROVE  /\ RemainingExact(s) => RemainingExact(u)
           /\ \A t \in Task : Unsucceeded(u, t) = Unsucceeded(s, t)
  <1>1. \A t \in Task : Unsucceeded(u, t) = Unsucceeded(s, t)
    BY DefinitionAssumption DEF Unsucceeded
  <1> QED BY <1>1 DEF RemainingExact

(* QueueTask on a ready task of an open Run is accepted and sound.           *)
LEMMA QueueTaskSound ==
    ASSUME NEW Owner, NEW s, Sound(s, Owner),
           NEW t \in Task, s.task[t] = "ready", s.status \in {"pending", "running"}
    PROVE  LET u == QueueTask(s, t) IN
           /\ Sound(u, Owner)
           /\ u.status = "running"
           /\ u.attempts = s.attempts
           /\ \A x \in Task : u.task[x] = IF x = t THEN "queued" ELSE s.task[x]
  <1> DEFINE s1 == IF s.status = "pending" THEN transitionWorkflow(s, "running") ELSE s
             u == transitionTasks(s1, {t}, "queued")
  <1>0. s \in Snapshot(Owner) /\ SnapshotInv(s)
    BY DEF Sound
  <1>1. /\ s1 \in Snapshot(Owner)
        /\ s1.status = "running"
        /\ s1.task = s.task
        /\ s1.attempts = s.attempts
        /\ s1.remaining = s.remaining
        /\ s1.err = s.err
    BY <1>0, WorkflowMoved DEF workflowTransitions, WorkflowStatus
  <1>2. QueueTask(s, t) = u
    BY <1>1 DEF QueueTask
  <1> HIDE DEF s1
  <1>3. /\ u \in Snapshot(Owner)
        /\ u.status = "running"
        /\ u.attempts = s.attempts
        /\ u.remaining = s.remaining
        /\ u.err = s.err
        /\ \A x \in Task : u.task[x] = IF x = t THEN "queued" ELSE s.task[x]
    BY <1>1, TasksMoved DEF TasksMovedTo, taskTransitions, TaskStatus
  <1> HIDE DEF u
  <1>4. /\ RemainingExact(u)
        /\ \A x \in Task : Unsucceeded(u, x) = Unsucceeded(s, x)
    BY <1>0, <1>3, SameSuccesses DEF SnapshotInv
  <1>5. DependencyOrder(u)
    BY <1>0, <1>3, <1>4, DefinitionAssumption DEF SnapshotInv, DependencyOrder
  <1>6. AttemptHistory(u)
    BY <1>0, <1>3 DEF SnapshotInv, AttemptHistory, TaskHistory
  <1>7. StatusAgrees(u)
    BY <1>0, <1>3 DEF SnapshotInv, StatusAgrees, TaskTerminal
  <1> QED BY <1>0, <1>2, <1>3, <1>4, <1>5, <1>6, <1>7 DEF Sound, SnapshotInv

(* ReturnQueuedTaskToReady on queued tasks is accepted and sound; no attempt *)
(* is used up.                                                               *)
LEMMA ReturnQueuedSound ==
    ASSUME NEW Owner, NEW s, Sound(s, Owner),
           NEW T \in SUBSET Task, \A t \in T : s.task[t] = "queued"
    PROVE  LET u == ReturnQueuedTasksToReady(s, T) IN
           /\ Sound(u, Owner)
           /\ u.status = s.status
           /\ u.attempts = s.attempts
           /\ \A t \in Task : u.task[t] = IF t \in T THEN "ready" ELSE s.task[t]
  <1> DEFINE u == ReturnQueuedTasksToReady(s, T)
  <1>0. s \in Snapshot(Owner) /\ SnapshotInv(s)
    BY DEF Sound
  <1>1. /\ u \in Snapshot(Owner)
        /\ u.status = s.status
        /\ u.attempts = s.attempts
        /\ u.remaining = s.remaining
        /\ u.err = s.err
        /\ \A x \in Task : u.task[x] = IF x \in T THEN "ready" ELSE s.task[x]
    BY <1>0, TasksMoved DEF TasksMovedTo, taskTransitions, TaskStatus, ReturnQueuedTasksToReady
  <1> HIDE DEF u
  <1>2. /\ RemainingExact(u)
        /\ \A x \in Task : Unsucceeded(u, x) = Unsucceeded(s, x)
    BY <1>0, <1>1, SameSuccesses DEF SnapshotInv
  <1>3. DependencyOrder(u)
    BY <1>0, <1>1, <1>2, DefinitionAssumption DEF SnapshotInv, DependencyOrder
  <1>4. AttemptHistory(u)
    BY <1>0, <1>1 DEF SnapshotInv, AttemptHistory, TaskHistory
  <1>5. StatusAgrees(u)
    BY <1>0, <1>1 DEF SnapshotInv, StatusAgrees, TaskTerminal, Snapshot, WorkflowStatus
  <1> QED BY <1>0, <1>1, <1>2, <1>3, <1>4, <1>5 DEF Sound, SnapshotInv, u

(* MakeRetryReady on a task that waits for its retry is accepted and sound.  *)
LEMMA MakeRetryReadySound ==
    ASSUME NEW Owner, NEW s, Sound(s, Owner),
           NEW t \in Task, s.task[t] = "waiting_retry"
    PROVE  LET u == MakeRetryReady(s, t) IN
           /\ Sound(u, Owner)
           /\ u.status = s.status
           /\ u.attempts = s.attempts
           /\ \A x \in Task : u.task[x] = IF x = t THEN "ready" ELSE s.task[x]
  <1> DEFINE u == MakeRetryReady(s, t)
  <1>0. s \in Snapshot(Owner) /\ SnapshotInv(s)
    BY DEF Sound
  <1>1. /\ u \in Snapshot(Owner)
        /\ u.status = s.status
        /\ u.attempts = s.attempts
        /\ u.remaining = s.remaining
        /\ u.err = s.err
        /\ \A x \in Task : u.task[x] = IF x = t THEN "ready" ELSE s.task[x]
    BY <1>0, TasksMoved DEF TasksMovedTo, taskTransitions, TaskStatus, MakeRetryReady
  <1> HIDE DEF u
  <1>2. /\ RemainingExact(u)
        /\ \A x \in Task : Unsucceeded(u, x) = Unsucceeded(s, x)
    BY <1>0, <1>1, SameSuccesses DEF SnapshotInv
  <1>3. DependencyOrder(u)
    BY <1>0, <1>1, <1>2, DefinitionAssumption DEF SnapshotInv, DependencyOrder
  <1>4. AttemptHistory(u)
    BY <1>0, <1>1 DEF SnapshotInv, AttemptHistory, TaskHistory
  <1>5. StatusAgrees(u)
    BY <1>0, <1>1 DEF SnapshotInv, StatusAgrees, TaskTerminal, Snapshot, WorkflowStatus
  <1> QED BY <1>0, <1>1, <1>2, <1>3, <1>4, <1>5 DEF Sound, SnapshotInv, u

(* A queued task's history plus a running attempt is a running task's.       *)
LEMMA HistoryAppend ==
    ASSUME NEW a, NEW b, NEW limit \in Nat, Len(a) \in Nat,
           TaskHistory("queued", a, limit),
           Len(b) = Len(a) + 1,
           \A i \in 1..Len(a) : b[i] = a[i],
           b[Len(a) + 1].status = "running"
    PROVE  TaskHistory("running", b, limit)
  <1> DEFINE n == Len(a)
  <1>1. n < limit /\ \A i \in 1..n : a[i].status \notin {"running", "succeeded", "canceled"}
    BY DEF TaskHistory
  <1>2. n + 1 <= limit /\ n + 1 > 0
    BY <1>1
  <1>3. ASSUME NEW i \in 1..(n + 1), b[i].status \in {"running", "succeeded", "canceled"}
        PROVE  i = n + 1 /\ b[i].status = "running"
    BY <1>1, <1>3
  <1> QED BY <1>2, <1>3 DEF TaskHistory

(* u is s with a running attempt more for each of the tasks T.               *)
AttemptsStarted(s, u, T, owner) ==
    /\ u.status = s.status
    /\ \A t \in Task \ T : u.task[t] = s.task[t] /\ u.attempts[t] = s.attempts[t]
    /\ \A t \in T :
         /\ u.task[t] = "running"
         /\ Len(u.attempts[t]) = Len(s.attempts[t]) + 1
         /\ \A i \in 1..Len(s.attempts[t]) : u.attempts[t][i] = s.attempts[t][i]
         /\ u.attempts[t][Len(s.attempts[t]) + 1] = [status |-> "running", owner |-> owner[t]]

(* StartQueuedAttempt on queued tasks is accepted and sound: the new attempt *)
(* is within the limit and is the only one that runs.                        *)
LEMMA StartQueuedSound ==
    ASSUME NEW Owner, NEW s, Sound(s, Owner),
           NEW T \in SUBSET Task, \A t \in T : s.task[t] = "queued",
           NEW owner \in [T -> Owner]
    PROVE  /\ Sound(StartQueuedAttempts(s, T, owner), Owner)
           /\ AttemptsStarted(s, StartQueuedAttempts(s, T, owner), T, owner)
  <1> DEFINE s1 == transitionTasks(s, T, "running")
             appended == [t \in Task |->
                            IF t \in T
                            THEN Append(s.attempts[t], [status |-> "running", owner |-> owner[t]])
                            ELSE s.attempts[t]]
             u == StartQueuedAttempts(s, T, owner)
  <1>0. s \in Snapshot(Owner) /\ SnapshotInv(s)
    BY DEF Sound
  <1>1. /\ s1 \in Snapshot(Owner)
        /\ s1.status = s.status
        /\ s1.remaining = s.remaining
        /\ s1.err = s.err
        /\ \A x \in Task : s1.task[x] = IF x \in T THEN "running" ELSE s.task[x]
    BY <1>0, TasksMoved DEF TasksMovedTo, taskTransitions, TaskStatus
  <1>2. ASSUME NEW t \in Task
        PROVE  /\ appended[t] \in Seq(AttemptOf(Owner))
               /\ Len(appended[t]) = IF t \in T THEN Len(s.attempts[t]) + 1 ELSE Len(s.attempts[t])
               /\ \A i \in 1..Len(s.attempts[t]) : appended[t][i] = s.attempts[t][i]
               /\ t \in T => /\ appended[t][Len(s.attempts[t]) + 1].status = "running"
                             /\ appended[t][Len(s.attempts[t]) + 1] =
                                   [status |-> "running", owner |-> owner[t]]
    <2>1. s.attempts[t] \in Seq(AttemptOf(Owner))
      BY <1>0, <1>2 DEF Snapshot
    <2>2. t \in T => [status |-> "running", owner |-> owner[t]] \in AttemptOf(Owner)
      BY DEF AttemptOf, AttemptStatus
    <2> QED BY <2>1, <2>2
  <1>3. u = [s1 EXCEPT !.attempts = appended]
    BY DEF StartQueuedAttempts
  <1> HIDE DEF s1, appended, u
  <1>4. appended \in [Task -> Seq(AttemptOf(Owner))]
    BY <1>2 DEF appended
  <1>5. /\ u \in Snapshot(Owner)
        /\ u.status = s.status
        /\ u.attempts = appended
        /\ u.remaining = s.remaining
        /\ u.err = s.err
        /\ \A x \in Task : u.task[x] = IF x \in T THEN "running" ELSE s.task[x]
    BY <1>1, <1>3, <1>4 DEF Snapshot
  <1>6. /\ RemainingExact(u)
        /\ \A x \in Task : Unsucceeded(u, x) = Unsucceeded(s, x)
    BY <1>0, <1>5, SameSuccesses DEF SnapshotInv
  <1>7. DependencyOrder(u)
    BY <1>0, <1>5, <1>6, DefinitionAssumption DEF SnapshotInv, DependencyOrder
  <1>8. AttemptHistory(u)
    <2> SUFFICES ASSUME NEW t \in Task
                 PROVE  TaskHistory(u.task[t], u.attempts[t], MaxAttempts[t])
      BY DEF AttemptHistory
    <2>1. TaskHistory(s.task[t], s.attempts[t], MaxAttempts[t])
      BY <1>0 DEF SnapshotInv, AttemptHistory
    <2>2. CASE t \notin T
      BY <1>5, <2>1, <2>2 DEF appended
    <2>3. CASE t \in T
      <3>1. Len(s.attempts[t]) \in Nat /\ MaxAttempts[t] \in Nat
        BY <1>0, DefinitionAssumption DEF Snapshot
      <3>2. /\ Len(u.attempts[t]) = Len(s.attempts[t]) + 1
            /\ \A i \in 1..Len(s.attempts[t]) : u.attempts[t][i] = s.attempts[t][i]
            /\ u.attempts[t][Len(s.attempts[t]) + 1].status = "running"
        BY <1>2, <1>5, <2>3
      <3>3. s.task[t] = "queued" /\ u.task[t] = "running"
        BY <1>5, <2>3
      <3> QED BY <2>1, <3>1, <3>2, <3>3, HistoryAppend
    <2> QED BY <2>2, <2>3
  <1>9. StatusAgrees(u)
    BY <1>0, <1>5 DEF SnapshotInv, StatusAgrees, TaskTerminal, Snapshot, WorkflowStatus
  <1>10. AttemptsStarted(s, u, T, owner)
    <2>1. \A t \in Task \ T : appended[t] = s.attempts[t]
      BY DEF appended
    <2> QED BY <1>2, <1>5, <2>1 DEF AttemptsStarted
  <1> QED BY <1>0, <1>5, <1>6, <1>7, <1>8, <1>9, <1>10 DEF Sound, SnapshotInv, u

(* Ending the last attempt of a running task leaves a history that fits the  *)
(* task status the outcome leads to.                                         *)
LEMMA HistoryEnd ==
    ASSUME NEW a, NEW b, NEW limit \in Nat, Len(a) \in Nat,
           TaskHistory("running", a, limit),
           Len(b) = Len(a),
           \A i \in 1..Len(a) : i # Len(a) => b[i] = a[i]
    PROVE  /\ b[Len(a)].status \in RetryableEnd => TaskHistory("failed", b, limit)
           /\ b[Len(a)].status \in RetryableEnd /\ Len(a) < limit
                 => TaskHistory("waiting_retry", b, limit)
           /\ b[Len(a)].status = "succeeded" => TaskHistory("succeeded", b, limit)
           /\ b[Len(a)].status = "canceled" => TaskHistory("canceled", b, limit)
  <1> DEFINE n == Len(a)
  <1>1. /\ n > 0
        /\ n <= limit
        /\ \A i \in 1..n : i # n => a[i].status \notin {"running", "succeeded", "canceled"}
    BY DEF TaskHistory
  <1>2. \A i \in 1..n : i # n => b[i].status \notin {"running", "succeeded", "canceled"}
    BY <1>1
  <1> QED BY <1>1, <1>2 DEF TaskHistory, RetryableEnd

-----------------------------------------------------------------------------
(* What the walk of skipDescendantsFrom visits: the successors of the failed *)
(* task and of every visited task, and nothing that is not behind it.        *)
LEMMA DescendantsClosed ==
    ASSUME NEW f \in Task
    PROVE  /\ Descendants[f] \subseteq Task
           /\ Successors(f) \subseteq Descendants[f]
           /\ \A x \in Descendants[f] : Successors(x) \subseteq Descendants[f]
  <1>1. Descendants[f] =
          {u \in Task : \A S \in SUBSET Task :
              (Successors(f) \subseteq S /\ \A x \in S : Successors(x) \subseteq S) => u \in S}
    BY DEF Descendants
  <1>2. \A x \in Task : Successors(x) \subseteq Task
    BY DEF Successors
  <1> QED BY <1>1, <1>2

(* The walk visits no more than any set closed under successors.              *)
LEMMA DescendantsLeast ==
    ASSUME NEW f \in Task, NEW S \in SUBSET Task,
           Successors(f) \subseteq S, \A x \in S : Successors(x) \subseteq S
    PROVE  Descendants[f] \subseteq S
  BY DEF Descendants

(* Every visited task has a dependency that failed or was visited before it.  *)
LEMMA DescendantHasParent ==
    ASSUME NEW f \in Task, NEW u \in Descendants[f]
    PROVE  \E d \in Deps[u] : d = f \/ d \in Descendants[f]
  <1> DEFINE S == {x \in Descendants[f] : \E d \in Deps[x] : d = f \/ d \in Descendants[f]}
  <1>1. S \in SUBSET Task /\ Successors(f) \subseteq S
    BY DescendantsClosed DEF Successors
  <1>2. \A x \in S : Successors(x) \subseteq S
    BY DescendantsClosed DEF Successors
  <1>3. Descendants[f] \subseteq S
    <2> HIDE DEF S
    <2> QED BY <1>1, <1>2, DescendantsLeast
  <1> QED BY <1>3

(* Behind a task that has not succeeded nothing has started.                 *)
LEMMA DescendantsWait ==
    ASSUME NEW Owner, NEW s \in Snapshot(Owner), DependencyOrder(s),
           NEW f \in Task, s.task[f] # "succeeded"
    PROVE  \A u \in Descendants[f] :
              s.task[u] \in {"waiting_dependencies", "skipped", "canceled"}
  <1> DEFINE S == {x \in Task : s.task[x] \in {"waiting_dependencies", "skipped", "canceled"}}
  <1>1. ASSUME NEW x \in Task, s.task[x] # "succeeded"
        PROVE  Successors(x) \subseteq S
    <2> SUFFICES ASSUME NEW u \in Task, x \in Deps[u]
                 PROVE  u \in S
      BY DEF Successors
    <2>1. x \in Unsucceeded(s, u)
      BY <1>1 DEF Unsucceeded
    <2>2. s.task[u] \in TaskStatus
      BY DEF Snapshot
    <2> QED BY <2>1, <2>2 DEF DependencyOrder, TaskStatus
  <1>2. S \in SUBSET Task /\ Successors(f) \subseteq S /\ \A x \in S : Successors(x) \subseteq S
    BY <1>1
  <1>3. Descendants[f] \subseteq S
    <2> HIDE DEF S
    <2> QED BY <1>2, DescendantsLeast
  <1> QED BY <1>3

-----------------------------------------------------------------------------
(* Tasks are skipped only behind a failure.                                  *)
LEMMA NoSkipWithoutFailure ==
    ASSUME NEW Owner, NEW s \in Snapshot(Owner), DependencyOrder(s),
           \A t \in Task : s.task[t] # "failed"
    PROVE  \A t \in Task : s.task[t] # "skipped"
  <1> DEFINE S == {t \in Task : s.task[t] = "skipped"}
  <1> SUFFICES ASSUME S # {} PROVE FALSE
    OBVIOUS
  <1>1. PICK t \in S : Deps[t] \cap S = {}
    BY AcyclicAssumption
  <1>2. PICK u \in Deps[t] : s.task[u] \in {"failed", "skipped"}
    BY DEF DependencyOrder
  <1>3. u \in Task
    BY <1>2, DefinitionAssumption
  <1> QED BY <1>1, <1>2, <1>3

(* An open Run always has a task that can move: Run progress never depends   *)
(* on a cycle of waiting tasks.                                              *)
LEMMA OpenRunNeverStuck ==
    ASSUME NEW Owner, NEW s \in Snapshot(Owner), DependencyOrder(s), StatusAgrees(s)
    PROVE  NeverStuck(s)
  <1> DEFINE moving == {"ready", "queued", "running", "waiting_retry"}
             S == {t \in Task : s.task[t] = "waiting_dependencies"}
  <1> SUFFICES ASSUME s.status \in {"pending", "running"},
                      \A t \in Task : s.task[t] \notin moving
               PROVE  FALSE
    BY DEF NeverStuck
  <1>1. PICK o \in Task : s.task[o] \notin TaskTerminal
    BY DEF StatusAgrees
  <1>2. o \in S
    BY <1>1 DEF Snapshot, TaskStatus, TaskTerminal
  <1>3. PICK t \in S : Deps[t] \cap S = {}
    BY <1>2, AcyclicAssumption
  <1>4. PICK u \in Deps[t] : s.task[u] # "succeeded"
    BY <1>3 DEF DependencyOrder, Unsucceeded
  <1>5. u \in Task /\ s.task[u] \in TaskStatus
    BY <1>3, <1>4, DefinitionAssumption DEF Snapshot
  <1>6. s.task[u] \notin {"failed", "skipped", "canceled"}
    BY <1>3, <1>4 DEF DependencyOrder
  <1> QED BY <1>3, <1>4, <1>5, <1>6 DEF TaskStatus

-----------------------------------------------------------------------------
(* skipDescendantsFrom restores the dependency order after the tasks F       *)
(* failed: v is the snapshot s after the attempts of some running tasks      *)
(* ended, F the tasks among them that have no attempt left.                  *)
LEMMA SkipRestoresOrder ==
    ASSUME NEW Owner, NEW s \in Snapshot(Owner), NEW v \in Snapshot(Owner),
           DependencyOrder(s), \A t \in Task : s.task[t] # "canceled",
           NEW F \in SUBSET Task,
           \A f \in F : v.task[f] = "failed" /\ s.task[f] = "running",
           \A t \in Task \ F : \/ v.task[t] = s.task[t]
                               \/ v.task[t] = "waiting_retry" /\ s.task[t] = "running"
    PROVE  LET w == skipDescendantsFrom(v, F) IN
           /\ w \in Snapshot(Owner)
           /\ w.status = v.status
           /\ w.attempts = v.attempts
           /\ w.remaining = v.remaining
           /\ w.err = v.err
           /\ \A t \in Task : \/ w.task[t] = v.task[t]
                              \/ v.task[t] = "waiting_dependencies" /\ w.task[t] = "skipped"
           /\ DependencyOrder(w)
  <1> DEFINE D == {u \in Task : \E f \in F : u \in Descendants[f]}
             K == {u \in Task : (\E f \in F : u \in Descendants[f]) /\ v.task[u] \notin TaskTerminal}
             w == skipDescendantsFrom(v, F)
  <1>1. \A u \in D : s.task[u] \in {"waiting_dependencies", "skipped"}
    BY DescendantsWait
  <1>2. \A u \in D : u \notin F /\ v.task[u] = s.task[u]
    BY <1>1
  <1>3. K = {u \in D : s.task[u] = "waiting_dependencies"}
    BY <1>1, <1>2 DEF TaskTerminal
  <1>4. w = transitionTasks(v, K, "skipped")
    BY DEF skipDescendantsFrom
  <1>5. \A u \in K : "skipped" \in taskTransitions(v.task[u])
    BY <1>2, <1>3 DEF taskTransitions
  <1>6. /\ w \in Snapshot(Owner)
        /\ w.status = v.status
        /\ w.attempts = v.attempts
        /\ w.remaining = v.remaining
        /\ w.err = v.err
        /\ \A t \in Task : w.task[t] = IF t \in K THEN "skipped" ELSE v.task[t]
    <2> HIDE DEF D, K, w
    <2>1. K \in SUBSET Task /\ "skipped" \in TaskStatus
      BY DEF K, TaskStatus
    <2>2. TasksMovedTo(v, transitionTasks(v, K, "skipped"), K, "skipped", Owner)
      BY <1>5, <2>1, TasksMoved, Zenon
    <2> QED BY <1>4, <2>2 DEF TasksMovedTo
  <1>7. \A u \in D : w.task[u] = "skipped"
    BY <1>1, <1>2, <1>3, <1>6
  <1>8. \A t \in Task \ D : w.task[t] = v.task[t]
    BY <1>3, <1>6
  <1>9. ASSUME NEW t \in Task
        PROVE  Unsucceeded(w, t) = Unsucceeded(s, t)
    <2>1. \A u \in Task : w.task[u] = "succeeded" <=> s.task[u] = "succeeded"
      BY <1>1, <1>7, <1>8
    <2> QED BY <2>1, <1>9, DefinitionAssumption DEF Unsucceeded
  <1>10. ASSUME NEW t \in Task, NEW d \in Deps[t], d \in F \/ d \in D
         PROVE  t \in D
    BY <1>10, DescendantsClosed, DefinitionAssumption DEF Successors
  <1> HIDE DEF w, K
  <1>11. ASSUME NEW t \in Task
         PROVE  /\ w.task[t] \in {"ready", "queued", "running", "waiting_retry", "succeeded", "failed"}
                      => Unsucceeded(w, t) = {}
                /\ w.task[t] = "waiting_dependencies" =>
                      /\ Unsucceeded(w, t) # {}
                      /\ \A u \in Deps[t] : w.task[u] \notin {"failed", "skipped", "canceled"}
                /\ w.task[t] = "skipped" => \E u \in Deps[t] : w.task[u] \in {"failed", "skipped"}
    <2>1. CASE t \in D
      <3>1. w.task[t] = "skipped"
        BY <1>7, <2>1
      <3>2. PICK f \in F : t \in Descendants[f]
        BY <2>1
      <3>3. PICK d \in Deps[t] : d = f \/ d \in Descendants[f]
        BY <3>2, DescendantHasParent
      <3>4. d \in Task /\ (d \in F \/ d \in D)
        BY <3>2, <3>3, DefinitionAssumption
      <3>5. w.task[d] \in {"failed", "skipped"}
        BY <1>2, <1>7, <1>8, <3>4
      <3> QED BY <3>1, <3>3, <3>5
    <2>2. CASE t \notin D
      <3>1. w.task[t] = v.task[t]
        BY <1>8, <2>2
      <3>2. \A d \in Deps[t] : d \in Task /\ d \notin F /\ d \notin D /\ w.task[d] = v.task[d]
        BY <1>8, <1>10, <2>2, DefinitionAssumption
      <3>3. /\ s.task[t] \in {"ready", "queued", "running", "waiting_retry", "succeeded", "failed"}
                  => Unsucceeded(s, t) = {}
            /\ s.task[t] = "waiting_dependencies" =>
                  /\ Unsucceeded(s, t) # {}
                  /\ \A u \in Deps[t] : s.task[u] \notin {"failed", "skipped", "canceled"}
            /\ s.task[t] = "skipped" => \E u \in Deps[t] : s.task[u] \in {"failed", "skipped"}
        BY DEF DependencyOrder
      <3>4. \A d \in Deps[t] : \/ w.task[d] = s.task[d]
                               \/ w.task[d] = "waiting_retry" /\ s.task[d] = "running"
        BY <3>2
      <3>5. \/ w.task[t] = s.task[t]
            \/ w.task[t] \in {"waiting_retry", "failed"} /\ s.task[t] = "running"
        BY <3>1
      <3> QED BY <1>9, <3>3, <3>4, <3>5
    <2> QED BY <2>1, <2>2
  <1>12. DependencyOrder(w)
    BY <1>11 DEF DependencyOrder
  <1>13. \A t \in Task : \/ w.task[t] = v.task[t]
                         \/ v.task[t] = "waiting_dependencies" /\ w.task[t] = "skipped"
    BY <1>2, <1>3, <1>6
  <1> QED BY <1>6, <1>12, <1>13 DEF w

(* settleWorkflowIfComplete never fails on a running Run whose tasks respect *)
(* the dependency order, and gives it the verdict its tasks deserve.         *)
LEMMA SettleAgrees ==
    ASSUME NEW Owner, NEW w \in Snapshot(Owner), w.status = "running",
           DependencyOrder(w), \A t \in Task : w.task[t] # "canceled"
    PROVE  LET x == settleWorkflowIfComplete(w) IN
           /\ x \in Snapshot(Owner)
           /\ x.task = w.task
           /\ x.attempts = w.attempts
           /\ x.remaining = w.remaining
           /\ x.err = w.err
           /\ StatusAgrees(x)
  <1> DEFINE x == settleWorkflowIfComplete(w)
  <1>1. CASE \E t \in Task : w.task[t] \notin TaskTerminal
    BY <1>1 DEF settleWorkflowIfComplete, StatusAgrees
  <1>2. CASE (\A t \in Task : w.task[t] \in TaskTerminal) /\ \E t \in Task : w.task[t] = "failed"
    <2>1. x = transitionWorkflow(w, "failed")
      BY <1>2 DEF settleWorkflowIfComplete
    <2> HIDE DEF x
    <2>2. /\ x \in Snapshot(Owner) /\ x.status = "failed" /\ x.task = w.task
          /\ x.attempts = w.attempts /\ x.remaining = w.remaining /\ x.err = w.err
      BY <2>1, WorkflowMoved DEF workflowTransitions, WorkflowStatus
    <2>3. StatusAgrees(x)
      BY <1>2, <2>2 DEF StatusAgrees
    <2> QED BY <2>2, <2>3 DEF x
  <1>3. CASE (\A t \in Task : w.task[t] \in TaskTerminal) /\ \A t \in Task : w.task[t] # "failed"
    <2>1. \A t \in Task : w.task[t] = "succeeded"
      BY <1>3, NoSkipWithoutFailure DEF TaskTerminal
    <2>2. x = transitionWorkflow(w, "succeeded")
      BY <1>3, <2>1 DEF settleWorkflowIfComplete
    <2> HIDE DEF x
    <2>3. /\ x \in Snapshot(Owner) /\ x.status = "succeeded" /\ x.task = w.task
          /\ x.attempts = w.attempts /\ x.remaining = w.remaining /\ x.err = w.err
      BY <2>2, WorkflowMoved DEF workflowTransitions, WorkflowStatus
    <2>4. StatusAgrees(x)
      BY <2>1, <2>3 DEF StatusAgrees
    <2> QED BY <2>3, <2>4 DEF x
  <1> QED BY <1>1, <1>2, <1>3

-----------------------------------------------------------------------------
(* The attempts of u are those of s, with the last ones of T ended.          *)
LastEnded(s, u, T, outcome) ==
    \A t \in Task :
        /\ Len(u.attempts[t]) = Len(s.attempts[t])
        /\ \A i \in 1..Len(s.attempts[t]) :
             /\ u.attempts[t][i].owner = s.attempts[t][i].owner
             /\ t \in T /\ i = Len(s.attempts[t]) => u.attempts[t][i].status = outcome[t]
             /\ ~(t \in T /\ i = Len(s.attempts[t])) => u.attempts[t][i] = s.attempts[t][i]

(* u is s after the last attempts of the running tasks T ended: these tasks  *)
(* stopped running, others were at most released or skipped.                 *)
Resolved(s, u, T, outcome) ==
    /\ LastEnded(s, u, T, outcome)
    /\ \A t \in T : u.task[t] \in {"succeeded", "failed", "waiting_retry"}
    /\ \A t \in Task \ T :
         \/ u.task[t] = s.task[t]
         \/ s.task[t] = "waiting_dependencies" /\ u.task[t] \in {"ready", "skipped"}

\* Ending the last attempts of a set of tasks, said position by position.
LEMMA LastEndedFacts ==
    ASSUME NEW Owner, NEW s \in Snapshot(Owner), NEW T \in SUBSET Task, NEW outcome, NEW u,
           \A t \in Task :
             /\ Len(u.attempts[t]) = Len(s.attempts[t])
             /\ \A i \in 1..Len(s.attempts[t]) :
                  u.attempts[t][i] =
                     IF t \in T /\ i = Len(s.attempts[t])
                     THEN [s.attempts[t][i] EXCEPT !.status = outcome[t]]
                     ELSE s.attempts[t][i]
    PROVE  LastEnded(s, u, T, outcome)
  <1> SUFFICES ASSUME NEW t \in Task, NEW i \in 1..Len(s.attempts[t])
               PROVE  /\ u.attempts[t][i].owner = s.attempts[t][i].owner
                      /\ t \in T /\ i = Len(s.attempts[t]) => u.attempts[t][i].status = outcome[t]
                      /\ ~(t \in T /\ i = Len(s.attempts[t])) => u.attempts[t][i] = s.attempts[t][i]
    BY DEF LastEnded
  <1>1. s.attempts[t] \in Seq(AttemptOf(Owner))
    BY DEF Snapshot
  <1>2. s.attempts[t][i] \in AttemptOf(Owner)
    BY <1>1
  <1> DEFINE a == s.attempts[t][i]
  <1>3. [a EXCEPT !.status = outcome[t]].status = outcome[t] /\ [a EXCEPT !.status = outcome[t]].owner = a.owner
    BY <1>2 DEF AttemptOf
  <1> QED BY <1>3

-----------------------------------------------------------------------------
(* What a sound snapshot says of running tasks.                               *)
RunningTasks(s, T, Owner) ==
    /\ s \in Snapshot(Owner) /\ SnapshotInv(s) /\ s.err = FALSE
    /\ s.status = "running" /\ \A t \in Task : s.task[t] # "canceled"
    /\ \A t \in T : /\ s.attempts[t] # <<>>
                    /\ s.attempts[t][Len(s.attempts[t])].status = "running"

(* A running task has a running last attempt, and its Run is running too.      *)
LEMMA RunningFacts ==
    ASSUME NEW Owner, NEW s, Sound(s, Owner),
           NEW T \in SUBSET Task, T # {}, \A t \in T : s.task[t] = "running"
    PROVE  RunningTasks(s, T, Owner)
  <1>0. s \in Snapshot(Owner) /\ SnapshotInv(s) /\ s.err = FALSE
    BY DEF Sound, SnapshotInv
  <1>2. s.status = "running" /\ \A t \in Task : s.task[t] # "canceled"
    BY <1>0 DEF SnapshotInv, StatusAgrees, Snapshot, WorkflowStatus, TaskTerminal
  <1>3. \A t \in T : /\ s.attempts[t] # <<>>
                     /\ s.attempts[t][Len(s.attempts[t])].status = "running"
    BY <1>0 DEF SnapshotInv, AttemptHistory, TaskHistory, Snapshot
  <1> QED BY <1>0, <1>2, <1>3 DEF RunningTasks

(* v is s after the last attempts of the running tasks T ended: the tasks F  *)
(* failed, the others have attempts left and wait for their retry.           *)
EndedTo(s, v, T, F, outcome, Owner) ==
    /\ v \in Snapshot(Owner)
    /\ v.status = s.status
    /\ v.remaining = s.remaining
    /\ v.err = s.err
    /\ F \subseteq T
    /\ \A t \in T \ F : Len(s.attempts[t]) < MaxAttempts[t]
    /\ \A t \in Task :
         /\ v.task[t] = IF t \in F THEN "failed"
                        ELSE IF t \in T THEN "waiting_retry" ELSE s.task[t]
         /\ Len(v.attempts[t]) = Len(s.attempts[t])
         /\ \A i \in 1..Len(s.attempts[t]) :
              v.attempts[t][i] =
                 IF t \in T /\ i = Len(s.attempts[t])
                 THEN [s.attempts[t][i] EXCEPT !.status = outcome[t]]
                 ELSE s.attempts[t][i]

(* Skipping what is behind the failures and settling the Run is accepted and *)
(* leaves a sound snapshot.                                                  *)
LEMMA SettleAfterEndSound ==
    ASSUME NEW Owner, NEW s, Sound(s, Owner),
           NEW T \in SUBSET Task, T # {}, \A t \in T : s.task[t] = "running",
           NEW outcome \in [T -> RetryableEnd],
           NEW s4, NEW F, EndedTo(s, s4, T, F, outcome, Owner)
    PROVE  LET u == settleWorkflowIfComplete(skipDescendantsFrom(s4, F))
           IN  Sound(u, Owner) /\ Resolved(s, u, T, outcome)
  <1> DEFINE s5 == skipDescendantsFrom(s4, F)
             u == settleWorkflowIfComplete(s5)
  <1>1. /\ s \in Snapshot(Owner) /\ SnapshotInv(s) /\ s.err = FALSE
        /\ s.status = "running" /\ \A t \in Task : s.task[t] # "canceled"
        /\ \A t \in T : /\ s.attempts[t] # <<>>
                        /\ s.attempts[t][Len(s.attempts[t])].status = "running"
    <2>1. RunningTasks(s, T, Owner)
      BY RunningFacts
    <2> QED BY <2>1 DEF RunningTasks
  <1>2. /\ F \in SUBSET Task /\ F \subseteq T
        /\ s4 \in Snapshot(Owner)
        /\ s4.status = s.status
        /\ s4.remaining = s.remaining
        /\ s4.err = s.err
        /\ \A t \in Task : s4.task[t] = IF t \in F THEN "failed"
                                        ELSE IF t \in T THEN "waiting_retry" ELSE s.task[t]
    BY DEF EndedTo
  <1>3. /\ \A t \in T \ F : Len(s.attempts[t]) < MaxAttempts[t]
        /\ \A t \in Task :
             /\ Len(s4.attempts[t]) = Len(s.attempts[t])
             /\ \A i \in 1..Len(s.attempts[t]) :
                  s4.attempts[t][i] =
                     IF t \in T /\ i = Len(s.attempts[t])
                     THEN [s.attempts[t][i] EXCEPT !.status = outcome[t]]
                     ELSE s.attempts[t][i]
    BY DEF EndedTo
  <1>4. /\ s5 \in Snapshot(Owner)
         /\ s5.status = s4.status
         /\ s5.attempts = s4.attempts
         /\ s5.remaining = s4.remaining
         /\ s5.err = s4.err
         /\ \A t \in Task : \/ s5.task[t] = s4.task[t]
                            \/ s4.task[t] = "waiting_dependencies" /\ s5.task[t] = "skipped"
         /\ DependencyOrder(s5)
    <2>1. DependencyOrder(s)
      BY <1>1 DEF SnapshotInv
    <2>2. \A f \in F : s4.task[f] = "failed" /\ s.task[f] = "running"
      BY <1>2
    <2>3. \A t \in Task \ F : \/ s4.task[t] = s.task[t]
                              \/ s4.task[t] = "waiting_retry" /\ s.task[t] = "running"
      BY <1>2
    <2> QED BY <1>1, <1>2, <2>1, <2>2, <2>3, SkipRestoresOrder
  <1> HIDE DEF s5
  <1>5. /\ u \in Snapshot(Owner)
         /\ u.task = s5.task
         /\ u.attempts = s4.attempts
         /\ u.remaining = s.remaining
         /\ u.err = FALSE
         /\ StatusAgrees(u)
    <2>1. \A t \in Task : s5.task[t] # "canceled"
      BY <1>1, <1>2, <1>4
    <2> QED BY <1>1, <1>2, <1>4, <2>1, SettleAgrees
  <1> HIDE DEF u
  <1>6. RemainingExact(u)
    <2>1. \A t \in Task : u.task[t] = "succeeded" <=> s.task[t] = "succeeded"
      BY <1>2, <1>4, <1>5
    <2> QED BY <1>1, <1>5, <2>1, SameSuccesses DEF SnapshotInv
  <1>7. DependencyOrder(u)
    BY <1>4, <1>5, DefinitionAssumption DEF DependencyOrder, Unsucceeded
  <1>8. AttemptHistory(u)
    <2> SUFFICES ASSUME NEW t \in Task
                 PROVE  TaskHistory(u.task[t], u.attempts[t], MaxAttempts[t])
      BY DEF AttemptHistory
    <2>1. TaskHistory(s.task[t], s.attempts[t], MaxAttempts[t])
      BY <1>1 DEF SnapshotInv, AttemptHistory
    <2>2. /\ Len(s.attempts[t]) \in Nat /\ MaxAttempts[t] \in Nat
          /\ s.attempts[t] \in Seq(AttemptOf(Owner)) /\ s4.attempts[t] \in Seq(AttemptOf(Owner))
      BY <1>1, <1>2, DefinitionAssumption DEF Snapshot
    <2>3. CASE t \in T
      <3>1. u.task[t] = IF t \notin F THEN "waiting_retry" ELSE "failed"
        BY <1>2, <1>4, <1>5, <2>3
      <3>2. t \notin F => Len(s.attempts[t]) < MaxAttempts[t]
        BY <1>3, <2>3
      <3>3. s4.attempts[t][Len(s.attempts[t])].status \in RetryableEnd
        <4>1. Len(s.attempts[t]) \in 1..Len(s.attempts[t])
          BY <1>1, <2>2, <2>3
        <4>2. s.attempts[t][Len(s.attempts[t])] \in AttemptOf(Owner)
          BY <2>2, <4>1
        <4>3. s4.attempts[t][Len(s.attempts[t])] =
                [s.attempts[t][Len(s.attempts[t])] EXCEPT !.status = outcome[t]]
          BY <1>3, <2>3, <4>1
        <4> QED BY <4>2, <4>3, <2>3 DEF AttemptOf
      <3>4. \A i \in 1..Len(s.attempts[t]) :
               i # Len(s.attempts[t]) => s4.attempts[t][i] = s.attempts[t][i]
        BY <1>3
      <3>5. TaskHistory("running", s.attempts[t], MaxAttempts[t])
        BY <2>1, <2>3
      <3>6. Len(s4.attempts[t]) = Len(s.attempts[t])
        BY <1>3
      <3>7. /\ TaskHistory("failed", s4.attempts[t], MaxAttempts[t])
            /\ t \notin F => TaskHistory("waiting_retry", s4.attempts[t], MaxAttempts[t])
        BY <2>2, <3>2, <3>3, <3>4, <3>5, <3>6, HistoryEnd
      <3> QED BY <1>5, <3>1, <3>7
    <2>4. CASE t \notin T
      <3>1. s4.attempts[t] = s.attempts[t]
        <4>1. /\ Len(s4.attempts[t]) = Len(s.attempts[t])
              /\ \A i \in 1..Len(s.attempts[t]) : s4.attempts[t][i] = s.attempts[t][i]
          BY <1>3, <2>4
        <4> QED BY <2>2, <4>1
      <3>2. \/ u.task[t] = s.task[t]
            \/ s.task[t] = "waiting_dependencies" /\ u.task[t] = "skipped"
        BY <1>2, <1>4, <1>5, <2>4
      <3> QED BY <1>5, <2>1, <3>1, <3>2 DEF TaskHistory
    <2> QED BY <2>3, <2>4
  <1>9. Resolved(s, u, T, outcome)
    <2>0. \A x \in Task :
            /\ Len(u.attempts[x]) = Len(s.attempts[x])
            /\ \A i \in 1..Len(s.attempts[x]) :
                 u.attempts[x][i] =
                    IF x \in T /\ i = Len(s.attempts[x])
                    THEN [s.attempts[x][i] EXCEPT !.status = outcome[x]]
                    ELSE s.attempts[x][i]
      BY <1>3, <1>5
    <2>1. LastEnded(s, u, T, outcome)
      BY <1>1, <2>0, LastEndedFacts, Zenon
    <2>2. \A t \in T : u.task[t] \in {"succeeded", "failed", "waiting_retry"}
      BY <1>2, <1>4, <1>5
    <2>3. \A t \in Task \ T :
             \/ u.task[t] = s.task[t]
             \/ s.task[t] = "waiting_dependencies" /\ u.task[t] \in {"ready", "skipped"}
      BY <1>2, <1>4, <1>5
    <2> QED BY <2>1, <2>2, <2>3 DEF Resolved
  <1> QED BY <1>5, <1>6, <1>7, <1>8, <1>9 DEF Sound, SnapshotInv, u, s5

(* InterruptAttempt, TimeoutAttempt and a temporary failure, on running      *)
(* tasks: accepted, and sound whether a task retries or fails.               *)
LEMMA EndAttemptsSound ==
    ASSUME NEW Owner, NEW s, Sound(s, Owner), NEW at \in Int,
           NEW T \in SUBSET Task, T # {}, \A t \in T : s.task[t] = "running",
           NEW outcome \in [T -> RetryableEnd]
    PROVE  LET u == EndAttempts(s, T, outcome, at)
           IN  Sound(u, Owner) /\ Resolved(s, u, T, outcome)
  <1> DEFINE s1 == transitionAttempts(s, T, outcome)
             again == RetriesLeft(s1, T)
             F == T \ again
             s2 == transitionTasks(s1, again, "waiting_retry")
             readyAt == [t \in Task |-> IF t \in again THEN at + RetryInterval[t]
                                        ELSE s2.readyAt[t]]
             s3 == [s2 EXCEPT !.readyAt = readyAt]
             s4 == transitionTasks(s3, F, "failed")
  <1>0. s \in Snapshot(Owner) /\ SnapshotInv(s) /\ s.err = FALSE
    BY DEF Sound, SnapshotInv
  <1>1. EndAttempts(s, T, outcome, at) =
          settleWorkflowIfComplete(skipDescendantsFrom(s4, F))
    BY DEF EndAttempts, applyRetryDecision
  <1>2. s.status = "running" /\ \A t \in Task : s.task[t] # "canceled"
    BY <1>0 DEF SnapshotInv, StatusAgrees, Snapshot, WorkflowStatus, TaskTerminal
  <1>3. \A t \in T : /\ s.attempts[t] # <<>>
                     /\ s.attempts[t][Len(s.attempts[t])].status = "running"
    BY <1>0 DEF SnapshotInv, AttemptHistory, TaskHistory, Snapshot
  <1>4. outcome \in [T -> AttemptStatus \ {"running"}]
    BY DEF RetryableEnd, AttemptStatus
  <1>5. /\ s1 \in Snapshot(Owner)
        /\ s1.status = s.status
        /\ s1.task = s.task
        /\ s1.remaining = s.remaining
        /\ s1.err = s.err
        /\ \A t \in Task :
             /\ Len(s1.attempts[t]) = Len(s.attempts[t])
             /\ \A i \in 1..Len(s.attempts[t]) :
                  s1.attempts[t][i] =
                     IF t \in T /\ i = Len(s.attempts[t])
                     THEN [s.attempts[t][i] EXCEPT !.status = outcome[t]]
                     ELSE s.attempts[t][i]
    <2>1. AttemptsEndedBy(s, s1, T, outcome, Owner)
      BY <1>0, <1>3, <1>4, AttemptsEnded, Zenon
    <2> HIDE DEF s1
    <2> QED BY <2>1 DEF AttemptsEndedBy
  <1> HIDE DEF s1
  <1>6. again \in SUBSET Task /\ F \in SUBSET Task /\ again \subseteq T
    BY DEF RetriesLeft
  <1>7. /\ s2 \in Snapshot(Owner)
        /\ s2.status = s.status
        /\ s2.attempts = s1.attempts
        /\ s2.remaining = s.remaining
        /\ s2.err = s.err
        /\ \A t \in Task : s2.task[t] = IF t \in again THEN "waiting_retry" ELSE s.task[t]
    <2>1. \A t \in again : "waiting_retry" \in taskTransitions(s1.task[t])
      BY <1>5, <1>6 DEF taskTransitions
    <2> HIDE DEF again
    <2> QED BY <1>5, <1>6, <2>1, TasksMoved DEF TasksMovedTo, TaskStatus
  <1> HIDE DEF again, F, s2
  <1>8. readyAt \in [Task -> Int]
    BY <1>7, <1>6, DefinitionAssumption DEF Snapshot
  <1> HIDE DEF readyAt
  <1>9. /\ s3 \in Snapshot(Owner)
        /\ s3.status = s.status
        /\ s3.attempts = s1.attempts
        /\ s3.remaining = s.remaining
        /\ s3.err = s.err
        /\ s3.task = s2.task
    BY <1>7, <1>8 DEF Snapshot
  <1> HIDE DEF s3
  <1>10. /\ s4 \in Snapshot(Owner)
         /\ s4.status = s.status
         /\ s4.attempts = s1.attempts
         /\ s4.remaining = s.remaining
         /\ s4.err = s.err
         /\ \A t \in Task : s4.task[t] = IF t \in F THEN "failed"
                                         ELSE IF t \in again THEN "waiting_retry" ELSE s.task[t]
    <2>1. \A t \in F : "failed" \in taskTransitions(s3.task[t])
      BY <1>6, <1>7, <1>9 DEF taskTransitions, F
    <2> QED BY <1>6, <1>7, <1>9, <2>1, TasksMoved DEF TasksMovedTo, TaskStatus
  <1> HIDE DEF s4
  <1>11. \A t \in T \ F : Len(s.attempts[t]) < MaxAttempts[t]
    BY <1>5, <1>6 DEF F, again, RetriesLeft
  <1>12. F \in SUBSET T /\ \A t \in Task : s4.task[t] =
            IF t \in F THEN "failed" ELSE IF t \in T THEN "waiting_retry" ELSE s.task[t]
    BY <1>6, <1>10 DEF F
  <1>13. EndedTo(s, s4, T, F, outcome, Owner)
    BY <1>5, <1>10, <1>11, <1>12 DEF EndedTo
  <1> QED BY <1>1, <1>13, SettleAfterEndSound

(* The permanent failure of a running task is accepted and sound.            *)
LEMMA FailPermanentlySound ==
    ASSUME NEW Owner, NEW s, Sound(s, Owner), NEW t \in Task, s.task[t] = "running"
    PROVE  LET u == failPermanently(s, t)
           IN  Sound(u, Owner) /\ Resolved(s, u, {t}, [x \in {t} |-> "failed"])
  <1> DEFINE T == {t}
             outcome == [x \in {t} |-> "failed"]
             s1 == transitionAttempts(s, T, outcome)
             s2 == transitionTasks(s1, T, "failed")
  <1>1. /\ T \in SUBSET Task /\ T # {} /\ \A x \in T : s.task[x] = "running"
        /\ outcome \in [T -> RetryableEnd]
        /\ outcome \in [T -> AttemptStatus \ {"running"}]
    BY DEF RetryableEnd, AttemptStatus
  <1>2. failPermanently(s, t) = settleWorkflowIfComplete(skipDescendantsFrom(s2, T))
    BY DEF failPermanently
  <1> HIDE DEF T, outcome
  <1>3. /\ s \in Snapshot(Owner)
        /\ \A x \in T : /\ s.attempts[x] # <<>>
                        /\ s.attempts[x][Len(s.attempts[x])].status = "running"
    <2>1. RunningTasks(s, T, Owner)
      BY <1>1, RunningFacts
    <2> QED BY <2>1 DEF RunningTasks
  <1>4. AttemptsEndedBy(s, s1, T, outcome, Owner)
    BY <1>1, <1>3, AttemptsEnded, Zenon
  <1> HIDE DEF s1
  <1>5. s1 \in Snapshot(Owner) /\ \A x \in T : "failed" \in taskTransitions(s1.task[x])
    BY <1>1, <1>4 DEF AttemptsEndedBy, taskTransitions
  <1>6. TasksMovedTo(s1, s2, T, "failed", Owner)
    <2>1. "failed" \in TaskStatus
      BY DEF TaskStatus
    <2> QED BY <1>1, <1>5, <2>1, TasksMoved, Zenon
  <1> HIDE DEF s2
  <1>7. EndedTo(s, s2, T, T, outcome, Owner)
    BY <1>4, <1>6 DEF EndedTo, AttemptsEndedBy, TasksMovedTo
  <1>8. /\ Sound(failPermanently(s, t), Owner)
        /\ Resolved(s, failPermanently(s, t), T, outcome)
    BY <1>1, <1>2, <1>7, SettleAfterEndSound
  <1> QED BY <1>8 DEF T, outcome

(* What u still waits for in v, where t has succeeded since s.                *)
DependencyDone(s, v, t, u) ==
    /\ Unsucceeded(v, u) = Unsucceeded(s, u) \ {t}
    /\ IsFiniteSet(Unsucceeded(v, u))
    /\ Cardinality(Unsucceeded(v, u)) \in Nat
    /\ Cardinality(Unsucceeded(v, u)) =
         IF u \in Successors(t) THEN s.remaining[u] - 1 ELSE s.remaining[u]

(* Lowering a counter once per edge keeps it exact and never negative.       *)
LEMMA OneDependencyLess ==
    ASSUME NEW Owner, NEW s \in Snapshot(Owner), NEW v,
           NEW t \in Task, s.task[t] # "succeeded", RemainingExact(s),
           \A x \in Task : v.task[x] = "succeeded" <=> (x = t \/ s.task[x] = "succeeded"),
           NEW u \in Task
    PROVE  DependencyDone(s, v, t, u)
  <1>1. Deps[u] \subseteq Task
    BY DefinitionAssumption
  <1>2. Unsucceeded(v, u) = Unsucceeded(s, u) \ {t}
    BY <1>1 DEF Unsucceeded
  <1>3. IsFiniteSet(Unsucceeded(s, u))
    <2>1. IsFiniteSet(Task)
      BY FS_Interval, DefinitionAssumption DEF Task
    <2>2. Unsucceeded(s, u) \subseteq Task
      BY <1>1 DEF Unsucceeded
    <2> QED BY <2>1, <2>2, FS_Subset
  <1>4. /\ IsFiniteSet(Unsucceeded(v, u))
        /\ Cardinality(Unsucceeded(v, u)) =
             IF t \in Unsucceeded(s, u) THEN Cardinality(Unsucceeded(s, u)) - 1
             ELSE Cardinality(Unsucceeded(s, u))
    BY <1>2, <1>3, FS_RemoveElement
  <1>5. t \in Unsucceeded(s, u) <=> u \in Successors(t)
    BY DEF Unsucceeded, Successors
  <1>6. s.remaining[u] = Cardinality(Unsucceeded(s, u))
    BY DEF RemainingExact
  <1>7. Cardinality(Unsucceeded(v, u)) \in Nat
    BY <1>4, FS_CardinalityType
  <1> QED BY <1>2, <1>4, <1>5, <1>6, <1>7 DEF DependencyDone

(* The success of a running task is accepted: no counter underflows, exactly *)
(* the tasks whose last dependency it was become ready, and the Run is       *)
(* settled when it was the last task.                                        *)
LEMMA SucceedSound ==
    ASSUME NEW Owner, NEW s, Sound(s, Owner), NEW t \in Task, s.task[t] = "running"
    PROVE  LET u == succeed(s, t)
           IN  Sound(u, Owner) /\ Resolved(s, u, {t}, [x \in {t} |-> "succeeded"])
  <1> DEFINE T == {t}
             outcome == [x \in {t} |-> "succeeded"]
             s1 == transitionAttempts(s, T, outcome)
             s2 == transitionTasks(s1, T, "succeeded")
             R == [u \in Task |-> IF u \in Successors(t) THEN s.remaining[u] - 1
                                  ELSE s.remaining[u]]
             s3 == [s2 EXCEPT !.remaining = R]
             K == Released(s3, Successors(t))
             s4 == transitionTasks(s3, K, "ready")
             v == settleWorkflowIfComplete(s4)
  <1>1. /\ T \in SUBSET Task /\ T # {} /\ \A x \in T : s.task[x] = "running"
        /\ outcome \in [T -> AttemptStatus \ {"running"}]
        /\ outcome[t] = "succeeded" /\ \A x \in Task : x \in T <=> x = t
    BY DEF AttemptStatus
  <1>2. succeed(s, t) = IF \E u \in Successors(t) : s3.remaining[u] < 0
                        THEN Reject(s3) ELSE v
    BY DEF succeed
  <1> HIDE DEF T, outcome
  <1>3. /\ s \in Snapshot(Owner) /\ SnapshotInv(s) /\ s.err = FALSE
        /\ s.status = "running" /\ \A x \in Task : s.task[x] # "canceled"
        /\ \A x \in T : /\ s.attempts[x] # <<>>
                        /\ s.attempts[x][Len(s.attempts[x])].status = "running"
    <2>1. RunningTasks(s, T, Owner)
      BY <1>1, RunningFacts
    <2> QED BY <2>1 DEF RunningTasks
  <1>4. AttemptsEndedBy(s, s1, T, outcome, Owner)
    BY <1>1, <1>3, AttemptsEnded, Zenon
  <1> HIDE DEF s1
  <1>5. s1 \in Snapshot(Owner) /\ \A x \in T : "succeeded" \in taskTransitions(s1.task[x])
    BY <1>1, <1>4 DEF AttemptsEndedBy, taskTransitions
  <1>6. TasksMovedTo(s1, s2, T, "succeeded", Owner)
    <2>1. "succeeded" \in TaskStatus
      BY DEF TaskStatus
    <2> QED BY <1>1, <1>5, <2>1, TasksMoved, Zenon
  <1> HIDE DEF s2
  <1>7. R \in [Task -> Int]
    BY <1>3 DEF Snapshot
  <1> HIDE DEF R
  <1>8. /\ s3 \in Snapshot(Owner)
        /\ s3.status = "running" /\ s3.err = FALSE
        /\ s3.attempts = s1.attempts
        /\ s3.remaining = R
        /\ \A x \in Task : s3.task[x] = IF x = t THEN "succeeded" ELSE s.task[x]
    <2>1. /\ s2 \in Snapshot(Owner)
          /\ s2.status = "running" /\ s2.err = FALSE
          /\ s2.attempts = s1.attempts
          /\ \A x \in Task : s2.task[x] = IF x = t THEN "succeeded" ELSE s.task[x]
      BY <1>1, <1>3, <1>4, <1>6 DEF AttemptsEndedBy, TasksMovedTo
    <2> QED BY <1>7, <2>1 DEF Snapshot
  <1> HIDE DEF s3
  <1>9. ASSUME NEW w, \A x \in Task : w.task[x] = "succeeded" <=> s3.task[x] = "succeeded",
               NEW u \in Task
        PROVE  /\ Unsucceeded(w, u) = Unsucceeded(s, u) \ {t}
               /\ R[u] \in Nat
               /\ R[u] = Cardinality(Unsucceeded(w, u))
               /\ R[u] = 0 <=> Unsucceeded(w, u) = {}
    <2>1. \A x \in Task : w.task[x] = "succeeded" <=> (x = t \/ s.task[x] = "succeeded")
      BY <1>8, <1>9
    <2>2. s.task[t] # "succeeded" /\ RemainingExact(s)
      BY <1>3 DEF SnapshotInv
    <2>3. DependencyDone(s, w, t, u)
      BY <1>3, <2>1, <2>2, OneDependencyLess, Zenon
    <2> QED BY <2>3, FS_EmptySet DEF R, DependencyDone
  <1>10. succeed(s, t) = v
    <2>1. \A u \in Task : R[u] \in Nat
      BY <1>9
    <2> QED BY <1>2, <1>8, <2>1 DEF Successors
  <1>11. \A u \in Task : u \in K <=> u \in Successors(t) /\ Unsucceeded(s3, u) = {}
    BY <1>8, <1>9 DEF Released
  <1>12. ASSUME NEW u \in K
         PROVE  u \in Task /\ s.task[u] = "waiting_dependencies" /\ u # t
    <2>1. u \in Task /\ t \in Deps[u] /\ Unsucceeded(s3, u) = {}
      BY <1>11, <1>12 DEF Released, Successors
    <2>2. t \in Unsucceeded(s, u)
      BY <2>1 DEF Unsucceeded
    <2>3. s.task[u] \in {"waiting_dependencies", "skipped"}
      <3>1. s.task[u] \in TaskStatus /\ s.task[u] # "canceled" /\ DependencyOrder(s)
        BY <1>3, <2>1 DEF SnapshotInv, Snapshot
      <3>2. s.task[u] \notin {"ready", "queued", "running", "waiting_retry", "succeeded", "failed"}
        BY <2>1, <2>2, <3>1 DEF DependencyOrder
      <3> QED BY <3>1, <3>2 DEF TaskStatus
    <2>4. s.task[u] # "skipped"
      <3> SUFFICES ASSUME s.task[u] = "skipped" PROVE FALSE
        OBVIOUS
      <3>1. PICK d \in Deps[u] : s.task[d] \in {"failed", "skipped"}
        BY <1>3, <2>1 DEF SnapshotInv, DependencyOrder
      <3>2. d \in Task /\ s3.task[d] # "succeeded"
        BY <1>8, <2>1, <3>1, DefinitionAssumption
      <3> QED BY <2>1, <3>2 DEF Unsucceeded
    <2> QED BY <2>1, <2>3, <2>4
  <1>13. TasksMovedTo(s3, s4, K, "ready", Owner)
    <2>1. "ready" \in TaskStatus /\ K \in SUBSET Task
      BY <1>12 DEF TaskStatus
    <2>2. \A u \in K : "ready" \in taskTransitions(s3.task[u])
      BY <1>8, <1>12 DEF taskTransitions
    <2> HIDE DEF K
    <2> QED BY <1>8, <2>1, <2>2, TasksMoved, Zenon
  <1> HIDE DEF K, s4
  <1>14. /\ s4 \in Snapshot(Owner)
         /\ s4.status = "running" /\ s4.err = FALSE
         /\ s4.attempts = s1.attempts
         /\ s4.remaining = R
         /\ \A x \in Task : s4.task[x] = IF x = t THEN "succeeded"
                                         ELSE IF x \in K THEN "ready" ELSE s.task[x]
    BY <1>8, <1>12, <1>13 DEF TasksMovedTo
  <1>15. /\ \A x \in Task : s4.task[x] = "succeeded" <=> s3.task[x] = "succeeded"
         /\ \A x \in Task : Unsucceeded(s4, x) = Unsucceeded(s3, x)
    BY <1>8, <1>12, <1>14, DefinitionAssumption DEF Unsucceeded
  <1>16. ASSUME NEW x \in Task
         PROVE  /\ s4.task[x] \in {"ready", "queued", "running", "waiting_retry", "succeeded", "failed"}
                      => Unsucceeded(s4, x) = {}
                /\ s4.task[x] = "waiting_dependencies" =>
                      /\ Unsucceeded(s4, x) # {}
                      /\ \A u \in Deps[x] : s4.task[u] \notin {"failed", "skipped", "canceled"}
                /\ s4.task[x] = "skipped" => \E u \in Deps[x] : s4.task[u] \in {"failed", "skipped"}
    <2>1. /\ s.task[x] \in {"ready", "queued", "running", "waiting_retry", "succeeded", "failed"}
                => Unsucceeded(s, x) = {}
          /\ s.task[x] = "waiting_dependencies" =>
                /\ Unsucceeded(s, x) # {}
                /\ \A u \in Deps[x] : s.task[u] \notin {"failed", "skipped", "canceled"}
          /\ s.task[x] = "skipped" => \E u \in Deps[x] : s.task[u] \in {"failed", "skipped"}
      BY <1>3 DEF SnapshotInv, DependencyOrder
    <2>2. Unsucceeded(s4, x) = Unsucceeded(s, x) \ {t} /\ Unsucceeded(s3, x) = Unsucceeded(s4, x)
      BY <1>9, <1>15
    <2>3. \A u \in Deps[x] : \/ s4.task[u] = s.task[u]
                             \/ /\ s4.task[u] \in {"succeeded", "ready"}
                                /\ s.task[u] \in {"running", "waiting_dependencies"}
      BY <1>12, <1>14, DefinitionAssumption
    <2>4. CASE x = t
      BY <1>14, <2>1, <2>2, <2>4
    <2>5. CASE x \in K
      BY <1>11, <1>14, <1>12, <2>2, <2>5
    <2>6. CASE x # t /\ x \notin K
      <3>1. s4.task[x] = s.task[x]
        BY <1>14, <2>6
      <3>2. Unsucceeded(s, x) # {} => Unsucceeded(s4, x) # {}
        <4>1. t \in Unsucceeded(s, x) => x \in Successors(t)
          BY DEF Unsucceeded, Successors
        <4> QED BY <1>11, <2>2, <2>6, <4>1
      <3> QED BY <2>1, <2>2, <2>3, <3>1, <3>2
    <2> QED BY <2>4, <2>5, <2>6
  <1>17. DependencyOrder(s4)
    BY <1>16 DEF DependencyOrder
  <1>18. /\ v \in Snapshot(Owner)
         /\ v.task = s4.task
         /\ v.attempts = s1.attempts
         /\ v.remaining = R
         /\ v.err = FALSE
         /\ StatusAgrees(v)
    <2>1. \A x \in Task : s4.task[x] # "canceled"
      BY <1>3, <1>14
    <2> QED BY <1>14, <1>17, <2>1, SettleAgrees
  <1> HIDE DEF v
  <1>19. RemainingExact(v)
    BY <1>9, <1>15, <1>18 DEF RemainingExact
  <1>20. DependencyOrder(v)
    BY <1>17, <1>18, DefinitionAssumption DEF DependencyOrder, Unsucceeded
  <1>21. AttemptHistory(v)
    <2> SUFFICES ASSUME NEW x \in Task
                 PROVE  TaskHistory(v.task[x], v.attempts[x], MaxAttempts[x])
      BY DEF AttemptHistory
    <2>1. TaskHistory(s.task[x], s.attempts[x], MaxAttempts[x])
      BY <1>3 DEF SnapshotInv, AttemptHistory
    <2>2. /\ Len(s.attempts[x]) \in Nat /\ MaxAttempts[x] \in Nat \ {0}
          /\ s.attempts[x] \in Seq(AttemptOf(Owner)) /\ s1.attempts[x] \in Seq(AttemptOf(Owner))
      BY <1>3, <1>5, DefinitionAssumption DEF Snapshot
    <2>3. /\ Len(s1.attempts[x]) = Len(s.attempts[x])
          /\ \A i \in 1..Len(s.attempts[x]) :
               s1.attempts[x][i] =
                  IF x \in T /\ i = Len(s.attempts[x])
                  THEN [s.attempts[x][i] EXCEPT !.status = outcome[x]]
                  ELSE s.attempts[x][i]
      BY <1>4 DEF AttemptsEndedBy
    <2>4. CASE x = t
      <3>1. Len(s.attempts[x]) \in 1..Len(s.attempts[x])
        BY <1>1, <1>3, <2>2, <2>4
      <3>2. s.attempts[x][Len(s.attempts[x])] \in AttemptOf(Owner)
        BY <2>2, <3>1
      <3>3. s1.attempts[x][Len(s.attempts[x])] =
              [s.attempts[x][Len(s.attempts[x])] EXCEPT !.status = "succeeded"]
        BY <1>1, <2>3, <2>4, <3>1, SMTT(60)
      <3>4. s1.attempts[x][Len(s.attempts[x])].status = "succeeded"
        BY <3>2, <3>3 DEF AttemptOf
      <3>5. TaskHistory("running", s.attempts[x], MaxAttempts[x])
        BY <2>1, <2>4
      <3>6. \A i \in 1..Len(s.attempts[x]) :
               i # Len(s.attempts[x]) => s1.attempts[x][i] = s.attempts[x][i]
        BY <2>3
      <3>7. TaskHistory("succeeded", s1.attempts[x], MaxAttempts[x])
        BY <2>2, <2>3, <3>4, <3>5, <3>6, HistoryEnd
      <3> QED BY <1>14, <1>18, <2>4, <3>7
    <2>5. CASE x # t
      <3>1. s1.attempts[x] = s.attempts[x]
        <4>1. \A i \in 1..Len(s.attempts[x]) : s1.attempts[x][i] = s.attempts[x][i]
          BY <1>1, <2>3, <2>5
        <4> QED BY <2>2, <2>3, <4>1
      <3>2. \/ v.task[x] = s.task[x]
            \/ s.task[x] = "waiting_dependencies" /\ v.task[x] = "ready"
        BY <1>12, <1>14, <1>18, <2>5
      <3> QED BY <1>18, <2>1, <2>2, <3>1, <3>2 DEF TaskHistory
    <2> QED BY <2>4, <2>5
  <1>22. Resolved(s, v, T, outcome)
    <2>0. \A x \in Task :
            /\ Len(v.attempts[x]) = Len(s.attempts[x])
            /\ \A i \in 1..Len(s.attempts[x]) :
                 v.attempts[x][i] =
                    IF x \in T /\ i = Len(s.attempts[x])
                    THEN [s.attempts[x][i] EXCEPT !.status = outcome[x]]
                    ELSE s.attempts[x][i]
      BY <1>4, <1>18 DEF AttemptsEndedBy
    <2>1. LastEnded(s, v, T, outcome)
      BY <1>1, <1>3, <2>0, LastEndedFacts, Zenon
    <2>2. \A x \in T : v.task[x] \in {"succeeded", "failed", "waiting_retry"}
      BY <1>1, <1>14, <1>18
    <2>3. \A x \in Task \ T :
             \/ v.task[x] = s.task[x]
             \/ s.task[x] = "waiting_dependencies" /\ v.task[x] \in {"ready", "skipped"}
      BY <1>1, <1>12, <1>14, <1>18
    <2> QED BY <2>1, <2>2, <2>3 DEF Resolved
  <1>23. Sound(v, Owner)
    BY <1>18, <1>19, <1>20, <1>21 DEF Sound, SnapshotInv
  <1> QED BY <1>10, <1>22, <1>23 DEF T, outcome

(* How the attempt ends whose result is accepted.                            *)
EndOf(kind) == IF kind = "success" THEN "succeeded" ELSE "failed"
EndsAs(t, kind) == [x \in {t} |-> EndOf(kind)]

(* ApplyAttemptResult on a running task is accepted and sound for every      *)
(* result a worker may report.                                               *)
LEMMA ApplyAttemptResultSound ==
    ASSUME NEW Owner, NEW s, Sound(s, Owner), NEW t \in Task, s.task[t] = "running",
           NEW kind \in ResultKind, NEW at \in Int
    PROVE  LET u == ApplyAttemptResult(s, t, kind, at)
           IN  Sound(u, Owner) /\ Resolved(s, u, {t}, EndsAs(t, kind))
  <1>1. CASE kind = "success"
    BY <1>1, SucceedSound DEF ApplyAttemptResult, EndOf, EndsAs
  <1>2. CASE kind = "temporary_failure"
    <2> DEFINE T == {t}
               outcome == [x \in {t} |-> "failed"]
    <2>1. /\ T \in SUBSET Task /\ T # {} /\ \A x \in T : s.task[x] = "running"
          /\ outcome \in [T -> RetryableEnd]
      BY DEF RetryableEnd
    <2>2. ApplyAttemptResult(s, t, kind, at) = EndAttempts(s, T, outcome, at)
      BY <1>2 DEF ApplyAttemptResult
    <2> HIDE DEF T, outcome
    <2>3. /\ Sound(ApplyAttemptResult(s, t, kind, at), Owner)
          /\ Resolved(s, ApplyAttemptResult(s, t, kind, at), T, outcome)
      BY <2>1, <2>2, EndAttemptsSound
    <2> QED BY <1>2, <2>3 DEF T, outcome, EndOf, EndsAs
  <1>3. CASE kind = "permanent_failure"
    BY <1>3, FailPermanentlySound DEF ApplyAttemptResult, EndOf, EndsAs
  <1> QED BY <1>1, <1>2, <1>3 DEF ResultKind

(* A history in which nothing runs and nothing has succeeded is the history  *)
(* of a canceled task too.                                                   *)
LEMMA HistoryCancel ==
    ASSUME NEW a, NEW status, NEW limit, TaskHistory(status, a, limit),
           status \notin {"running", "succeeded", "canceled"}
    PROVE  TaskHistory("canceled", a, limit)
  BY DEF TaskHistory

(* u is s with everything canceled that had not ended.                       *)
AllCanceled(s, u) ==
    /\ u.status = "canceled"
    /\ \A t \in Task : u.task[t] = IF s.task[t] \in TaskTerminal THEN s.task[t] ELSE "canceled"
    /\ LET T == {t \in Task : s.task[t] = "running"}
       IN  LastEnded(s, u, T, [t \in T |-> "canceled"])

(* CancelRunSnapshot of an open Run is accepted and sound: what had ended    *)
(* stays, everything else is canceled.                                       *)
LEMMA CancelSound ==
    ASSUME NEW Owner, NEW s, Sound(s, Owner), s.status \in {"pending", "running"}
    PROVE  /\ Sound(CancelRunSnapshot(s), Owner)
           /\ AllCanceled(s, CancelRunSnapshot(s))
  <1> DEFINE open == {t \in Task : s.task[t] \notin TaskTerminal}
             T == {t \in open : /\ s.task[t] = "running"
                                /\ s.attempts[t] # <<>>
                                /\ s.attempts[t][Len(s.attempts[t])].status = "running"}
             outcome == [t \in T |-> "canceled"]
             s1 == transitionAttempts(s, T, outcome)
             s2 == transitionTasks(s1, open, "canceled")
             u == transitionWorkflow(s2, "canceled")
  <1>0. s \in Snapshot(Owner) /\ SnapshotInv(s) /\ s.err = FALSE
    BY DEF Sound, SnapshotInv
  <1>1. CancelRunSnapshot(s) = u
    BY DEF CancelRunSnapshot
  <1>2. /\ T \in SUBSET Task /\ open \in SUBSET Task
        /\ outcome \in [T -> AttemptStatus \ {"running"}]
        /\ \A t \in T : /\ s.attempts[t] # <<>>
                        /\ s.attempts[t][Len(s.attempts[t])].status = "running"
        /\ \A t \in T : outcome[t] = "canceled"
    BY DEF AttemptStatus
  <1>3. \A t \in Task : t \in T <=> s.task[t] = "running"
    BY <1>0 DEF SnapshotInv, AttemptHistory, TaskHistory, TaskTerminal, Snapshot
  <1>4. \A t \in Task : t \in open <=>
           s.task[t] \in {"waiting_dependencies", "ready", "queued", "running", "waiting_retry"}
    BY <1>0 DEF Snapshot, TaskStatus, TaskTerminal
  <1>5. (\E t \in Task : t \in open) /\ \A t \in Task : s.task[t] # "canceled"
    BY <1>0 DEF SnapshotInv, StatusAgrees
  <1> HIDE DEF T, open, outcome
  <1>6. AttemptsEndedBy(s, s1, T, outcome, Owner)
    BY <1>0, <1>2, AttemptsEnded, Zenon
  <1> HIDE DEF s1
  <1>7. s1 \in Snapshot(Owner) /\ \A t \in open : "canceled" \in taskTransitions(s1.task[t])
    BY <1>2, <1>4, <1>6 DEF AttemptsEndedBy, taskTransitions
  <1>8. TasksMovedTo(s1, s2, open, "canceled", Owner)
    <2>1. "canceled" \in TaskStatus
      BY DEF TaskStatus
    <2> QED BY <1>2, <1>7, <2>1, TasksMoved, Zenon
  <1> HIDE DEF s2
  <1>9. /\ s2 \in Snapshot(Owner)
        /\ s2.status = s.status
        /\ s2.attempts = s1.attempts
        /\ s2.remaining = s.remaining
        /\ s2.err = FALSE
        /\ \A t \in Task : s2.task[t] = IF t \in open THEN "canceled" ELSE s.task[t]
    BY <1>0, <1>6, <1>8 DEF AttemptsEndedBy, TasksMovedTo
  <1>10. /\ u \in Snapshot(Owner)
         /\ u.status = "canceled"
         /\ u.attempts = s1.attempts
         /\ u.remaining = s.remaining
         /\ u.err = FALSE
         /\ \A t \in Task : u.task[t] = IF t \in open THEN "canceled" ELSE s.task[t]
    BY <1>9, WorkflowMoved DEF workflowTransitions, WorkflowStatus
  <1> HIDE DEF u
  <1>11. /\ RemainingExact(u)
         /\ \A t \in Task : Unsucceeded(u, t) = Unsucceeded(s, t)
    <2>1. \A t \in Task : u.task[t] = "succeeded" <=> s.task[t] = "succeeded"
      BY <1>4, <1>10
    <2> QED BY <1>0, <1>10, <2>1, SameSuccesses DEF SnapshotInv
  <1>12. DependencyOrder(u)
    BY <1>0, <1>4, <1>10, <1>11, DefinitionAssumption DEF SnapshotInv, DependencyOrder
  <1>13. StatusAgrees(u)
    BY <1>0, <1>4, <1>5, <1>10 DEF StatusAgrees, TaskTerminal, Snapshot, TaskStatus
  <1>14. AttemptHistory(u)
    <2> SUFFICES ASSUME NEW t \in Task
                 PROVE  TaskHistory(u.task[t], u.attempts[t], MaxAttempts[t])
      BY DEF AttemptHistory
    <2>1. TaskHistory(s.task[t], s.attempts[t], MaxAttempts[t])
      BY <1>0 DEF SnapshotInv, AttemptHistory
    <2>2. /\ Len(s.attempts[t]) \in Nat /\ MaxAttempts[t] \in Nat
          /\ s.attempts[t] \in Seq(AttemptOf(Owner)) /\ s1.attempts[t] \in Seq(AttemptOf(Owner))
      BY <1>0, <1>7, DefinitionAssumption DEF Snapshot
    <2>3. /\ Len(s1.attempts[t]) = Len(s.attempts[t])
          /\ \A i \in 1..Len(s.attempts[t]) :
               s1.attempts[t][i] =
                  IF t \in T /\ i = Len(s.attempts[t])
                  THEN [s.attempts[t][i] EXCEPT !.status = outcome[t]]
                  ELSE s.attempts[t][i]
      BY <1>6 DEF AttemptsEndedBy
    <2>4. CASE t \in T
      <3>1. Len(s.attempts[t]) \in 1..Len(s.attempts[t])
        BY <1>2, <2>2, <2>4
      <3>2. s.attempts[t][Len(s.attempts[t])] \in AttemptOf(Owner)
        BY <2>2, <3>1
      <3>3. s1.attempts[t][Len(s.attempts[t])] =
              [s.attempts[t][Len(s.attempts[t])] EXCEPT !.status = "canceled"]
        BY <1>2, <2>3, <2>4, <3>1
      <3>4. s1.attempts[t][Len(s.attempts[t])].status = "canceled"
        BY <3>2, <3>3 DEF AttemptOf
      <3>5. TaskHistory("running", s.attempts[t], MaxAttempts[t])
        BY <1>3, <2>1, <2>4
      <3>6. \A i \in 1..Len(s.attempts[t]) :
               i # Len(s.attempts[t]) => s1.attempts[t][i] = s.attempts[t][i]
        BY <2>3
      <3>7. TaskHistory("canceled", s1.attempts[t], MaxAttempts[t])
        BY <2>2, <2>3, <3>4, <3>5, <3>6, HistoryEnd
      <3> QED BY <1>3, <1>4, <1>10, <2>4, <3>7
    <2>5. CASE t \notin T
      <3>1. s1.attempts[t] = s.attempts[t]
        <4>1. \A i \in 1..Len(s.attempts[t]) : s1.attempts[t][i] = s.attempts[t][i]
          BY <2>3, <2>5
        <4> QED BY <2>2, <2>3, <4>1
      <3>2. CASE t \in open
        <4>1. s.task[t] \notin {"running", "succeeded", "canceled"}
          BY <1>3, <1>4, <2>5, <3>2
        <4> QED BY <1>10, <2>1, <3>1, <3>2, <4>1, HistoryCancel
      <3>3. CASE t \notin open
        BY <1>10, <2>1, <3>1, <3>3
      <3> QED BY <3>2, <3>3
    <2> QED BY <2>4, <2>5
  <1>15. LastEnded(s, u, T, outcome)
    <2>1. \A x \in Task :
            /\ Len(u.attempts[x]) = Len(s.attempts[x])
            /\ \A i \in 1..Len(s.attempts[x]) :
                 u.attempts[x][i] =
                    IF x \in T /\ i = Len(s.attempts[x])
                    THEN [s.attempts[x][i] EXCEPT !.status = outcome[x]]
                    ELSE s.attempts[x][i]
      BY <1>6, <1>10 DEF AttemptsEndedBy
    <2> QED BY <1>0, <1>2, <2>1, LastEndedFacts, Zenon
  <1>16. AllCanceled(s, u)
    <2>1. T = {t \in Task : s.task[t] = "running"} /\ outcome = [t \in T |-> "canceled"]
      BY <1>2, <1>3 DEF outcome
    <2>2. \A t \in Task : u.task[t] = IF s.task[t] \in TaskTerminal THEN s.task[t] ELSE "canceled"
      BY <1>10 DEF open
    <2> QED BY <1>10, <1>15, <2>1, <2>2 DEF AllCanceled
  <1> QED BY <1>1, <1>10, <1>11, <1>12, <1>13, <1>14, <1>16 DEF Sound, SnapshotInv

(* The snapshot CreateRun stores is sound.                                   *)
LEMMA NewRunSound ==
    ASSUME NEW Owner
    PROVE  Sound(newRunSnapshot, Owner)
  <1> DEFINE s == newRunSnapshot
  <1>1. \A t \in Task : Deps[t] \subseteq Task /\ IsFiniteSet(Deps[t]) /\ Cardinality(Deps[t]) \in Nat
    <2>1. IsFiniteSet(Task)
      BY FS_Interval, DefinitionAssumption DEF Task
    <2>2. \A t \in Task : Deps[t] \subseteq Task
      BY DefinitionAssumption
    <2> QED BY <2>1, <2>2, FS_Subset, FS_CardinalityType
  <1>2. s \in Snapshot(Owner)
    BY <1>1 DEF newRunSnapshot, Snapshot, WorkflowStatus, TaskStatus
  <1>3. /\ s.status = "pending" /\ s.err = FALSE
        /\ \A t \in Task : /\ s.task[t] = IF Deps[t] = {} THEN "ready" ELSE "waiting_dependencies"
                           /\ s.attempts[t] = <<>>
                           /\ s.remaining[t] = Cardinality(Deps[t])
    BY DEF newRunSnapshot
  <1> HIDE DEF s
  <1>4. \A t \in Task : Unsucceeded(s, t) = Deps[t]
    BY <1>1, <1>3 DEF Unsucceeded
  <1>5. RemainingExact(s)
    BY <1>3, <1>4 DEF RemainingExact
  <1>6. DependencyOrder(s)
    BY <1>1, <1>3, <1>4 DEF DependencyOrder
  <1>7. AttemptHistory(s)
    BY <1>3, DefinitionAssumption DEF AttemptHistory, TaskHistory
  <1>8. StatusAgrees(s)
    <2>1. 1 \in Task
      BY DefinitionAssumption DEF Task
    <2> QED BY <1>3, <2>1 DEF StatusAgrees, TaskTerminal
  <1> QED BY <1>2, <1>3, <1>5, <1>6, <1>7, <1>8 DEF Sound, SnapshotInv, s

-----------------------------------------------------------------------------
(* What the contract sees of a snapshot.                                     *)

OutcomeOf(s) == [t \in Task |-> IF s.task[t] \in TaskTerminal THEN s.task[t] ELSE "open"]
VerdictOf(s) == IF s.status \in WorkflowTerminal THEN s.status ELSE "open"

Finished(o, p) == {t \in Task : o[t] = "open" /\ p[t] \in {"succeeded", "failed"}}

VerdictFor(p) ==
    IF \E t \in Task : p[t] = "open" THEN "open"
    ELSE IF \E t \in Task : p[t] = "failed" THEN "failed"
    ELSE "succeeded"

(* The outcomes p follow from o by tasks ending and skipping others.         *)
EndsTasks(o, p) ==
    /\ Finished(o, p) # {}
    /\ \A t \in Finished(o, p), u \in Task : u \in Deps[t] => o[u] = "succeeded"
    /\ \A t \in Task \ Finished(o, p) :
          p[t] = IF o[t] = "open" /\ \E u \in Deps[t] : p[u] \in {"failed", "skipped"}
                 THEN "skipped" ELSE o[t]

(* A sound snapshot without a canceled task carries the verdict its outcomes *)
(* deserve.                                                                  *)
LEMMA VerdictFollows ==
    ASSUME NEW Owner, NEW s, Sound(s, Owner), \A t \in Task : s.task[t] # "canceled"
    PROVE  VerdictOf(s) = VerdictFor(OutcomeOf(s))
  <1> DEFINE p == OutcomeOf(s)
  <1>1. /\ s.status \in WorkflowStatus /\ StatusAgrees(s)
        /\ \A t \in Task : s.task[t] \in TaskStatus
    BY DEF Sound, Snapshot, SnapshotInv
  <1>2. \A t \in Task : p[t] = IF s.task[t] \in TaskTerminal THEN s.task[t] ELSE "open"
    BY DEF OutcomeOf
  <1>3. \A t \in Task : /\ p[t] = "open" <=> s.task[t] \notin TaskTerminal
                        /\ p[t] = "failed" <=> s.task[t] = "failed"
    BY <1>2 DEF TaskTerminal
  <1> HIDE DEF p
  <1>4. CASE s.status \in {"pending", "running"}
    <2>1. \E t \in Task : p[t] = "open"
      BY <1>1, <1>3, <1>4 DEF StatusAgrees
    <2> QED BY <1>4, <2>1 DEF VerdictFor, VerdictOf, WorkflowTerminal, p
  <1>5. CASE s.status = "succeeded"
    <2>1. \A t \in Task : p[t] # "open" /\ p[t] # "failed"
      BY <1>1, <1>3, <1>5 DEF StatusAgrees, TaskTerminal
    <2> QED BY <1>5, <2>1 DEF VerdictFor, VerdictOf, WorkflowTerminal, p
  <1>6. CASE s.status = "failed"
    <2>1. (\A t \in Task : p[t] # "open") /\ \E t \in Task : p[t] = "failed"
      BY <1>1, <1>3, <1>6 DEF StatusAgrees, TaskTerminal
    <2> QED BY <1>6, <2>1 DEF VerdictFor, VerdictOf, WorkflowTerminal, p
  <1>7. s.status # "canceled"
    BY <1>1 DEF StatusAgrees
  <1> QED BY <1>1, <1>4, <1>5, <1>6, <1>7 DEF WorkflowStatus

(* Ending attempts of running tasks is a step of the contract: tasks end     *)
(* after their dependencies and skip exactly what needed them, or nothing    *)
(* is decided.  A task cannot be skipped without a task that failed, since   *)
(* the dependency graph has no cycle.                                        *)
LEMMA EndedAdvances ==
    ASSUME NEW Owner, NEW s, NEW u, NEW T \in SUBSET Task, NEW outcome,
           Sound(s, Owner), Sound(u, Owner), Resolved(s, u, T, outcome),
           T # {}, \A t \in T : s.task[t] = "running"
    PROVE  /\ VerdictOf(s) = "open"
           /\ VerdictOf(u) = VerdictFor(OutcomeOf(u))
           /\ \/ OutcomeOf(u) = OutcomeOf(s) /\ VerdictOf(u) = "open"
              \/ EndsTasks(OutcomeOf(s), OutcomeOf(u))
  <1> DEFINE o == OutcomeOf(s)
             p == OutcomeOf(u)
  <1>1. /\ \A t \in Task : s.task[t] \in TaskStatus /\ u.task[t] \in TaskStatus
        /\ s.status \in WorkflowStatus
        /\ DependencyOrder(s) /\ DependencyOrder(u) /\ StatusAgrees(s)
    BY DEF Sound, Snapshot, SnapshotInv
  <1>2. s.status = "running" /\ \A t \in Task : s.task[t] # "canceled"
    BY <1>1 DEF StatusAgrees, WorkflowStatus, TaskTerminal
  <1>3. VerdictOf(s) = "open"
    BY <1>2 DEF VerdictOf, WorkflowTerminal
  <1>4. \A t \in Task : u.task[t] # "canceled"
    BY <1>1, <1>2 DEF Resolved
  <1>5. VerdictOf(u) = VerdictFor(OutcomeOf(u))
    BY <1>4, VerdictFollows
  <1>6. \A t \in Task : /\ o[t] = IF s.task[t] \in TaskTerminal THEN s.task[t] ELSE "open"
                        /\ p[t] = IF u.task[t] \in TaskTerminal THEN u.task[t] ELSE "open"
    BY DEF OutcomeOf
  <1>7. /\ o = [t \in Task |-> o[t]] /\ p = [t \in Task |-> p[t]]
    BY DEF OutcomeOf
  <1> HIDE DEF o, p
  <1> DEFINE F == Finished(o, p)
  <1>8. /\ F \subseteq T
        /\ \A t \in T : o[t] = "open" /\ (t \in F \/ p[t] = "open")
        /\ \A t \in Task \ T : p[t] = o[t] \/ (s.task[t] = "waiting_dependencies" /\ p[t] = "skipped")
    <2>1. \A t \in T : o[t] = "open" /\ (p[t] \in {"succeeded", "failed"} \/ p[t] = "open")
      BY <1>6 DEF Resolved, TaskTerminal
    <2>2. \A t \in Task \ T :
             p[t] = o[t] \/ (s.task[t] = "waiting_dependencies" /\ p[t] = "skipped")
      BY <1>6 DEF Resolved, TaskTerminal
    <2>3. \A t \in Task \ T : t \notin F
      BY <2>2 DEF Finished
    <2> QED BY <2>1, <2>2, <2>3 DEF Finished
  <1>9. \A t \in F, x \in Task : x \in Deps[t] => o[x] = "succeeded"
    <2> SUFFICES ASSUME NEW t \in F, NEW x \in Task, x \in Deps[t] PROVE o[x] = "succeeded"
      OBVIOUS
    <2>1. t \in T /\ s.task[t] = "running"
      BY <1>8
    <2>2. s.task[x] = "succeeded"
      BY <1>1, <2>1 DEF DependencyOrder, Unsucceeded
    <2> QED BY <1>6, <2>2 DEF TaskTerminal
  <1>10. ASSUME NEW t \in Task \ F
         PROVE  p[t] = IF o[t] = "open" /\ \E x \in Deps[t] : p[x] \in {"failed", "skipped"}
                       THEN "skipped" ELSE o[t]
    <2>0. \A x \in Deps[t] : x \in Task
      BY DefinitionAssumption
    <2>1. \A x \in Deps[t] : p[x] \in {"failed", "skipped"} <=> u.task[x] \in {"failed", "skipped"}
      BY <1>6, <2>0 DEF TaskTerminal
    <2>2. CASE o[t] # "open"
      <3>1. t \notin T
        BY <1>8, <2>2
      <3>2. s.task[t] # "waiting_dependencies"
        BY <1>6, <2>2 DEF TaskTerminal
      <3> QED BY <1>8, <2>2, <3>1, <3>2
    <2>3. CASE o[t] = "open" /\ \E x \in Deps[t] : p[x] \in {"failed", "skipped"}
      <3>1. PICK x \in Deps[t] : u.task[x] \in {"failed", "skipped"}
        BY <2>1, <2>3
      <3>2. x \in Unsucceeded(u, t)
        BY <3>1 DEF Unsucceeded
      <3>3. u.task[t] \in {"skipped"} \cup {"canceled"}
        BY <1>1, <3>1, <3>2 DEF DependencyOrder, TaskStatus
      <3>4. u.task[t] = "skipped"
        BY <1>4, <3>3
      <3> QED BY <1>6, <2>3, <3>4 DEF TaskTerminal
    <2>4. CASE o[t] = "open" /\ ~(\E x \in Deps[t] : p[x] \in {"failed", "skipped"})
      <3>1. u.task[t] # "skipped"
        BY <1>1, <2>1, <2>4 DEF DependencyOrder
      <3>2. p[t] # "skipped"
        BY <1>6, <3>1
      <3>3. p[t] = "open"
        BY <1>8, <2>4, <3>2
      <3> QED BY <2>4, <3>3
    <2> QED BY <2>2, <2>3, <2>4
  <1>11. CASE F # {}
    BY <1>3, <1>5, <1>9, <1>10, <1>11 DEF EndsTasks, o, p
  <1>12. CASE F = {}
    <2> DEFINE S == {t \in Task : p[t] # o[t]}
    <2>1. S = {}
      <3> SUFFICES ASSUME S # {} PROVE FALSE
        OBVIOUS
      <3>1. PICK t \in S : Deps[t] \cap S = {}
        BY AcyclicAssumption
      <3>2. t \in Task /\ p[t] = "skipped" /\ s.task[t] = "waiting_dependencies"
        BY <1>8, <1>12, <3>1
      <3>3. u.task[t] = "skipped"
        BY <1>6, <3>2
      <3>4. PICK x \in Deps[t] : u.task[x] \in {"failed", "skipped"}
        BY <1>1, <3>2, <3>3 DEF DependencyOrder
      <3>5. x \in Task /\ x \notin S
        BY <3>1, <3>2, <3>4, DefinitionAssumption
      <3>6. o[x] \in {"failed", "skipped"}
        BY <1>6, <3>4, <3>5 DEF TaskTerminal
      <3>7. s.task[x] \in {"failed", "skipped"}
        BY <1>6, <3>5, <3>6
      <3> QED BY <1>1, <3>2, <3>4, <3>7 DEF DependencyOrder
    <2>2. p = o
      BY <1>7, <2>1
    <2>3. PICK t \in T : o[t] = "open"
      BY <1>8
    <2>4. \E x \in Task : p[x] = "open"
      BY <2>2, <2>3
    <2>5. VerdictFor(p) = "open"
      BY <2>4 DEF VerdictFor
    <2> QED BY <1>3, <1>5, <2>2, <2>5 DEF o, p
  <1> QED BY <1>11, <1>12
=============================================================================
