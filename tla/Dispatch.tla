------------------------------- MODULE Dispatch -------------------------------
(***************************************************************************)
(* The dispatch repository: the PostgreSQL transactions through which the  *)
(* coordinator, the workers and the API advance Runs (internal/postgres).  *)
(* A transaction locks the Run, the session and the dispatch rows it       *)
(* decides on before it reads them, so it is one action; the exception is  *)
(* the dispatch scan, whose list of orphaned rows, counts and candidates   *)
(* are read without a lock and used after other transactions, those of     *)
(* another scan included, may have committed.                              *)
(*                                                                         *)
(* Callers are unconstrained: any worker may call any operation at any     *)
(* time, with any lease it was ever given.  Lost, delayed and duplicated   *)
(* worker requests, crashed workers and coordinator restarts are therefore *)
(* all behaviours of this module.  An operation that returns an error      *)
(* rolls back and is no step.                                              *)
(*                                                                         *)
(* Time.  A timestamp column is kept as its distance from the database     *)
(* clock (positive: in the future) and Tick moves every column one unit    *)
(* into the past.  CURRENT_TIMESTAMP is the start of a transaction that    *)
(* may have waited for locks since: `age' is how long ago it started, at   *)
(* most MaxTxAge.  Columns stop at the value below which no transaction    *)
(* can tell them apart.                                                    *)
(***************************************************************************)
EXTENDS WorkflowState

CONSTANTS
    Run,              \* Runs of the definition that exist in the database
    Worker,           \* worker session identifiers, never reused
    Coordinator,      \* server processes that scan: one, and for as long as the
                      \* loss of an advisory lock goes unnoticed more (Server)
    NoWorker,         \* NULL in task_dispatches.worker_id
    MaxDispatches,    \* bound: dispatch rows ever created per task
    Concurrency,      \* the definition's concurrency
    DispatchLimit,    \* the coordinator's batch size
    MaxConcurrency,   \* slots per worker
    LeaseDuration,    \* r.leaseDuration
    Timeout,          \* TimeoutMillis per task
    OfflineAfter,     \* 3 * workerHeartbeatInterval
    MaxTxAge,         \* bound: how long a transaction waits for its locks
    Executor,         \* executor kind per task
    RequestedKinds    \* executor kinds a worker process registers with

ExecutorKind == {"mock", "container"}

ASSUME DispatchAssumption ==
    /\ MaxDispatches \in Nat \ {0}
    /\ Concurrency \in Nat \ {0}
    /\ DispatchLimit \in Nat \ {0}
    /\ MaxConcurrency \in [Worker -> Nat \ {0}]
    /\ LeaseDuration \in Nat \ {0}
    /\ Timeout \in [Task -> Nat \ {0}]
    /\ OfflineAfter \in Nat \ {0}
    /\ MaxTxAge \in Nat
    /\ Executor \in [Task -> ExecutorKind]
    /\ RequestedKinds \in [Worker -> SUBSET ExecutorKind]
    /\ NoWorker \notin Worker
    /\ IsFiniteSet(Run) /\ IsFiniteSet(Worker)
    /\ IsFiniteSet(Coordinator) /\ Coordinator # {}

VARIABLES
    runs,             \* workflow_runs, task_runs and attempts of each Run
    cancelRequested,  \* cancel_requested_at IS NOT NULL
    dispatches,       \* task_dispatches
    workers,          \* worker_sessions
    scan              \* the CreateDispatches transaction of each coordinator

vars == <<runs, cancelRequested, dispatches, workers, scan>>

-----------------------------------------------------------------------------
(* Rows.  A dispatch row is named by its Run, its task and a row number; an *)
(* unused one has status "none".  Columns that no statement reads in a      *)
(* status (the lease times of a row that is not leased) are 0 there.        *)

RowId == 1..MaxDispatches
DispatchID == Run \X Task \X RowId
RunOf(d) == d[1]
TaskOf(d) == d[2]

Owner == [worker : Worker, dispatch : DispatchID]
Age == 0..MaxTxAge

Floor == 0 - MaxTxAge
SilentFloor == 0 - (OfflineAfter + MaxTxAge + 1)

RowStatus == {"none", "pending", "leased", "completed", "expired", "canceled"}
Row ==
    [status   : RowStatus,
     worker   : Worker \cup {NoWorker},
     attempt  : Nat,
     lease    : Int,        \* lease_expires_at
     deadline : Int,        \* attempt_deadline
     created  : Int,        \* created_at
     result   : ResultKind \cup {"none"}]

UnusedRow ==
    [status |-> "none", worker |-> NoWorker, attempt |-> 0, lease |-> 0,
     deadline |-> 0, created |-> 0, result |-> "none"]

PendingRow(age) == [UnusedRow EXCEPT !.status = "pending", !.created = 0 - age]

\* Faulty variant: the lease is not cut at the deadline.
LeaseUntil_Uncut(deadline, age) == LeaseDuration - age

\* A lease never outlives the deadline of its attempt.
LeaseUntil(deadline, age) ==
    IF LeaseDuration - age > deadline THEN deadline ELSE LeaseDuration - age

LeasedRow(w, n, t, age) ==
    [UnusedRow EXCEPT !.status = "leased", !.worker = w, !.attempt = n,
                      !.deadline = Timeout[t] - age,
                      !.lease = LeaseUntil(Timeout[t] - age, age)]

\* Faulty variant: the status of the protocol is stored instead of the table's.
ClosedRow_Revoked(row, status, result) ==
    [row EXCEPT !.status = "revoked", !.lease = 0, !.deadline = 0, !.created = 0]

ClosedRow(row, status, result) ==
    [row EXCEPT !.status = status, !.result = result,
                !.lease = 0, !.deadline = 0, !.created = 0]

WorkerStatus == {"absent", "active", "draining", "offline", "stopped"}
WorkerRow == [status : WorkerStatus, lastHeartbeat : Int]

(* A scan is idle, has listed the orphaned rows, has counted what is active  *)
(* and free, or has chosen its candidates; the fields are what it read.      *)
Scan ==
    [at         : {"idle", "listed", "counted", "chosen"},
     age        : Age,
     orphans    : SUBSET DispatchID,
     retries    : SUBSET Run,
     available  : 0..DispatchLimit,
     capacity   : [ExecutorKind -> Nat],
     candidates : SUBSET Run]

NoScan ==
    [at |-> "idle", age |-> 0, orphans |-> {}, retries |-> {}, available |-> 0,
     capacity |-> [kind \in ExecutorKind |-> 0], candidates |-> {}]

Pending(d) == dispatches[d].status = "pending"
Leased(d) == dispatches[d].status = "leased"
Active(d) == Pending(d) \/ Leased(d)

\* Faulty variant: closed rows still count as leases of the worker.
LeasesOf_Leaking(w) == {d \in DispatchID : dispatches[d].worker = w}

LeasesOf(w) == {d \in DispatchID : Leased(d) /\ dispatches[d].worker = w}

\* Faulty variant: the leases of the worker are not counted.
FreeSlots_All(w) == MaxConcurrency[w]

FreeSlots(w) == MaxConcurrency[w] - Cardinality(LeasesOf(w))

\* The active sessions whose executor_kinds contain the kind.
ActiveWorkers(kind) ==
    {w \in Worker : workers[w].status = "active" /\ kind \in RequestedKinds[w]}

(* The columns of every table keep their types and CHECKed values, and an    *)
(* open scan is never older than the bound.                                  *)
TypeOK ==
    /\ runs \in [Run -> Snapshot(Owner)]
    /\ cancelRequested \in [Run -> BOOLEAN]
    /\ dispatches \in [DispatchID -> Row]
    /\ workers \in [Worker -> WorkerRow]
    /\ scan \in [Coordinator -> Scan]

Init ==
    /\ runs = [r \in Run |-> newRunSnapshot]
    /\ cancelRequested = [r \in Run |-> FALSE]
    /\ dispatches = [d \in DispatchID |-> UnusedRow]
    /\ workers = [w \in Worker |-> [status |-> "absent", lastHeartbeat |-> 0]]
    /\ scan = [c \in Coordinator |-> NoScan]

-----------------------------------------------------------------------------
(* Row locks that outlast a step: a scan holds the Runs whose orphaned rows  *)
(* or due retries it has changed until it commits or rolls back.             *)

Counted == {c \in Coordinator : scan[c].at \in {"counted", "chosen"}}

LockedRuns(c) ==
    IF c \in Counted THEN {RunOf(d) : d \in scan[c].orphans} \cup scan[c].retries ELSE {}

Unlocked(r) == \A c \in Coordinator : r \notin LockedRuns(c)

-----------------------------------------------------------------------------
(* Worker sessions.                                                         *)

\* normalizeWorkerRegistration accepts no other kind than mock.
Registrable(kinds) == kinds # {} /\ kinds \subseteq {"mock"}

RegisterWorker(w) ==
    /\ workers[w].status = "absent"
    /\ Registrable(RequestedKinds[w])
    /\ workers' = [workers EXCEPT ![w] = [status |-> "active", lastHeartbeat |-> 0]]
    /\ UNCHANGED <<runs, cancelRequested, dispatches, scan>>

DrainWorker(w) ==
    /\ workers[w].status \in {"active", "draining"}
    /\ workers' = [workers EXCEPT ![w].status =
                     IF LeasesOf(w) = {} THEN "stopped" ELSE "draining"]
    /\ UNCHANGED <<runs, cancelRequested, dispatches, scan>>

\* The lease is still valid for a transaction that started at now.
LeaseAlive(row, now) ==
    row.status = "leased" /\ row.lease > now /\ row.deadline > now

(* Heartbeat with the lease references L, rows that w was once given.        *)
Heartbeat(w, L, age) ==
    /\ workers[w].status \in {"active", "draining"}
    /\ \A d \in L : dispatches[d].worker = w
    /\ workers' = [workers EXCEPT ![w].lastHeartbeat = 0 - age]
    /\ dispatches' =
         [d \in DispatchID |->
            IF d \in L /\ LeaseAlive(dispatches[d], 0 - age)
            THEN [dispatches[d] EXCEPT
                    !.lease = LeaseUntil(dispatches[d].deadline, age)]
            ELSE dispatches[d]]
    /\ UNCHANGED <<runs, cancelRequested, scan>>

\* Faulty variants: a closed row, or a row of a Run being canceled, is offered.
Claimable_AnyRow(d, w) ==
    /\ runs[RunOf(d)].task[TaskOf(d)] = "queued"
    /\ ~cancelRequested[RunOf(d)]
    /\ dispatches[d].status # "none"

Claimable_Canceling(d, w) ==
    Pending(d) /\ runs[RunOf(d)].task[TaskOf(d)] = "queued"

Claimable(d, w) ==
    /\ Pending(d)
    /\ runs[RunOf(d)].task[TaskOf(d)] = "queued"
    /\ runs[RunOf(d)].status = "running"
    /\ ~cancelRequested[RunOf(d)]
    /\ Executor[TaskOf(d)] \in RequestedKinds[w]

\* The tasks of Run r that the rows D belong to, and the row of such a task.
TasksOf(D, r) == {t \in Task : \E k \in RowId : <<r, t, k>> \in D}
RowOf(D, r, t) == CHOOSE d \in D : RunOf(d) = r /\ TaskOf(d) = t

(* Claim of the candidate rows C.  SKIP LOCKED may hide any candidate.  The  *)
(* table's check task_dispatches_time_order aborts a claim whose transaction *)
(* began before the row was created.                                         *)
Claim(w, C, age) ==
    LET started(r) ==
          StartQueuedAttempts(runs[r], TasksOf(C, r),
            [t \in TasksOf(C, r) |-> [worker |-> w, dispatch |-> RowOf(C, r, t)]])
    IN
    /\ workers[w].status = "active"
    /\ C # {}
    /\ Cardinality(C) <= FreeSlots(w)
    /\ \A d \in C : /\ Claimable(d, w) /\ dispatches[d].created <= 0 - age
                    /\ Unlocked(RunOf(d))
    /\ \A r \in Run : ~started(r).err
    /\ runs' = [r \in Run |-> started(r)]
    /\ dispatches' =
         [d \in DispatchID |->
            IF d \in C
            THEN LeasedRow(w, Len(runs[RunOf(d)].attempts[TaskOf(d)]) + 1, TaskOf(d), age)
            ELSE dispatches[d]]
    /\ UNCHANGED <<cancelRequested, workers, scan>>

(* Complete: w submits the result kind for its lease d.  The session was     *)
(* authenticated by an earlier query, so its status may have changed since.  *)
(* Any other answer (lease lost, replay, conflict) leaves the rows alone.    *)
Complete(w, d, kind, age) ==
    LET r == RunOf(d)
        t == TaskOf(d)
        row == dispatches[d]
        updated == ApplyAttemptResult(runs[r], t, kind, 0 - age)
    IN
    /\ row.worker = w
    /\ Unlocked(r)
    /\ LeaseAlive(row, 0 - age)
    /\ ~cancelRequested[r]
    /\ runs[r].status = "running"
    /\ activeAttempt(runs[r], t, row.attempt)
    /\ runs[r].attempts[t][row.attempt].owner = [worker |-> w, dispatch |-> d]
    /\ ~updated.err
    /\ runs' = [runs EXCEPT ![r] = updated]
    /\ dispatches' = [dispatches EXCEPT ![d] = ClosedRow(row, "completed", kind)]
    /\ UNCHANGED <<cancelRequested, workers, scan>>

-----------------------------------------------------------------------------
(* ReapExpired: silent workers become offline and the expired rows X are     *)
(* settled (SKIP LOCKED may hide some).  The rows are chosen by the time the *)
(* transaction started and settled by the current time.                      *)

Expired(row, now) == row.status = "leased" /\ (row.lease <= now \/ row.deadline <= now)

Silent(w, now) ==
    /\ workers[w].status \in {"active", "draining"}
    /\ workers[w].lastHeartbeat < now - OfflineAfter

Outcome(row) == IF row.deadline <= 0 THEN "timed_out" ELSE "interrupted"

Reaped(r, X) ==
    IF TasksOf(X, r) = {} THEN runs[r]
    ELSE EndAttempts(runs[r], TasksOf(X, r),
           [t \in TasksOf(X, r) |-> Outcome(dispatches[RowOf(X, r, t)])], 0)

ReapExpired(X, age) ==
    /\ \A d \in X : /\ Expired(dispatches[d], 0 - age)
                    /\ Unlocked(RunOf(d))
                    /\ activeAttempt(runs[RunOf(d)], TaskOf(d), dispatches[d].attempt)
    /\ Cardinality(X) <= DispatchLimit
    /\ \A r \in Run : ~Reaped(r, X).err
    /\ workers' = [w \in Worker |->
                     IF Silent(w, 0 - age)
                     THEN [status |-> "offline", lastHeartbeat |-> 0]
                     ELSE workers[w]]
    /\ runs' = [r \in Run |-> Reaped(r, X)]
    /\ dispatches' =
         [d \in DispatchID |->
            IF d \in X THEN ClosedRow(dispatches[d], "expired", "none")
            ELSE dispatches[d]]
    /\ UNCHANGED <<cancelRequested, scan>>

-----------------------------------------------------------------------------
(* CreateDispatches, in four steps.  BeginScan is the unlocked query for     *)
(* pending rows that no active worker can claim.                             *)

Orphaned ==
    {d \in DispatchID : /\ Pending(d)
                        /\ ~cancelRequested[RunOf(d)]
                        /\ ActiveWorkers(Executor[TaskOf(d)]) = {}}

BeginScan(c) ==
    /\ scan[c].at = "idle"
    /\ \E O \in SUBSET Orphaned :
          /\ Cardinality(O) <= DispatchLimit
          /\ O = Orphaned \/ Cardinality(O) = DispatchLimit
          /\ scan' = [scan EXCEPT ![c] = [NoScan EXCEPT !.at = "listed", !.orphans = O]]
    /\ UNCHANGED <<runs, cancelRequested, dispatches, workers>>

\* The coordinator stops or loses its connection: the transaction rolls back.
AbortScan(c) ==
    /\ scan[c].at # "idle"
    /\ scan' = [scan EXCEPT ![c] = NoScan]
    /\ UNCHANGED <<runs, cancelRequested, dispatches, workers>>

\* Faulty variant: the rows are not read again under their locks.
Orphans_Stale(c) == scan[c].orphans

\* returnOrphanedPendingDispatches: the rows still pending give their task back.
Orphans(c) == {d \in scan[c].orphans : Pending(d)}

afterOrphans(c, r) == ReturnQueuedTasksToReady(runs[r], TasksOf(Orphans(c), r))

First(S) == CHOOSE t \in S : \A u \in S : t <= u

DueRetries(c, s) == {t \in Task : retryDue(s, t, 0 - scan[c].age)}

\* promoteDueRetries: one task of each Run it could lock.
promoted(c, r) ==
    LET s == afterOrphans(c, r)
    IN  IF r \in scan[c].retries /\ DueRetries(c, s) # {}
        THEN MakeRetryReady(s, First(DueRetries(c, s))) ELSE s

(* loadExecutorCapacity: the free slots of the active workers of a kind,     *)
(* minus the rows that already wait for a worker.                            *)
Waiting(c, kind) ==
    {d \in DispatchID \ Orphans(c) : Pending(d) /\ Executor[TaskOf(d)] = kind}

Capacity(c, kind) ==
    LET slots == UNION {{w} \X (1..FreeSlots(w)) : w \in ActiveWorkers(kind)}
        free == Cardinality(slots) - Cardinality(Waiting(c, kind))
    IN  IF free < 0 THEN 0 ELSE free

ActiveDispatches(c) == {d \in DispatchID \ Orphans(c) : Active(d)}

Available(c) ==
    LET free == DispatchLimit - Cardinality(ActiveDispatches(c))
    IN  IF free < 0 THEN 0 ELSE free

DueRuns(c) ==
    {r \in Run : /\ runs[r].status \in {"pending", "running"}
                 /\ ~cancelRequested[r]
                 /\ DueRetries(c, afterOrphans(c, r)) # {}
                 /\ Unlocked(r)}

(* The scan waits for the Runs of the rows it has listed and takes those of  *)
(* due retries that are not locked (SKIP LOCKED may hide any), then counts   *)
(* what is active and free.  With no place or no slot left it commits what   *)
(* it has done so far.                                                       *)
CountDispatches(c, P) ==
    /\ scan[c].at = "listed"
    /\ \A d \in scan[c].orphans : Unlocked(RunOf(d))
    /\ P \subseteq DueRuns(c)
    /\ Cardinality(P) <= DispatchLimit
    /\ LET capacity == [kind \in ExecutorKind |-> Capacity(c, kind)]
           full == Available(c) = 0 \/ \A kind \in ExecutorKind : capacity[kind] = 0
       IN  scan' = [scan EXCEPT ![c] =
                      [@ EXCEPT !.at = IF full THEN "chosen" ELSE "counted",
                                !.retries = P, !.available = Available(c),
                                !.capacity = capacity]]
    /\ UNCHANGED <<runs, cancelRequested, dispatches, workers>>

ReadyTasks(s) == {t \in Task : s.task[t] = "ready"}
InFlight(s) == {t \in Task : s.task[t] \in {"queued", "running"}}
UnusedRows(r, t) == {k \in RowId : dispatches[<<r, t, k>>].status = "none"}

\* A Run with work for the scan.
Startable(s, r) ==
    s.status \in {"pending", "running"} /\ ~cancelRequested[r] /\ ReadyTasks(s) # {}

Candidate(s, r) == Startable(s, r) /\ Cardinality(InFlight(s)) < Concurrency

\* The query for candidates: a snapshot of the statement's own.
QueryCandidates(c) ==
    /\ scan[c].at = "counted"
    /\ scan' = [scan EXCEPT ![c] =
                   [@ EXCEPT !.at = "chosen",
                             !.candidates = {r \in Run : Candidate(promoted(c, r), r)}]]
    /\ UNCHANGED <<runs, cancelRequested, dispatches, workers>>

NewDispatch(s, r) ==
    LET t == First(ReadyTasks(s)) IN <<r, t, First(UnusedRows(r, t))>>

(* The Runs Q are candidates that no other scan has locked.  With its lock a *)
(* Run's own columns and its tasks are read again, the number of its tasks   *)
(* in flight is not.  They fit what was counted.  The bound on dispatch rows *)
(* is in the second conjunct.                                                *)
Admitted(c, Q) ==
    /\ Q \subseteq scan[c].candidates
    /\ \A r \in Q : LET s == promoted(c, r) IN
          Startable(s, r) /\ UnusedRows(r, First(ReadyTasks(s))) # {}
    /\ \A r \in Q, o \in Coordinator \ {c} : r \notin LockedRuns(o)
    /\ Cardinality(Q) <= scan[c].available
    /\ \A kind \in ExecutorKind :
          Cardinality({r \in Q : Executor[First(ReadyTasks(promoted(c, r)))] = kind})
              <= scan[c].capacity[kind]

(* The orphaned rows are closed, the due retries promoted and the Runs Q     *)
(* queue their first ready task.  SKIP LOCKED may hide any Run.              *)
CreateDispatches(c, Q) ==
    LET s(r) == promoted(c, r)
        updated(r) == IF r \in Q THEN QueueTask(s(r), First(ReadyTasks(s(r)))) ELSE s(r)
    IN
    /\ scan[c].at = "chosen"
    /\ \A d \in Orphans(c) : runs[RunOf(d)].task[TaskOf(d)] = "queued"
    /\ Admitted(c, Q)
    /\ \A r \in Run : ~updated(r).err
    /\ runs' = [r \in Run |-> updated(r)]
    /\ dispatches' =
         [d \in DispatchID |->
            CASE d \in Orphans(c) -> ClosedRow(dispatches[d], "canceled", "none")
              [] RunOf(d) \in Q /\ d = NewDispatch(s(RunOf(d)), RunOf(d)) ->
                   PendingRow(scan[c].age)
              [] OTHER -> dispatches[d]]
    /\ scan' = [scan EXCEPT ![c] = NoScan]
    /\ UNCHANGED <<cancelRequested, workers>>

-----------------------------------------------------------------------------
(* Cancellation: RequestCancel records the request, CancelRun settles it in  *)
(* a later transaction.                                                      *)

RequestCancel(r) ==
    /\ Unlocked(r)
    /\ runs[r].status \notin WorkflowTerminal
    /\ ~cancelRequested[r]
    /\ cancelRequested' = [cancelRequested EXCEPT ![r] = TRUE]
    /\ UNCHANGED <<runs, dispatches, workers, scan>>

\* What the coordinator's scan finds: requests recorded and not yet settled.
CancelRequestedRuns ==
    {r \in Run : cancelRequested[r] /\ runs[r].status \notin WorkflowTerminal}

CancelRun(r) ==
    /\ r \in CancelRequestedRuns
    /\ Unlocked(r)
    /\ ~CancelRunSnapshot(runs[r]).err
    /\ runs' = [runs EXCEPT ![r] = CancelRunSnapshot(runs[r])]
    /\ dispatches' =
         [d \in DispatchID |->
            IF RunOf(d) = r /\ Active(d)
            THEN ClosedRow(dispatches[d], "canceled", "none")
            ELSE dispatches[d]]
    /\ UNCHANGED <<cancelRequested, workers, scan>>

-----------------------------------------------------------------------------
(* The database clock advances by one unit.                                 *)

Earlier(x, floor) == IF x > floor THEN x - 1 ELSE x

OlderSnapshot(s) ==
    [s EXCEPT !.readyAt =
        [t \in Task |-> IF s.task[t] = "waiting_retry" THEN Earlier(s.readyAt[t], Floor)
                        ELSE s.readyAt[t]]]

OlderRow(row) ==
    CASE row.status = "leased" ->
           [row EXCEPT !.lease = Earlier(row.lease, Floor),
                       !.deadline = Earlier(row.deadline, Floor)]
      [] row.status = "pending" -> [row EXCEPT !.created = Earlier(row.created, Floor)]
      [] OTHER -> row

OlderSession(session) ==
    IF session.status \in {"active", "draining"}
    THEN [session EXCEPT !.lastHeartbeat = Earlier(session.lastHeartbeat, SilentFloor)]
    ELSE session

Tick ==
    /\ \A c \in Coordinator : scan[c].at # "idle" => scan[c].age < MaxTxAge
    /\ runs' = [r \in Run |-> OlderSnapshot(runs[r])]
    /\ dispatches' = [d \in DispatchID |-> OlderRow(dispatches[d])]
    /\ workers' = [w \in Worker |-> OlderSession(workers[w])]
    /\ scan' = [c \in Coordinator |->
                  IF scan[c].at = "idle" THEN scan[c]
                  ELSE [scan[c] EXCEPT !.age = scan[c].age + 1]]
    /\ UNCHANGED cancelRequested

-----------------------------------------------------------------------------
ScanStep(c) ==
    \/ BeginScan(c) \/ QueryCandidates(c) \/ AbortScan(c)
    \/ \E P \in SUBSET Run : CountDispatches(c, P)
    \/ \E Q \in SUBSET Run : CreateDispatches(c, Q)

\* A heartbeat may name rows that are leased no more; it does not change them.
Next ==
    \/ \E w \in Worker : RegisterWorker(w) \/ DrainWorker(w)
    \/ \E w \in Worker, age \in Age :
         \/ \E L \in SUBSET LeasesOf(w) : Heartbeat(w, L, age)
         \/ \E C \in SUBSET {d \in DispatchID : Claimable(d, w)} : Claim(w, C, age)
         \/ \E d \in DispatchID, kind \in ResultKind : Complete(w, d, kind, age)
    \/ \E age \in Age :
         \E X \in SUBSET {d \in DispatchID : Expired(dispatches[d], 0 - age)} :
            ReapExpired(X, age)
    \/ \E c \in Coordinator : ScanStep(c)
    \/ \E r \in Run : RequestCancel(r) \/ CancelRun(r)
    \/ Tick

Spec == Init /\ [][Next]_vars

(* Fairness.  The coordinator's loop repeats its three transactions and is   *)
(* restarted after a crash; row locks are held for short transactions and    *)
(* granted in turn, so a scan is not hidden from the same Run for ever, nor  *)
(* does another transaction wait for one for ever (hence strong fairness of  *)
(* the scan that sees every Run, and of the transactions that need a lock);  *)
(* some live worker process polls for work; time passes.  Nothing is assumed *)
(* of heartbeats, completions, cancellation requests, registrations or       *)
(* drains.                                                                   *)
ReapAll ==
    \E X \in {{d \in DispatchID : Expired(dispatches[d], 0) /\ Unlocked(RunOf(d))}} :
        ReapExpired(X, 0)

SeesRetries(c) == DueRuns(c) \subseteq scan[c].retries

FullScan(c) ==
    \E Q \in SUBSET Run :
        /\ SeesRetries(c)
        /\ CreateDispatches(c, Q)
        /\ \A r \in Run \ Q : ~Admitted(c, Q \cup {r})

Fairness ==
    /\ SF_vars(Tick)
    /\ SF_vars(ReapAll)
    /\ \A c \in Coordinator :
          /\ WF_vars(ScanStep(c))
          /\ SF_vars(CountDispatches(c, DueRuns(c)))
          /\ SF_vars(SeesRetries(c) /\ QueryCandidates(c))
          /\ SF_vars(FullScan(c))
    /\ \A r \in Run : SF_vars(CancelRun(r))
    /\ SF_vars(\E w \in Worker : \E C \in SUBSET {d \in DispatchID : Claimable(d, w)} :
                  Claim(w, C, 0))

FairSpec == Spec /\ Fairness

-----------------------------------------------------------------------------
(* Safety.                                                                   *)

(* Whatever the order in which workers finish, lose leases and are reaped,   *)
(* every stored dependency counter is exact and no task gets ahead of its    *)
(* dependencies (ApplyAttemptResult, applyRetryDecision, skipDescendants).   *)
DependencyInv ==
    \A r \in Run : RemainingExact(runs[r]) /\ DependencyOrder(runs[r])

(* Every attempt history is one that a single sequential executor could have *)
(* left behind, within the attempt limit of its task.                        *)
HistoryInv == \A r \in Run : AttemptHistory(runs[r])

(* A Run is settled exactly when its tasks are, with the verdict they        *)
(* deserve, and an open Run always has a task that can still move.           *)
SettlementInv == \A r \in Run : StatusAgrees(runs[r]) /\ NeverStuck(runs[r])

(* task_dispatches and the Run agree on who executes what: a task is queued  *)
(* or running exactly when one row is pending or leased for it; the lease is *)
(* the owner of the last attempt; a closed row tells how its attempt ended;  *)
(* every attempt was started by exactly one row.                             *)
OwnershipInv ==
    /\ \A d \in DispatchID :
         LET s == runs[RunOf(d)]
             t == TaskOf(d)
             row == dispatches[d]
             attempt == s.attempts[t][row.attempt]
         IN
         /\ row.status = "pending" => s.task[t] = "queued"
         /\ row.status = "leased" => activeAttempt(s, t, row.attempt)
         /\ row.worker # NoWorker =>
               /\ row.attempt \in 1..Len(s.attempts[t])
               /\ attempt.owner = [worker |-> row.worker, dispatch |-> d]
               /\ row.status \in {"completed", "expired", "canceled"} =>
                     attempt.status \in
                       CASE row.status = "completed" /\ row.result = "success" -> {"succeeded"}
                         [] row.status = "completed" /\ row.result # "success" -> {"failed"}
                         [] row.status = "expired" -> {"interrupted", "timed_out"}
                         [] row.status = "canceled" -> {"canceled"}
         /\ row.worker = NoWorker => row.status \in {"none", "pending", "canceled"}
    /\ \A r \in Run, t \in Task :
         /\ Cardinality({k \in RowId : Active(<<r, t, k>>)}) =
               IF runs[r].task[t] \in {"queued", "running"} THEN 1 ELSE 0
         /\ \A i \in 1..Len(runs[r].attempts[t]) :
               LET d == runs[r].attempts[t][i].owner.dispatch
               IN  RunOf(d) = r /\ TaskOf(d) = t /\ dispatches[d].attempt = i

(* The limits hold in every state, although capacity is only ever checked    *)
(* when a row is created or claimed: tasks in flight of a Run, active rows   *)
(* in the database and leases of a worker.  The first two are counted        *)
(* without a lock: a scan that overlaps another may add to what the other    *)
(* has not counted, so every coordinator more may add one task to a Run and  *)
(* a batch to the rows.  With one coordinator they are the limits            *)
(* themselves; the leases are counted under the lock of the session.         *)
CapacityInv ==
    /\ \A r \in Run :
          Cardinality(InFlight(runs[r])) <= Concurrency + Cardinality(Coordinator) - 1
    /\ Cardinality({d \in DispatchID : Active(d)}) <= Cardinality(Coordinator) * DispatchLimit
    /\ \A w \in Worker : Cardinality(LeasesOf(w)) <= MaxConcurrency[w]

(* A session that stopped holds no lease and will get none; no renewal moves *)
(* a lease past the deadline of its attempt.                                 *)
LeaseInv ==
    \A d \in DispatchID : Leased(d) =>
        /\ workers[dispatches[d].worker].status \in {"active", "draining", "offline"}
        /\ dispatches[d].lease <= dispatches[d].deadline

(* No transaction of the coordinator is ever refused by its own consistency  *)
(* checks: such an error stops the coordinator (scanLoop calls fail).  Every *)
(* row a scan may meet passes the checks of ReapExpired and CancelRun, the   *)
(* orphaned rows an open scan has listed still pass theirs, and a new row    *)
(* meets no other active row of its task (the unique index).                 *)
CoordinatorNeverFails ==
    /\ \A r \in Run :
         /\ runs[r].status \notin WorkflowTerminal => ~CancelRunSnapshot(runs[r]).err
         /\ \A t \in Task : runs[r].task[t] = "ready" =>
               /\ runs[r].status \in {"pending", "running"} => ~QueueTask(runs[r], t).err
               /\ \A k \in RowId : ~Active(<<r, t, k>>)
         /\ \A T \in SUBSET {t \in Task : \E k \in RowId : Leased(<<r, t, k>>)} : T # {} =>
               ~EndAttempts(runs[r], T, [t \in T |-> "interrupted"], 0).err
    /\ \A c \in Coordinator : \A d \in Orphans(c) : runs[RunOf(d)].task[TaskOf(d)] = "queued"
    /\ \A d \in DispatchID :
         Leased(d) => activeAttempt(runs[RunOf(d)], TaskOf(d), dispatches[d].attempt)

-----------------------------------------------------------------------------
(* Action properties.                                                        *)

(* Once a cancellation is recorded no later step starts an attempt of the    *)
(* Run or lets one of its tasks succeed, even before CancelRun settles it.   *)
CancelBarrier ==
    [][\A r \in Run, t \in Task : cancelRequested[r] =>
          /\ Len(runs'[r].attempts[t]) = Len(runs[r].attempts[t])
          /\ runs'[r].task[t] = "succeeded" => runs[r].task[t] = "succeeded"]_vars

(* Facts are final: a settled Run, an ended task, an ended attempt and a     *)
(* closed dispatch row never change, and attempts are only ever appended, so *)
(* a late, repeated or concurrent transaction cannot rewrite an outcome.     *)
ResultsAreFinal ==
    [][/\ \A r \in Run :
            /\ runs[r].status \in WorkflowTerminal => runs'[r] = runs[r]
            /\ \A t \in Task :
                 LET old == runs[r].attempts[t]
                     new == runs'[r].attempts[t]
                 IN  /\ runs[r].task[t] \in TaskTerminal =>
                           runs'[r].task[t] = runs[r].task[t]
                     /\ Len(new) >= Len(old)
                     /\ \A i \in 1..Len(old) :
                           /\ new[i].owner = old[i].owner
                           /\ old[i].status # "running" => new[i] = old[i]
       /\ \A d \in DispatchID :
            dispatches[d].status \in {"completed", "expired", "canceled"} =>
                dispatches'[d] = dispatches[d]]_vars

(* Leases, retries, reaping, orphaned rows and cancellation implement the    *)
(* contract: each transaction maps to a step of WorkflowContract or changes  *)
(* no outcome.                                                               *)
Contract ==
    INSTANCE WorkflowContract WITH
        outcome <- [r \in Run |-> [t \in Task |->
                      IF runs[r].task[t] \in TaskTerminal THEN runs[r].task[t] ELSE "open"]],
        verdict <- [r \in Run |->
                      IF runs[r].status \in WorkflowTerminal THEN runs[r].status ELSE "open"]

ImplementsContract == Contract!Spec

(* A result is accepted only while its lease has not run out on the database *)
(* clock, even if the reaper has not seen the row yet.                       *)
NoLateResult ==
    [][\A d \in DispatchID :
          Leased(d) /\ dispatches'[d].status = "completed" => dispatches[d].lease > 0]_vars

-----------------------------------------------------------------------------
(* Liveness, under Fairness.                                                 *)

(* A Run is settled unless from some moment on no active worker is left for  *)
(* it: lost results, lost workers, orphaned rows and retries never strand it.*)
(* With a recorded cancellation it is settled without workers too, even if   *)
(* the process that recorded it stops before CancelRun: the coordinator's    *)
(* scan finds it.                                                            *)
RunsSettle ==
    \A r \in Run :
        []<>(cancelRequested[r] \/ \A t \in Task : ActiveWorkers(Executor[t]) # {})
            => <>(runs[r].status \in WorkflowTerminal)
=============================================================================
