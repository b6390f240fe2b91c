# Verification of the AI workload platform

The platform runs workflows: a definition is a set of tasks with dependencies,
a Run executes every task of one definition, with retries, timeouts and
cancellation. PostgreSQL holds every fact. A control plane (API and
coordinator) turns ready tasks into dispatch rows, worker processes claim them
under leases, execute them and submit results. An older single-process path,
the local Engine, executes a Run in goroutines against the same state rules.

This directory holds TLA+ modules that model the code, TLC configurations that
check them on small instances, and proofs that TLAPS checks for every value of
the constants. `PROJECT.json` says for every definition which source lines it
stands for, for every run what it asks, and lists the hazards the properties
are aimed at.

## Components

| part | state | operations | hard parts |
|---|---|---|---|
| Run state rules (`workflow/state.go`, `run.go`, `distributed_state.go`) | a Run snapshot: Run and task status, attempts, open-dependency counters, retry times | queue, start, result, interrupt, time-out, retry, cancel, settle | counters that are only decremented; skipping behind a failure; settling exactly once |
| Dispatch repository (`internal/postgres/dispatch_*.go`) | `task_dispatches`, and the Run rows | CreateDispatches, Claim, Heartbeat, Complete, ReapExpired, CancelRun | transactions of many callers; lists and counts read without locks; two notions of "now" |
| Worker sessions (`worker_repository.go`) | `worker_sessions` | register, authenticate, drain, mark offline | a worker that vanishes or drains with leases or with rows waiting for it |
| Run store (`run_store.go`, `definitions.go`) | Runs, definitions, versions, idempotency keys | create, save with revision check, request cancel | duplicate requests, lost updates |
| Dispatch coordinator, server process, advisory lock (`internal/dispatch`, `cmd/workload-server`, `repository.go`) | lock, wake-up channel, failure, the phases of shutting down | loop of cancel, reap, dispatch; lock check; wake; fail; close | stops on any error; a lock lost unnoticed; a hint during a scan; a close at its time limit |
| Local Engine (`workflow/engine.go`, `recovery.go`) | active Runs, event loop, executor goroutines | execute, cancel, resume | results racing cancellation; crash between save and execution |
| Local Run coordinator (`internal/runtime`) | reserved Runs, semaphore | discover, start, fail, close | reservation races, close |
| Worker runtime (`internal/workerruntime`) | leases held locally | poll, execute, heartbeat, submit, stop | local deadline without a shared clock; resubmission |
| Definition compiler (`workflow/compiler.go`) | none | validation, cycle test, digest | none at run time |
| Agent drafts (`agent`, `httpapi/draft.go`) | budget and audit trail of a session; drafts are with the client | generate, validate, confirm | cancellation in the middle of a turn; drafts edited or copied after their review |
| Alerting (`internal/alerting`) | state per rule | evaluate, deliver | not modelled |
| HTTP API, CLI, executors, metrics, web console | none that decides about a Run | transport and presentation | not modelled |

The parts of the distributed path interact through the database only. A transaction locks
the Run before it loads it, so a transaction is one step, which `RowLocks` checks; what happens
between transactions, what a transaction read before its locks or measured by the time it
began, and the order in which it takes its locks, is where errors hide.

What makes the parts correct:

* a task never gets ahead of its dependencies and the counter that guards this
  is exact after any history;
* an attempt has one owner, one end, and the history looks sequential;
* a Run settles when and only when its tasks have, with the right verdict;
* the rows and the Run always agree on who is executing what;
* limits hold although each is checked in a different transaction, and are exceeded by a bounded number
  while two coordinators overlap;
* a recorded cancellation stops work at once and is settled in the end;
* nothing waits for ever: leases end, orphaned rows come back, Runs settle;
* the coordinator is never stopped by data its own transactions produced;
* a process scans only while it holds the advisory lock, or has not noticed its loss, and
  then ends;
* a definition reaches the operator's confirmation only as the validation showed it.

## Modules

`WorkflowState` - the pure state rules. An operator takes a snapshot and
returns the one the Go function would store. A Go error is the field `err`:
the transaction rolls back, so no stored snapshot has it set. The code calls
some operations in a loop over tasks; the operator takes the set of tasks.
Audit events, time stamps of transitions and result texts are left out.

`Dispatch` - the tables as variables (`runs`, `cancelRequested`, `dispatches`, `workers`)
and the open scan transaction of each coordinator (`scan`), with one action per transaction:

| action | code |
|---|---|
| `RegisterWorker`, `DrainWorker` | `worker_repository.go` |
| `Claim` | `dispatch_claim.go` |
| `Heartbeat` | `dispatch_heartbeat.go` |
| `Complete` | `dispatch_complete.go` |
| `ReapExpired`, `CancelRun` | `dispatch_recovery.go` |
| `BeginScan`, `CountDispatches`, `QueryCandidates`, `CreateDispatches`, `AbortScan` | `dispatch_schedule.go`: the unlocked query for orphaned rows; the locks of their Runs and of due retries and the counts of rows and slots; the query for candidates; its locks, the inserts and the commit; the roll-back |
| `RequestCancel` | `run_store.go` |
| `Tick` | the database clock |

Modelling decisions:

* Callers are unconstrained. A worker may use any lease it was ever given at any
  time and never has to do anything, so lost, delayed and repeated requests,
  worker crashes and coordinator restarts need no actions of their own.
* `FOR UPDATE SKIP LOCKED ... LIMIT` is "any subset of at most LIMIT rows".
* `CURRENT_TIMESTAMP` is the start of the transaction. A transaction carries an
  `age`, at most `MaxTxAge`, and compares columns with `0 - age`;
  `clock_timestamp()` is 0. Columns are distances from the clock, so `Tick`
  subtracts one; they stop where no transaction can tell the values apart.
* An answer that writes nothing (lease lost, replayed result, conflict, error) is
  no step. Times of closed rows are never read again and are 0.
* The session of `Complete` was authenticated by an earlier query, so `Complete`
  does not look at its status.
* The CHECK `leased_at >= created_at` aborts a claim whose transaction began
  before the row was created, and is a guard; `completed_at >= created_at` always
  holds and is not.
* The revision check of `applyChangeSetTx` never fails here because every
  transaction locks the Run row first; it is modelled in `Engine`.
* A scan is four steps because three of its statements read without a lock what it uses
  later: the list of orphaned rows, the counts of active rows and free slots, and the number of
  tasks a candidate Run has in flight. What it changes is applied at its commit; until then the
  Runs it has locked are out of reach for the others (`Unlocked`). The lock of a candidate
  makes PostgreSQL look at the columns of the Run again, and `loadSnapshot` at its tasks, but the
  count of tasks in flight stays that of the query (`Admitted`).
* `Coordinator` is the set of processes that scan. The advisory lock is there to make it one;
  `Server` says when it is more: between the loss of the lock's connection and the next check.
  The runs and theorems hold for one and for several, unless they say otherwise.
* `loadExecutorCapacity` reads slots and waiting rows in two statements, which is one step here.
  A row claimed between them is counted in neither and the round may create one row more than
  there are slots. `CapacityInv` does not speak of it: the row waits, `Claim` counts again.
* The code's checks for a missing `ReadyAt` are left out: every snapshot it reads them in has one.

`WorkflowContract` - what the platform promises about a Run without workers,
leases, attempts or queues: tasks end once and only after their dependencies
succeeded, a failure skips what needed it in the same step, cancellation closes
all that is open, the verdict comes with the last outcome. `Dispatch` implements
it under the mapping in `Dispatch!Contract`. Its second specification, `LateSpec`, lets the verdict
come in a step of its own, before which a cancellation may still come; everything else is the same.
`Engine` implements that one under `Engine!Contract`, not the first: a Resume that fails the last
attempt of the last task stores the failure with the Run still running, and the loop settles it.

`ChangeSets` - how a snapshot gets into the store and back: the rows of a Run
(`insertSnapshot`), the difference of two snapshots (`changeSetFromSnapshots`), what the
store accepts (`ValidChange`) and does with it (`applyChangeSet`), and the snapshot put
together again (`loadSnapshot`). The relational store does this with tables, the file store
with the snapshot it keeps; the rows they touch are the same.

`Engine` - the local Engine executing one Run. `store` is the persisted rows, `persisted`
what a load of them returns, `mem` the copy of the goroutine that owns the
Run, `pc` where that goroutine is, `work` its running attempts and pending events,
`stop` the cause of its context.

| action | code |
|---|---|
| `Begin`, `Restart`, `Shutdown`, `Crash` | `internal/runtime/coordinator.go`: discovery, start, close, failure |
| `LoadRun`, `Prepare` | `Execute`, `Resume`, `prepareForResume` |
| `Enter`, `StartTask`, `AllStarted`, `StopNoticed`, `Completion`, `TimedOut`, `RetryFired`, `Leave` | `executeSnapshot` |
| `Finalize` | `finalizeCancellation` |
| `CancelActive`, `CancelIdle` | `Engine.Cancel` |
| `RequestCancel` | `RequestCancel` of the store |

* A step ends with a `saveSnapshot` or a receive. `Save` has the three outcomes the
  code tells apart: written, revision conflict, any other error - after which the
  snapshot may have been written all the same (`writeLocked` synchronises the
  directory after the rename).
* A save sends a change set of `mem` and the candidate; nothing but its rows changes.
* Revisions only grow, so the one comparison of `Apply` is a Boolean, `fresh`.
* Channels are not modelled. Every started executor and timer may deliver its event
  at any time and in any order, also when the attempt it belongs to has ended.
* `failed` is a Run the Engine's own checks refused; `down` is a process stopped by
  something outside. Both end the process, and a restart resumes.
* A conflict that `finalizeCancellation` reports is reconciled once more inside
  `executeSnapshot` (`finalize`), not elsewhere (`settle`).
* Clock readings are one constant; a delay is how late its timer fires.
* `Execute` is used for a pending Run only, as `discoverRuns` does; `Enqueue` has no
  caller.
* A skipped task's counter of 0 (see the disagreement below) is modelled as it is.

`WorkerRuntime` - one worker process after its registration: the goroutine of `Run`
(`main`), the heartbeat goroutine (`hb`) and, for every lease, an executor goroutine
and the timer of the local safety deadline (`task`). `parent`, `poll` and `run` are the
contexts, and a lease's context is alive when its `canceled` is false. The control
plane is the status of the worker's session and the rows the worker may be given.

| action | code |
|---|---|
| `Loop`, `StartLeases`, `ClaimFails`, `ClaimRefused`, `WaitOver` | the polling loop of `Run`, `startLease` |
| `Left`, `SessionLost`, `Drained`, `ShutdownExpires`, `Await`, `Join`, `Finish` | the end of `Run` |
| `HeartbeatTick`, `HeartbeatFails`, `HeartbeatAnswered`, `HeartbeatRefused` | `heartbeatLoop` and the goroutine around it |
| `ExecutorReturns`, `Submit`, `SubmitEnds` | the lease's goroutine, `submitWithRetry` |
| `RenewTimer`, `TimerFires` | `enforceLocalSafetyDeadline` |
| `ServeClaim`, `ServeHeartbeat`, `ServeDrain`, `SessionOffline`, `CloseRow` | the transactions of the control plane that the worker can notice |

* A call is the request, the transaction and the answer; any of the three may be the
  last that happens, so a lease may be given and never be known to the worker.
* `stop()` and `stopPolling()` are separate steps where another goroutine can look between them.
* The answer to a claim carries times, which the worker compares with its own clock
  (`Skew`); the answer to a heartbeat carries a duration, which starts when the timer
  takes it, at most `MaxDelay` after the transaction. A row of the model is leased once.
* A due timer fires before time goes on. A canceled executor may take any time to return.
* Poll back-off and jitter only choose how long `wait` lasts.

`Creation` - the idempotent writes of the API: create a workflow, create a version, start a
Run. The variables are four tables (`workflows`, `versions`, `runs`, `records`), the `cache`
of compiled definitions and a record per HTTP `handler`: its phase, request, compiled
definition and the resource it creates.

| action | code |
|---|---|
| `Receive`, `CompileSent`, `CompileCached`, `LoadDefinition`, `CacheLoaded` | the handlers of `dispatch` in `httpapi/server.go`, `Create`, `CreateVersion`, `Start`, `compiled` |
| `LockKey`, `LoadIdempotency` | `lockIdempotency`, `loadIdempotency`, `validateReplay` |
| `ReserveFirst`, `ReserveNext`, `EnsureDefinitionMatches` | what a transaction reads or locks before it inserts |
| `Write`, `Commit`, `Finish` | the inserts and what the primary keys refuse, the commit, `putCache` and the answer |
| `Fail`, `CommitUnknown`, `Crash` | a failed call, a commit whose answer is lost, the end of the process |

* Locks are read off the phases: a handler holds its key from `lookup` to `commit`, a workflow
  row from `write` to `commit`. What a transaction wrote appears at its commit.
* The principal of a key is the role of the token and only operators write, so there is one
  principal: all operators share one space of keys.
* A definition is its canonical form; two requests have one hash exactly if they ask for the same.
  The column is JSONB, which spells numbers its own way: the constant `JSONB` says what becomes of
  each definition in the database. The cache keeps a definition as it was sent or as it was read.
* `newRunID` may draw an identifier that is taken. The initial state of a Run's tasks is in
  `WorkflowState`; a Run here remembers the definition its tasks were made from.

`RowLocks` - the dispatch transactions one row lock at a time. `status` and `run` are what is
committed, as far as the guards of the transactions look at it, `carried` the leases in a
worker's memory, `owner` the row locks, `tx` the open transaction of each client (the next
statement, the rows still to be locked in their order, the rows it is about, the Runs it
loaded), `overtaken` the clients whose loaded Run was changed by another commit.

| action | code |
|---|---|
| `BeginHeartbeat`, `CommitHeartbeat` | the session row, then the rows of the worker's leases in the order of a Go map |
| `BeginClaim`, `PickPending`, `CommitClaim` | the session row, then rows and Runs with SKIP LOCKED |
| `BeginComplete`, `LoadComplete`, `CommitComplete` | the Run, then the row |
| `BeginRequest`, `CommitRequest`, `BeginScanCancel`, `LockActive`, `LoadCancel`, `CommitCancel` | `RequestCancel`, `CancelRequestedRuns`, `CancelRun`: the Run, then its active rows by ID |
| `BeginReap`, `PickExpired`, `CommitReap` | silent sessions, then expired rows and Runs with SKIP LOCKED |
| `BeginCreate`, `PickCandidates`, `CommitCreate` | for each orphaned row its Run and the row, then candidate Runs with SKIP LOCKED |
| `Lock`, `DeadlockVictim` | PostgreSQL: the next row of a FOR UPDATE; the error that ends a circle |

* A waiting statement reads the row again when it gets the lock, as READ COMMITTED does.
  What a transaction wrote appears at its commit.
* FOR UPDATE OF r, d SKIP LOCKED gives a row together with its Run or not at all, but a Run
  that was free stays locked although its row was not.
* There is no clock: a lease may be found expired and a kind of executor without workers
  at any time. `promoteDueRetries`, which only skips locked Runs, is left out.
* There is one scan. Two coordinators that overlap (`Dispatch`) might also wait for each other: the
  orphaned rows are taken in one order, but their Runs are not, if a Run has several of them. The
  victim's scan fails and its process ends, as it has to.

`Server` - server processes against one database. `holder` is the session that holds the advisory
lock; a process is a record: where `serve` is, its two loops, its contexts and channels and
the connection of the lock.

| action | code |
|---|---|
| `Start` | `AcquireAdvisoryLock`, `DispatchCoordinator.Start` |
| `ScanEnds`, `ScanError`, `ScanWoken`, `ScanTick`, `ScanDone` | `scanLoop` |
| `LockLoop` | `lockLoop` and `advisoryLock.Check` |
| `RequestCommits`, `Wake`, `RequestFails` | the handlers that change a Run and wake the coordinator, or return an error after their commit and do not |
| `Signal`, `Supervise`, `ListenerFails`, `BeginClose`, `CloseLock`, `EndClose`, `Exit` | `serve`, `superviseServer`, `Close` of coordinator, lock and pool |
| `ConnectionLost`, `Killed` | external: the lock's connection breaks, the process dies |

* A transaction of a scan succeeds or fails; what it does is in `Dispatch`.
* A time limit may be over at any moment: `BeginClose` and `EndClose` do not wait. `Exit` does,
  because the pool waits for its connections.
* `Cancel` may fail after the request was recorded, because `CancelRun` does or the coordinator is
  not ready, and a commit may go through and answer with an error. Such a request wakes nobody
  (`RequestFails`); the next tick finds its change (`ChangesScanned`), and the scan settles it
  (`RunsSettle`).

`Agent` - drafts. `session` and `audit` are one call of `GenerateDraft`, `tab` the drafts in the
operator's browser (the server stores none), `catalog` the templates of the running release,
`reviewed` and `confirmed` what validations and confirmations answered.

| action | code |
|---|---|
| `Request`, `Begin`, `Turn`, `ModelFails`, `ModelAnswers`, `Answered`, `Checked`, `ToolDue`, `ToolReturns`, `Drafted`, `Respond` | `dispatchDraft`, `GenerateDraft` from one call or context check to the next |
| `ContextDone` | the client goes away or the time limit of the session is over |
| `ValidateDraft`, `ConfirmDraft` | `service.go`, with `Validate` of `validator.go` and `TransitionDraft` of `draft.go` |
| `Edit`, `CopyDraft`, `Release` | external: what an operator and a deployment do |

* A SHA-256 digest is the record of the hashed fields. Goal, ID, facts and assumptions are
  hashed too and stay as they were generated, so they are left out.
* The size of an answer is not modelled: `CheckResponseSize` may refuse any.
* Compilation of a definition is the constant `Compiles`; the checks of the validator are written
  out.

`MCDispatch`, `MCEngine`, `MCCreation`, `MCRowLocks`, `MCAgent` - the small instances. `WorkerRuntime` and
`Server` need none: their cfg files give every constant a value.

`WorkflowStateProofs`, `DispatchProofs`, `EngineProofs`, `RowLocksProofs`, `ServerProofs`,
`WorkerRuntimeProofs`, `AgentProofs`, `CreationProofs` - the theorems.

## Runs

| run | instance | question |
|---|---|---|
| `dispatch_overlap` | two coordinators, a Run of five tasks (1 to 3 free, 4 after 1 and 2, 5 after 4), one worker; concurrency, limit and slots one | are counters exact and verdicts right, does a failure skip at any distance as the contract says, by how much can overlapping scans exceed the limits |
| `dispatch_stale` | one task, two attempts, two workers, transactions one tick old | do rows and attempts agree on the owner, do leases respect deadlines, is nothing settled rewritten, does a cancellation stop work, does the coordinator never refuse a row |
| `dispatch_live` | one task with two attempts, two workers that may go silent, drain and stop | does a Run settle as long as there is an active worker again and again, although workers with its rows and leases are lost, and a canceled one with no worker at all |
| `dispatch_late` | the smallest instance | a disagreement, below |
| `row_locks` | two Runs with a row each, one worker with two slots | does no transaction overtake another's load; which circles of waits are possible |
| `row_locks_cycle` | one Run, two rows, one worker with two slots | a disagreement, below |
| `server` | two processes, one fault | who scans when, does a process that failed or was told to stop end, is a wake-up during a scan heard, is a change nobody announced found |
| `engine_join` | tasks 1 and 2 before 3, task 1 with two attempts, two executors, two faults | is the stored Run consistent, do rows saved by difference load as the Run in memory, does the loop know what runs, is every write a step of the contract, is no attempt executed twice, does the Engine refuse nothing it wrote, do Runs and cancellations settle |
| `engine_resume` | the join, task 2 with two attempts, one fault | a disagreement, below |
| `worker_pair` | one slot, two leases, clock one tick behind, renewals one tick late, margin one tick | is every execution covered by its lease, are slots kept, does every exit leave nothing behind and say why, does the worker exit when told to, do executions of a lost session stop |
| `agent` | three model turns, two tool calls, seven kinds of batches, three definitions, two releases, two tabs | is the budget kept, does the audit trail tell the outcome, is only what was reviewed confirmed |
| `creation` | two handlers, ten requests for one workflow under two keys, one definition that the database spells in another way, two Run identifiers | does every retry get the first answer, is nothing made twice, are versions without a gap, does the cache agree, is a refusal never due to the client's own try or a race, do the locks never block each other |

The configuration of each run and the properties it checks, each stated in the comment above
its definition:

| run | module and configuration | properties |
|---|---|---|
| `dispatch_overlap` | `MCDispatch`, `DispatchOverlap.cfg` | `TypeOK`, `DependencyInv`, `SettlementInv`, `CapacityInv`, `ImplementsContract` |
| `dispatch_stale` | `MCDispatch`, `DispatchStale.cfg` | `HistoryInv`, `OwnershipInv`, `LeaseInv`, `CoordinatorNeverFails`, `CancelBarrier`, `ResultsAreFinal` |
| `dispatch_live` | `MCDispatch`, `DispatchLive.cfg` | `RunsSettle` |
| `dispatch_late` | `MCDispatch`, `DispatchLate.cfg` | `NoLateResult` (violated) |
| `engine_join` | `MCEngine`, `EngineJoin.cfg` | `StoredInv`, `RowsMatchMemory`, `LoopInv`, `EngineNeverFails`, `ImplementsLateContract`, `LaunchOnce`, `StoreFinal`, `RunSettles`, `CancelSettles` |
| `engine_resume` | `MCEngine`, `EngineResume.cfg` | `CountersExact` (violated) |
| `worker_pair` | `WorkerRuntime`, `WorkerPair.cfg` | `ProcessInv`, `ExecutionCovered`, `SlotBound`, `ExitsOnStop`, `LostSessionStops` |
| `creation` | `MCCreation`, `Creation.cfg` | `TablesInv`, `AnswersAgree`, `RefusalsExplained`, `CacheAgrees`, `NoStall` |
| `row_locks` | `MCRowLocks`, `RowLocks.cfg` | `NoLostUpdate`, `CyclesNeedTwoLeases` |
| `row_locks_cycle` | `MCRowLocks`, `RowLocksCycle.cfg` | `NoCircularWait` (violated) |
| `server` | `Server`, `Server.cfg` | `CoordinatorInv`, `ProcessEnds`, `ChangesScanned` |
| `agent` | `MCAgent`, `Agent.cfg` | `BudgetInv`, `AuditInv`, `ConfirmedReviewed` |

Bounds. `MaxDispatches` caps the rows ever created for a task and appears in the
guard of `Admitted`; the second row of a task is enough for a retry and for a
row returned by an orphan scan, the third for both. In `dispatch_live` it is
large enough never to stop a Run: two attempts and one orphaned row, since the first of the two
workers may vanish before it claims and the other one registers after. There the worker that took
a row or a lease can be lost and its work come back for the other, which the premise of
`RunsSettle` allows. In `dispatch_overlap` everything that is counted is one, and three free
tasks let both coordinators add one beyond what the other had counted: two tasks of the Run are in
flight and two rows active where each limit is one, and the worker with its one slot meets both
rows. `MaxDispatches` lets each task have a row returned by a scan and created again. The dispatch
runs have one Run; what transactions over several Runs do (a batch of orphaned rows, of expired leases or
of candidates, the global limit across Runs) is in the theorems, which hold for any number of Runs,
coordinators, workers and tasks. So is the overlap of scans for the properties of `dispatch_stale`.
`row_locks` has the smallest tables in which two Runs share a worker and a heartbeat lists two
leases; every row is created once. Two rows of one Run are in `row_locks_cycle`, and
`NoLostUpdate` is proved for any tables. With one fault and two processes
`server` has a process that loses its lock while the other takes over. In `agent` the batches
include one too long for the budget together with an earlier call, a repeated ID, an
incomplete, an unregistered and an ill-fitting call; a draft is generated once.
`MaxTxAge` is 1 where old transactions matter. Lease, time-out and silence are
one to three ticks: each can pass before or after each other one. Workers are
symmetric and so are coordinators and browser tabs; `dispatch_live`, `engine_join` and
`server` use no symmetry, as they check liveness. `MaxFaults` caps crashes, shutdowns and storage errors of the Engine's
process together: two let the recovery from one fault meet another. The Engine
runs allow deadlock because a settled Run is the end of the behaviour, the worker
run because an exited process is. The worker's lease lasts two ticks and an attempt
three, so that the last renewal is cut at the attempt's deadline; two leases for one slot let
the second be claimed while the first, canceled, still runs. `MaxLeases` caps the rows given
to one worker; they are numbered in the order they are leased.
In `creation` the requests hold every operation under both keys and with two contents; each may be
sent any number of times, and what is created is bounded by the keys alone. A third
handler would only wait with the second: each lock is held by one transaction.
Handlers and Run identifiers are symmetric.

Fairness (`Dispatch!Fairness`). The coordinator repeats its three transactions
every scan interval and is restarted when it stops: its scan always takes a next step. Row
locks are held for short transactions and granted in turn, so a scan is not hidden from the same
Run for ever, nor does another transaction wait for one for ever: strong fairness of reaping, of
settling a cancellation and of the three steps of a scan that sees every Run (used with one Run
only, as the order and LIMIT of the candidate query are not modelled). Some worker that may claim does poll. Time passes;
strong fairness because the bound on an open scan's age disables `Tick`. Nothing
is assumed of heartbeats, results, registrations, drains or cancellation
requests.

`Engine!FairSpec` is weak fairness of the goroutine, its timers and the restart of a
stopped process, which its supervisor does. Executors need not return: time-outs
end their attempts. Faults are finitely many by `MaxFaults`.

`WorkerRuntime!FairSpec` is weak fairness of the goroutines, timers and time. Every
call ends, in an answer or an error. An executor returns once its context is canceled,
which the executors' interface asks for; otherwise it need not. Nothing is assumed of the
control plane: requests may be lost for ever.

`Server!FairSpec` is weak fairness of the goroutines of each process and of the lock check, whose
ticker fires. The ticker of the scan is not assumed to fire, so the first half of
`ChangesScanned`, about hints that were sent, rests on the hint alone. Its second half is about every
change that was committed, also by a request that fails or hangs before its wake-up, and has the
ticker as its premise. No process has to
start, and nothing is assumed of requests, signals or faults.

### Disagreements

* `dispatch_late`: `Complete` compares the lease with the start of its
  transaction, taken before it waits for the Run lock. The design says an
  expired lease never commits, even before the reaper has seen it.
* `row_locks_cycle`: the documents say that transactions lock the Run and then its rows, so
  that they cannot wait for each other. A heartbeat locks the rows of its leases without
  their Runs, in the order of a Go map; `CancelRun` locks the same rows in the order of their
  IDs. PostgreSQL ends such a circle with an error. In the scan's `CancelRequestedRuns`
  that error ends the process. `CyclesNeedTwoLeases` shows that every circle runs
  through such a heartbeat, and `OneSlotNoCircle` that workers with one slot cannot close one.
* `engine_resume`: `prepareForResume` leaves a zero counter on a skipped task whose
  other dependency is still open; the comment on `RemainingDependencies` and the
  design say it is the number of open dependencies. If that dependency then
  succeeds, the counter becomes negative, the result is refused and the Engine
  stops its process. `EngineNeverFails` therefore allows a refusal in that state only, and
  `StoredInv` asks for exact counters of waiting tasks only.

Met while reading, without a run of their own:

* The comment of `CreateDispatches` (`dispatch_schedule.go:15`) says that its limit bounds all
  active rows. They are counted without a lock (lines 36-42), so the scan of a coordinator that lost its
  advisory lock unnoticed and that of its successor can create more. ADR-0003 (line 58) knows the window and
  promises no fencing; `CapacityInv` says how much can come of it: one batch and, for a Run, one task
  per further coordinator, and never a slot of a worker. `dispatch_overlap` reaches both excesses.
* A number such as `1e2` in the input of a task stays as it is spelled in the cache
  (`workflow_service.go:56`) and comes back from the JSONB column as `100`. `ensureDefinitionMatches`
  (`run_store.go:463`) compares text, so every Start of that version from the cache is refused with
  "Run snapshot definition does not match workflow version" until the process is restarted. The learning
  article on the control plane (lines 395-397) names this failure and says storing the compiled
  definition rules it out. `creation` reaches it: `RefusalsExplained` shows that it is the only way to that
  refusal, `CacheAgrees` that the cache is off by the spelling only.
* `ReapExpired` (`dispatch_recovery.go:76`) does not look at `cancel_requested_at`: a Run
  whose cancellation is recorded may end `failed` when its last lease runs out before
  `CancelRun` reaches it. The design (`docs/计划/模块4需求与设计.md:396`) says that active attempts of such a
  Run are canceled.
* The remaining time of a renewal is counted from its arrival (`runtime.go:315`), and the
  worker's HTTP client has no time-out: an answer that takes longer than the safety margin
  lets the execution outlive its lease, which the design (line 370) excludes. `worker_pair`
  shows that a delay, or a clock, that is off by no more than the margin is harmless.
* Candidate Runs are ordered by their last dispatch and cut at the limit before capacity is
  looked at (`dispatch_schedule.go:75-84`). A Run that never got a row stays first; enough
  Runs of a kind without workers keep all others out.
* `normalizeWorkerRegistration`
  (`worker_repository.go:292`, `Registrable` in `Dispatch`) refuses a registration that names any kind but
  `mock`. The worker program sends `mock` and `container` when it runs with docker or
  kubernetes, as the deployment guide describes
  (`docs/部署/本地开发与配置.md:858`), and would not get a session.

## Proofs

Each theorem holds for every value of the constants; the run that checks the same definition
shows it on a small instance, and shows that a plausible error in the code would break it.

| module | theorem | states |
|---|---|---|
| `DispatchProofs` | `TypeCorrect` | `TypeOK` |
| | `DependenciesRespected` | `DependencyInv` |
| | `HistoriesSound` | `HistoryInv` |
| | `RunsSettleCorrectly` | `SettlementInv` |
| | `CancellationBars` | `CancelBarrier` (action property) |
| | `OutcomesFinal` | `ResultsAreFinal` (action property) |
| | `ContractImplemented` | `ImplementsContract` (refinement) |
| | `OwnershipHolds` | `OwnershipInv` |
| | `CoordinatorProceeds` | `CoordinatorNeverFails` |
| | `LeasesHeld` | `LeaseInv` |
| | `LimitsHold` | `CapacityInv`, for any number of overlapping coordinators |
| `EngineProofs` | `EngineRows` | `RowsMatchMemory` |
| | `EngineStoreFinal` | `StoreFinal` (action property) |
| | `EngineLaunchOnce` | `LaunchOnce` (action property) |
| | `EngineLoop` | `LoopInv` |
| | `EngineStored` | `StoredInv` |
| | `EngineNoFailure` | `EngineNeverFails` |
| | `EngineContract` | `ImplementsLateContract` (refinement) |
| `RowLocksProofs` | `NoUpdateLost` | `NoLostUpdate` |
| | `CirclesNeedLeases` | `CyclesNeedTwoLeases` |
| | `OneSlotNoCircle` | `NoCircularWait`, if `MaxConcurrency` is 1 |
| `ServerProofs` | `CoordinatorSafe` | `CoordinatorInv` |
| `WorkerRuntimeProofs` | `EndsInOrder` | `ProcessInv` |
| | `SlotsSuffice` | `SlotBound` |
| | `CoveredByMargin` | `ExecutionCovered`, if `Skew` and `MaxDelay` are at most `SafetyMargin` |
| `AgentProofs` | `BudgetKept` | `BudgetInv` |
| | `AuditComplete` | `AuditInv` |
| | `OnlyReviewedConfirmed` | `ConfirmedReviewed` |
| `CreationProofs` | `AnswersHold` | `AnswersAgree` |
| | `RefusalsHold` | `RefusalsExplained` |
| | `TablesConsistent` | `TablesInv` |
| | `CacheHolds` | `CacheAgrees` |
| | `RequestsProceed` | `NoStall` |

### Dispatch: the Runs

The first four theorems follow from one inductive invariant, `DispatchInv`: the types, and for
every Run `Sound`, which is the conjunction of the four parts of `SnapshotInv` (exact
counters, dependency order, attempt history, status) and that no error is
stored. No part is inductive alone: that a released task's dependencies have
succeeded needs the exact counter; the counter can be exact only because a
running task is not yet succeeded, which is part of the history; that skipping
is always a legal transition needs the order (a descendant of a running task is
still waiting); the verdict needs all of them. What the dispatch rows say is
not needed, because every transaction checks the task again under the Run's lock.

`WorkflowStateProofs` has one lemma per operation of the state rules
(`QueueTaskSound`, `StartQueuedSound`, `EndAttemptsSound`, `SucceedSound`,
`FailPermanentlySound`, `CancelSound`, ...): a sound snapshot stays sound when the
operation is not refused. `OpenRunNeverStuck` uses acyclicity: the waiting tasks of an open
Run contain one that depends on none of them, so its unfinished dependency can
move. `DispatchProofs` lifts them, one lemma per action.

The action properties and the refinement rest on one classification. `EveryStep` shows that
whatever transaction is taken, a Run changes in one of six ways (`RunStep`): not at all, by time,
by rescheduling, by starting attempts, by ending attempts, or by cancellation. `StepsKeep`
reads off that nothing ended is rewritten and that a recorded cancellation bars starts and
successes. `StepRefines` maps each way to a step of `WorkflowContract`, which is not aware of
the batches: that the tasks skipped in one transaction are exactly those the contract skips
needs the closure of the failed tasks under dependency, and acyclicity for the order.

### Dispatch: the rows

`RowsInv` adds to `DispatchInv` what each task and its rows say of each other (`TaskRows`): at most
one active row, pending exactly for a queued task and leased for the running attempt it
names, each attempt started by one row, a closed row in agreement with the end of its
attempt. `OwnershipInv` and `CoordinatorNeverFails` follow. The converse parts (a queued task has a
row) are what makes it inductive: a scan inserts only for tasks that are ready, so two
active rows would need a task that is queued and ready at once. `LeaseInv` is inductive together with
`RowsInv`, and so are the slots: a claim fits because it counts the leases under the lock of the session.

The other two limits are counted in one step and used in a later one, and another coordinator may
commit rows in between, so `CapacityInv` says too little about a moment between the two. `OverlapInv`
says for every set of scans that have counted: what is active, without the orphaned rows these
scans are going to close, together with the places they have counted on, fits the bound; and likewise for
a Run its tasks in flight and the scans that chose it. It has to be every set, because a scan
that rolls back leaves the set and its orphaned rows stay. A scan that commits turns its places
into rows, and counts again only against all that is there. Nobody else touches the rows a scan has listed
and counted out, since it holds the locks of their Runs. With one coordinator the bounds are the limits.

### Engine

`EngineInv` says which snapshot the rows hold: they load without an error and are exactly the rows of
what they load (`Kept`); a goroutine with the latest revision has that snapshot in memory; it executes
only a Run without a cancellation request, resumes only an open one, and meets a Run that has ended in
its loop only with nothing left to start. It does not ask the Run to be sound. `Follows` is enough:
whatever snapshot the state rules are given, they leave what has ended alone and only add
attempts. `ChangeApplied` is the lemma about change sets: applied to the rows of one snapshot, the difference to
a snapshot that follows it gives the rows of the other, and `LoadInserted` says that rows load as what
was inserted. `EngineRows`, `EngineStoreFinal` and `EngineLaunchOnce` need nothing else.

`EngineLoop` adds `LoopKnows`. Its parts on a snapshot (`Sane`: a running task has a running attempt, a
waiting one had an attempt, a pending Run runs nothing) make sure that an event of an active attempt
applies; without them the loop could drop the key of an attempt that goes on. They have to
hold of the stored Run too, which a goroutine may load at any time. `Tracks` is what
`LoopInv` says of the work. `Stale` says why a copy is old: a recorded cancellation, or a write whose
answer was an error, after which `faults` is positive and the goroutine executes no more.
`EndsBy` is the common description of results, time-outs, retries and the Resume: the tasks concerned stop
running and nothing else starts, ends or gets another retry time.

`EngineStored` and `EngineNoFailure` follow from a third layer, `StoredKnows`, inductive together with the other two
(`EngineGood`). The stored Run need not satisfy `SnapshotInv`: a Resume that fails the last attempt of a
task loses the counters of the tasks skipped behind it (`engine_resume`), and leaves the
settlement to the loop. `Usable` is what remains: dependency order, attempt histories, the counters of
tasks that have not ended, and a verdict that may be late but not wrong. The lemmas of `WorkflowStateProofs` reach
it through `Recounted`, the same Run with the counters it should have: every operation
but a success treats two Runs that differ in their counters alike (`Alike`), and a success
reads only counters of tasks that wait. `Resting` adds what `validateAttemptHistoryForResume`
asks for (retry times, the histories of failed tasks), so recovery refuses nothing an earlier step
stored except a lost counter. The rest ties the goroutine to the rows: it executes the stored Run itself,
it waits only when nothing can start, and a recorded cancellation decides the verdict.

`EngineContract` needs no further invariant. `Turns` says what a write does to an open Run: nothing,
or the Run goes on (`GoesOn`: it is not canceled, and no task that waits for another one gets an attempt),
or it is canceled with all that is open (`IsDropped`). Which tasks are skipped, that those which end had
their dependencies, and the verdict are not followed through the code of each write: the stored Run is
`Usable` before and after, and its dependency order and attempt histories decide them. That a write
which skips also ends a task is where acyclicity comes in: a skipped task that depends on no
other one skipped in this write needs a task that failed in it.

### Row locks

`LocksInv` says of each open transaction which Runs it has locked, or still has in its queue,
before it loads them. The last part, that nobody is overtaken, is `NoLostUpdate`, and needs
the others. It justifies that `Dispatch` takes a transaction as one step.

`WaitsInv` is the order in which the rows are taken. All but heartbeats hold, or ask first for, the Run of
every dispatch row they hold or ask for; who asks for a Run holds nothing, or is the scan that returns
orphans; only the scan asks for sessions, before it has a Run or a row; a heartbeat has no Run.
`CirclesNeedLeases` follows the chain of blockers
from any member of a circle: within three steps it meets a heartbeat that holds the row of a
lease. That the members of a circle have blockers that are members again needs the
definition of `Blockers`, a recursive function that walks as many steps as there are clients;
`BlockersReach` unfolds it by induction over the number of steps, and a set that grows at each of them
cannot outgrow the finite set of clients. `OneSlotNoCircle` adds `SingleLease`: a claim begins without
a lease and takes one, so a heartbeat that waits for a lease row holds no other. The
disagreement `row_locks_cycle` needs two slots.

### Server

`ServerInv` relates the fields of one process (a live coordinator has both loops and is ready;
a loop keeps the connection of the lock) and says that the database and the processes
agree on the holder.

### Worker

Three inductive invariants, each over the types. `SlotsInv`: what was asked for, or granted and not
started, fits into the free slots. `ControlInv`: a process nobody told to stop leaves only once its
session is gone, and then no drain succeeds; the heartbeat goroutine has reported before
it ends; once the executors were waited for none is left. `TimesInv`: the timer, a renewal
in the box and one on its way are each no later than the lease ends at the control plane.
The last needs the hypothesis on the margin. It is not an assumption of the module,
because nothing in the code enforces it: the client has no time-out (see above).

### Drafts

`GenerationInv` describes a session before and after its end, with the counts of the audit trail:
turns used, calls recorded, an answer that is still to be recorded, a tool under way. `DraftsInv` says
that a hash whose status asks for confirmation was given by a validation, wherever the draft
was copied. A draft edited after its review keeps the old hash, which then does not agree.

### Creation

`CreationInv`: the tables among themselves (`RowsInv`: every record is backed by a row and every
row has one record, versions without a gap), each handler against the tables
(`HandlersInv`: what it read is still true where its lock protects it, and its answer is explained by
committed rows; a definition it is going to write or to compare is the one that was sent or the one
stored, up to the database's spelling), two handlers against each other (`LocksInv`: different keys while they hold one,
different workflows while they number a version, different resources at the commit), and the
cache. A handler's reservation stays fresh only because of the locks, and a commit
keeps the tables only because the reservation is fresh. `NoStall` follows from
the order of the phases.

### Assumptions

`DefinitionAssumption` and `AcyclicAssumption` (what `Compile` checks), `DispatchAssumption` (positive limits,
known executor kinds, finite sets), `RowLocksAssumption` (finite tables, no row in two of them), `RequestAssumption` (requests the handlers accept), `JSONBAssumption` (the database keeps its own spelling),
`AgentAssumption` (positive budgets; `None` is not a value) and their like in the other modules; each is
evaluated by TLC on every run.

### Only model-checked

* Liveness (`CancelSettles`, `RunsSettle`, `ProcessEnds`, `ChangesScanned`, `ExitsOnStop`, `LostSessionStops`, `RunSettles`): fairness
  and `ENABLED` are beyond the prover.

## Not modelled

* HTTP API, worker protocol, CLI, client library: parsing, authentication and transport. What
  can happen to a request on the way is in the unconstrained callers of `Dispatch` and in
  the handlers of `Creation`, `Server` and `Agent`.
* Alerting: it reads counters and posts notifications, and a failed delivery is logged. Its
  rules are a function of one snapshot and the rule's last state, run by one goroutine.
* Executors: calls to Docker and Kubernetes. An executor of the models returns anything at any
  time or never.
* Compiler: a pure function. Its result is a constant with assumptions.
* Local Run coordinator with several Runs (`internal/runtime`): its reservations. The server
  does not start it any more.
* Migrations, read queries, metrics, tracing, configuration, web console: they decide nothing
  about a Run.

## Plan

1. Done: the state rules, `Dispatch`, the contract and the four theorems; `Engine`,
   `ChangeSets`, `WorkerRuntime`, `Creation`; row locks; the life cycle of the server; drafts.
2. Done: proofs of every safety property of `Dispatch`, `Engine`, `Server`, `WorkerRuntime`, `Agent` and `Creation`,
   of both refinements, and of both properties of `RowLocks`.
3. Left to model: the composition of `WorkerRuntime` with `Dispatch`; the order of the candidate query.
