-------------------------------- MODULE Engine --------------------------------
(***************************************************************************)
(* The local Engine executing one Run (workflow/engine.go, recovery.go)    *)
(* against a store with a revision check (filestore, or the PostgreSQL     *)
(* repository).  One goroutine owns the Run: it loads the snapshot, starts *)
(* executors and handles their events one by one.  Around it run the       *)
(* executors, the timers, a store that records cancellation requests, and  *)
(* a process that is stopped, crashes and is started again.                *)
(*                                                                         *)
(* Every saveSnapshot is one step, with what the goroutine does up to its  *)
(* next save or receive.  Channels are not modelled: an event is received  *)
(* at any time after its sender was started, in any order, and stays       *)
(* possible after the attempt it belongs to has ended.                     *)
(***************************************************************************)
EXTENDS ChangeSets

CONSTANTS
    Concurrency,    \* the definition's concurrency
    MaxFaults       \* bound: crashes, shutdowns and storage errors

ASSUME EngineAssumption == Concurrency \in Nat \ {0} /\ MaxFaults \in Nat

VARIABLES
    store,      \* the persisted rows of the Run
    mem,        \* the goroutine's snapshot and the cancellation request in it
    fresh,      \* the copy has the revision of the store
    pc,         \* where the goroutine is; "idle" when the Run is not active
    stop,       \* the cause of runCtx: the first signal wins
    work,       \* the goroutine's running attempts, senders and timers
    faults

vars == <<store, mem, fresh, pc, stop, work, faults>>

-----------------------------------------------------------------------------
Local == "local"    \* attempts of the local Engine name no worker
Now == 1            \* clock readings; delays are in when timers fire

ExecutionKind == ResultKind \cup {"canceled"}

Loaded == [snap : Snapshot({Local}), cancel : BOOLEAN]

\* What a Load of the Run returns now.
persisted == loadSnapshot(store)

AttemptKey == Task \X Nat

(* active: activeAttempts; executors and timers: goroutines of executeTask   *)
(* whose completion or timeout was not received; retries: scheduleRetry.     *)
Work == [active    : SUBSET AttemptKey,
         executors : SUBSET AttemptKey,
         timers    : SUBSET AttemptKey,
         retries   : SUBSET (AttemptKey \X Int)]

NoWork == [active |-> {}, executors |-> {}, timers |-> {}, retries |-> {}]

PC == {"idle", "execute", "resume", "prepare", "enter", "start", "loop",
       "finalize", "finalizeAgain", "settle", "settleAgain", "failed", "down"}

(* Types of the variables; an attempt key is known to the goroutine only     *)
(* while the Run is being executed.                                          *)
TypeOK ==
    /\ persisted \in Loaded
    /\ mem \in Loaded
    /\ fresh \in BOOLEAN
    /\ pc \in PC
    /\ stop \in {"none", "business", "shutdown"}
    /\ work \in Work
    /\ work # NoWork => pc \in {"start", "loop"}
    /\ faults \in 0..MaxFaults

Init ==
    /\ mem = [snap |-> newRunSnapshot, cancel |-> FALSE]
    /\ store = insertSnapshot(mem)
    /\ fresh = TRUE
    /\ pc = "idle"
    /\ stop = "none"
    /\ work = NoWork
    /\ faults = 0

Ended == store.run.status \in WorkflowTerminal
Terminal(x) == x.snap.status \in WorkflowTerminal
Stopped == stop # "none"
InLoop == pc \in {"start", "loop"}

(* stoppedRunResult: a business stop is settled, a shutdown just returns.    *)
(* A conflict that finalizeCancellation reports is reconciled once more when *)
(* it comes out of executeSnapshot ("finalize"), not otherwise ("settle").   *)
Proceed(next) ==
    CASE stop = "none" -> next
      [] stop = "business" ->
           IF pc \in {"execute", "resume", "prepare"} THEN "settle" ELSE "finalize"
      [] stop = "shutdown" -> "idle"

-----------------------------------------------------------------------------
(* saveSnapshot and what the goroutine does with each answer of Apply.       *)

Saved(s) == [mem EXCEPT !.snap = s]

\* What saveSnapshot sends, and whether the store accepts it.
Change(s) == changeSetFromSnapshots(mem, Saved(s))
Acceptable(s) == ValidChange(store, Change(s))

\* Faulty variant: Apply does not compare revisions.
Commit_Blind(s) == /\ Acceptable(s)
                   /\ store' = applyChangeSet(store, Change(s))
                   /\ mem' = Saved(s)
                   /\ fresh' = TRUE

Commit(s) == /\ fresh /\ Acceptable(s)
             /\ store' = applyChangeSet(store, Change(s))
             /\ mem' = Saved(s)
             /\ fresh' = TRUE

(* ErrRevisionConflict.  A stopped goroutine goes on as stopped; otherwise   *)
(* reconcilePersistedCancellation reads the store again and settles the      *)
(* cancellation it finds there.                                              *)
Conflict ==
    /\ ~fresh
    /\ IF ~Stopped /\ store.run.cancel
       THEN mem' = persisted /\ fresh' = TRUE
       ELSE UNCHANGED <<mem, fresh>>
    /\ pc' = Proceed(IF store.run.cancel THEN "settle" ELSE "failed")
    /\ work' = NoWork
    /\ UNCHANGED <<store, stop, faults>>

\* Any other error: ErrInvalidChangeSet, or a failure of the storage, after
\* which the change may have been written all the same.
StorageError(s) ==
    /\ IF fresh /\ ~Acceptable(s) THEN UNCHANGED <<store, fresh, faults>>
       ELSE /\ faults < MaxFaults
            /\ faults' = faults + 1
            /\ \/ UNCHANGED <<store, fresh>>
               \/ fresh /\ store' = applyChangeSet(store, Change(s)) /\ fresh' = FALSE
    /\ work' = NoWork
    /\ UNCHANGED <<mem, stop>>

\* Save the candidate; on success go on at next with the work w.
Save(candidate, next, w) ==
    \E s \in {candidate} :
        \/ Commit(s) /\ pc' = next /\ work' = w /\ UNCHANGED <<stop, faults>>
        \/ Conflict
        \/ StorageError(s) /\ pc' = Proceed("down")

-----------------------------------------------------------------------------
(* Execute and Resume: register the Run, load it, decide.  The coordinator   *)
(* uses Execute for a Run that has never run and Resume for every other one. *)

Begin ==
    /\ pc = "idle"
    /\ stop # "shutdown"
    /\ ~Ended
    /\ \/ pc' = "resume"
       \/ pc' = "execute" /\ store.run.status = "pending"
    /\ stop' = "none"
    /\ UNCHANGED <<store, mem, fresh, work, faults>>

\* Faulty variant: a cancellation recorded earlier is not looked at.
LoadRun_IgnoresCancel ==
    /\ pc \in {"execute", "resume"}
    /\ mem' = persisted
    /\ fresh' = TRUE
    /\ pc' = IF persisted.snap.err THEN "failed"
             ELSE IF Ended THEN "idle"
             ELSE Proceed(IF pc = "execute" THEN "enter" ELSE "prepare")
    /\ UNCHANGED <<store, stop, work, faults>>

LoadRun ==
    /\ pc \in {"execute", "resume"}
    /\ mem' = persisted
    /\ fresh' = TRUE
    /\ pc' = IF persisted.snap.err THEN "failed"
             ELSE IF Ended THEN "idle"
             ELSE IF store.run.cancel THEN "settle"
             ELSE Proceed(IF pc = "execute" THEN "enter" ELSE "prepare")
    /\ UNCHANGED <<store, stop, work, faults>>

\* Faulty variant: only a failed attempt may end a failed task.
validAttemptHistory_FailedOnly(s, t) ==
    s.task[t] = "failed" => s.attempts[t][Len(s.attempts[t])].status = "failed"

(* validateAttemptHistoryForResume.                                          *)
validAttemptHistory(s, t) ==
    LET a == s.attempts[t]
        n == Len(a)
        Last(S) == n > 0 /\ a[n].status \in S
        More == n < MaxAttempts[t]
    IN
    /\ s.task[t] # "waiting_retry" => s.readyAt[t] = 0
    /\ n <= MaxAttempts[t]
    /\ CASE s.task[t] \in {"waiting_dependencies", "skipped"} -> n = 0
         [] s.task[t] = "ready" -> More /\ (n = 0 \/ Last(RetryableEnd))
         [] s.task[t] = "running" -> Last({"running"})
         [] s.task[t] = "waiting_retry" -> More /\ Last(RetryableEnd)
         [] s.task[t] = "succeeded" -> Last({"succeeded"})
         [] s.task[t] = "failed" -> Last({"failed"})
                                    \/ (Last({"timed_out", "interrupted"}) /\ ~More)
         [] s.task[t] = "canceled" -> n = 0 \/ Last(RetryableEnd \cup {"canceled"})
         [] OTHER -> FALSE
    /\ \A i \in 1..n :
          /\ a[i].status = "running" => i = n /\ s.task[t] = "running"
          /\ i < n => a[i].status \in RetryableEnd

Blocked == {"failed", "canceled", "skipped"}

blockedSources(s) == {t \in Task : s.task[t] \in Blocked}

\* Faulty variant: a dependency that waits for its retry is not counted.
Outstanding_Waiting(s, t) == {u \in Deps[t] : s.task[u] = "waiting_dependencies"}

\* The dependencies counted for a task: none for a task that has ended.
Outstanding(s, t) ==
    IF s.task[t] \in TaskTerminal THEN {}
    ELSE {u \in Deps[t] : s.task[u] \notin TaskTerminal}

(* prepareForResume: running attempts are interrupted, failures are spread   *)
(* to the tasks behind them, counters are rebuilt from the task states.  The *)
(* Run itself is not settled here.                                           *)
\* Running attempts are interrupted; their tasks wait for a retry or fail.
interruptRunning(s) ==
    LET running == {t \in Task : s.task[t] = "running"}
        again == RetriesLeft(s, running)
        ended == transitionAttempts(s, running, [t \in running |-> "interrupted"])
        waiting == transitionTasks(ended, again, "waiting_retry")
        timed == [waiting EXCEPT !.readyAt =
                    [t \in Task |-> IF t \in again THEN Now ELSE waiting.readyAt[t]]]
    IN  transitionTasks(timed, running \ again, "failed")

\* Tasks behind one that cannot succeed are skipped, counters are rebuilt.
rebuildDependencies(failed) ==
    LET skipped == skipDescendantsFrom(failed, blockedSources(failed))
    IN  [skipped EXCEPT !.remaining =
            [t \in Task |-> Cardinality(Outstanding(skipped, t))]]

prepareForResume(s, counted) ==
    LET behind == {t \in Task : /\ counted.task[t] \notin TaskTerminal
                                /\ \E u \in Deps[t] : counted.task[u] \in Blocked}
        closed == transitionTasks(counted, behind, "skipped")
        released == {t \in Task : /\ closed.task[t] = "waiting_dependencies"
                                  /\ closed.remaining[t] = 0}
    IN  IF /\ \A t \in Task : validAttemptHistory(s, t)
           /\ \A t \in Task : closed.task[t] \in {"ready", "waiting_retry"}
                                  => closed.remaining[t] = 0
        THEN transitionTasks(closed, released, "ready")
        ELSE Reject(closed)

Prepare ==
    /\ pc = "prepare"
    /\ \E failed \in {interruptRunning(mem.snap)} :
       \E counted \in {rebuildDependencies(failed)} :
       \E s \in {prepareForResume(mem.snap, counted)} :
         IF s.err
         THEN pc' = "failed" /\ UNCHANGED <<store, mem, fresh, stop, work, faults>>
         ELSE Save(s, Proceed("enter"), NoWork)

-----------------------------------------------------------------------------
(* executeSnapshot.                                                          *)

\* scheduleRetry: the timer carries the attempt it was set for.
RetryTimer(s, t) == <<<<t, Len(s.attempts[t])>>, s.readyAt[t]>>

\* Faulty variant: no timer is set.
RetryTimers_None(s, T) == {}

RetryTimers(s, T) == {RetryTimer(s, t) : t \in {u \in T : s.task[u] = "waiting_retry"}}

\* The Run becomes running; timers of a resumed Run are set again.
Enter ==
    LET w == [NoWork EXCEPT !.retries = RetryTimers(mem.snap, Task)] IN
    /\ pc = "enter"
    /\ IF mem.snap.status = "pending"
       THEN Save(transitionWorkflow(mem.snap, "running"), Proceed("start"),
                 IF Stopped THEN NoWork ELSE w)
       ELSE /\ pc' = "start" /\ work' = w
            /\ UNCHANGED <<store, mem, fresh, stop, faults>>

Ready == {t \in Task : mem.snap.task[t] = "ready"}
FirstReady == CHOOSE t \in Ready : \A u \in Ready : t <= u

\* Faulty variant: the number of the attempt is not advanced.
prepareTask_SameNumber(s, t) ==
    IF s.attempts[t] = <<>> THEN StartQueuedAttempts(s, {t}, [x \in {t} |-> Local])
    ELSE [transitionTasks(s, {t}, "running") EXCEPT
            !.attempts[t][Len(s.attempts[t])].status = "running"]

\* prepareTask: the same state change as a claim, without a worker.
prepareTask(s, t) == StartQueuedAttempts(s, {t}, [x \in {t} |-> Local])

SlotFree == Cardinality(work.active) < Concurrency

(* startReadyTasks.  The attempt is saved before its executor starts; a stop *)
(* seen after the save leaves it without executor.                           *)
StartTask ==
    LET t == FirstReady
        s == prepareTask(mem.snap, t)
        key == <<t, Len(s.attempts[t])>>
    IN
    /\ pc = "start"
    /\ Ready # {}
    /\ SlotFree
    /\ IF s.err
       THEN pc' = "failed" /\ work' = NoWork /\ UNCHANGED <<store, mem, fresh, stop, faults>>
       ELSE Save(s, Proceed("start"),
                 IF Stopped THEN NoWork
                 ELSE [work EXCEPT !.active = @ \cup {key},
                                   !.executors = @ \cup {key},
                                   !.timers = @ \cup {key}])

AllStarted ==
    /\ pc = "start"
    /\ Ready = {} \/ ~SlotFree
    /\ ~Stopped
    /\ pc' = "loop"
    /\ UNCHANGED <<store, mem, fresh, stop, work, faults>>

StopNoticed ==
    /\ InLoop
    /\ Stopped
    /\ pc' = Proceed(pc)
    /\ work' = NoWork
    /\ UNCHANGED <<store, mem, fresh, stop, faults>>

\* The goroutine waits for an event: something runs or waits for its retry.
Receiving ==
    /\ pc = "loop"
    /\ ~Stopped

HasWaitingRetry == \E t \in Task : mem.snap.task[t] = "waiting_retry"

(* Store the new state of task t; its timer is set only after the save.  An  *)
(* event that does not apply to the snapshot changes nothing.                *)
Apply(applied, candidate, t, w) ==
    IF ~applied
    THEN pc' = "start" /\ work' = w /\ UNCHANGED <<store, mem, fresh, stop, faults>>
    ELSE \E s \in {candidate} :
           IF s.err
           THEN pc' = "failed" /\ work' = NoWork /\ UNCHANGED <<store, mem, fresh, stop, faults>>
           ELSE Save(s, "start", [w EXCEPT !.retries = @ \cup RetryTimers(s, {t})])

\* finishActiveAttempt: the first event of an attempt ends it.
IsActive(key) == key \in work.active

Completion(key, kind) ==
    LET w == [work EXCEPT !.active = @ \ {key}, !.executors = @ \ {key}] IN
    /\ Receiving
    /\ work.active # {}
    /\ key \in work.executors
    /\ IF ~IsActive(key)
       THEN work' = w /\ UNCHANGED <<store, mem, fresh, pc, stop, faults>>
       ELSE IF kind = "canceled"
       THEN /\ stop' = "business" /\ pc' = "finalize" /\ work' = NoWork
            /\ UNCHANGED <<store, mem, fresh, faults>>
       ELSE Apply(activeAttempt(mem.snap, key[1], key[2]),
                  ApplyAttemptResult(mem.snap, key[1], kind, Now), key[1], w)

TimedOut(key) ==
    LET w == [work EXCEPT !.active = @ \ {key}, !.timers = @ \ {key}]
        t == key[1]
    IN
    /\ Receiving
    /\ work.active # {}
    /\ key \in work.timers
    /\ IF ~IsActive(key)
       THEN work' = w /\ UNCHANGED <<store, mem, fresh, pc, stop, faults>>
       ELSE Apply(activeAttempt(mem.snap, t, key[2]),
                  EndAttempts(mem.snap, {t}, [x \in {t} |-> "timed_out"], Now), t, w)

(* A retry timer fired: the task is released if it still waits for this very *)
(* attempt's retry.                                                          *)
RetryFired(timer) ==
    LET t == timer[1][1]
        w == [work EXCEPT !.retries = @ \ {timer}]
    IN
    /\ Receiving
    /\ work.active # {} \/ HasWaitingRetry
    /\ timer \in work.retries
    /\ Apply(retryDue(mem.snap, t, timer[2]) /\ Len(mem.snap.attempts[t]) = timer[1][2],
             MakeRetryReady(mem.snap, t), t, w)

(* The loop ends when nothing runs or waits.  Usually the last result has    *)
(* settled the Run; after a Resume that ended every task it is settled here. *)
Leave ==
    LET status == IF \E t \in Task : mem.snap.task[t] = "failed" THEN "failed"
                  ELSE "succeeded"
    IN
    /\ Receiving
    /\ work.active = {}
    /\ ~HasWaitingRetry
    /\ IF Terminal(mem)
       THEN pc' = "idle" /\ work' = NoWork /\ UNCHANGED <<store, mem, fresh, stop, faults>>
       ELSE IF status = "succeeded" /\ \E t \in Task : mem.snap.task[t] # "succeeded"
       THEN pc' = "failed" /\ work' = NoWork /\ UNCHANGED <<store, mem, fresh, stop, faults>>
       ELSE Save(transitionWorkflow(mem.snap, status), "idle", NoWork)

-----------------------------------------------------------------------------
(* finalizeCancellation: two tries, the second on the reloaded snapshot, and *)
(* two more by reconcilePersistedCancellation if the first two failed inside *)
(* executeSnapshot.                                                          *)

Finalize ==
    /\ pc \in {"finalize", "finalizeAgain", "settle", "settleAgain"}
    /\ \/ /\ Terminal(mem)
          /\ pc' = "idle"
          /\ UNCHANGED <<store, mem, fresh, stop, work, faults>>
       \/ /\ ~Terminal(mem)
          /\ \E s \in {CancelRunSnapshot(mem.snap)} :
               \/ /\ s.err
                  /\ pc' = "failed"
                  /\ UNCHANGED <<store, mem, fresh, stop, work, faults>>
               \/ /\ ~s.err
                  /\ Commit(s)
                  /\ pc' = "idle"
                  /\ UNCHANGED <<stop, work, faults>>
               \/ /\ ~s.err /\ ~fresh
                  /\ IF pc = "settleAgain" \/ (pc = "finalizeAgain" /\ ~store.run.cancel)
                     THEN UNCHANGED <<mem, fresh>> /\ pc' = "down"
                     ELSE /\ mem' = persisted /\ fresh' = TRUE
                          /\ pc' = CASE pc = "finalize" -> "finalizeAgain"
                                     [] pc = "settle" -> "settleAgain"
                                     [] pc = "finalizeAgain" -> "settle"
                  /\ UNCHANGED <<store, stop, work, faults>>
               \/ /\ ~s.err
                  /\ StorageError(s)
                  /\ pc' = "down"

-----------------------------------------------------------------------------
(* Around the goroutine.                                                     *)

\* Engine.Cancel of an active Run only signals its goroutine.
CancelActive ==
    /\ pc \notin {"idle", "failed", "down"}
    /\ ~Stopped
    /\ stop' = "business"
    /\ UNCHANGED <<store, mem, fresh, pc, work, faults>>

canceledRun == [persisted EXCEPT !.snap = CancelRunSnapshot(@)]

\* Faulty variant: the Engine's lock does not exclude a Run being loaded.
CancelIdle_Unlocked ==
    /\ pc \in {"idle", "prepare", "enter"}
    /\ stop # "shutdown"
    /\ ~Ended
    /\ ~canceledRun.snap.err
    /\ store' = applyChangeSet(store, changeSetFromSnapshots(persisted, canceledRun))
    /\ fresh' = FALSE
    /\ UNCHANGED <<mem, pc, stop, work, faults>>

\* Engine.Cancel of a Run nobody executes settles it under the Engine's lock.
CancelIdle ==
    /\ pc = "idle"
    /\ stop # "shutdown"
    /\ ~Ended
    /\ ~canceledRun.snap.err
    /\ store' = applyChangeSet(store, changeSetFromSnapshots(persisted, canceledRun))
    /\ UNCHANGED <<mem, fresh, pc, stop, work, faults>>

\* RequestCancel of the store: the revision moves on under the goroutine.
RequestCancel ==
    /\ ~Ended
    /\ ~store.run.cancel
    /\ store' = [store EXCEPT !.run.cancel = TRUE]
    /\ fresh' = FALSE
    /\ UNCHANGED <<mem, pc, stop, work, faults>>

\* The parent context ends: the coordinator closes or has failed.
Shutdown ==
    /\ faults < MaxFaults
    /\ faults' = faults + 1
    /\ stop = "none"
    /\ pc \notin {"failed", "down"}
    /\ stop' = "shutdown"
    /\ UNCHANGED <<store, mem, fresh, pc, work>>

Crash ==
    /\ faults < MaxFaults
    /\ faults' = faults + 1
    /\ pc # "down"
    /\ pc' = "down"
    /\ work' = NoWork
    /\ UNCHANGED <<store, mem, fresh, stop>>

\* The process is started again; an error of a Run ends the process too.
Restart ==
    /\ pc \in {"failed", "down"} \/ (pc = "idle" /\ stop = "shutdown")
    /\ pc' = "idle"
    /\ stop' = "none"
    /\ UNCHANGED <<store, mem, fresh, work, faults>>

-----------------------------------------------------------------------------
Step ==
    \/ Begin \/ LoadRun \/ Prepare \/ Enter \/ StartTask \/ AllStarted \/ StopNoticed
    \/ \E key \in work.timers : TimedOut(key)
    \/ \E timer \in work.retries : RetryFired(timer)
    \/ Leave \/ Finalize \/ Restart

Next ==
    \/ Step
    \/ \E key \in work.executors, kind \in ExecutionKind : Completion(key, kind)
    \/ CancelActive \/ CancelIdle \/ RequestCancel \/ Shutdown \/ Crash

Spec == Init /\ [][Next]_vars

(* The goroutine runs, its timers fire, and a process that stopped is        *)
(* started again and resumes what it finds.  Executors need not return.      *)
FairSpec == Spec /\ WF_vars(Step)

-----------------------------------------------------------------------------
(* Safety.                                                                   *)

(* Across crashes, resumes and lost results the stored Run respects its      *)
(* dependencies and attempt limits, the counters that release tasks are      *)
(* exact, and a verdict is the one its tasks deserve, or canceled if a       *)
(* cancellation was recorded while the Run was open.                         *)
StoredInv ==
    LET s == persisted.snap IN
    /\ TypeOK
    /\ DependencyOrder(s)
    /\ AttemptHistory(s)
    /\ \A t \in Task : s.task[t] = "waiting_dependencies" =>
          s.remaining[t] = Cardinality(Unsucceeded(s, t))
    /\ s.status = "succeeded" => \A t \in Task : s.task[t] = "succeeded"
    /\ s.status = "failed" => \E t \in Task : s.task[t] = "failed"
    /\ s.status \in WorkflowTerminal => \A t \in Task : s.task[t] \in TaskTerminal
    /\ persisted.cancel /\ Ended => s.status = "canceled"

(* The event loop knows what it is doing: its active attempts are exactly    *)
(* the running ones of its snapshot, each with a timer that will end it, and *)
(* every task that waits for a retry has the timer that will release it.     *)
(* Only a recorded cancellation can move the revision under the goroutine    *)
(* (its own write whose answer was an error apart, after which it is on its  *)
(* way out), so a conflict always leaves reconcilePersistedCancellation a    *)
(* cancellation to settle, and without storage errors the second try of      *)
(* finalizeCancellation is the last.                                         *)
LoopInv ==
    /\ InLoop =>
        /\ work.active = {<<t, Len(mem.snap.attempts[t])>> :
                             t \in {u \in Task : mem.snap.task[u] = "running"}}
        /\ work.active \subseteq work.executors \cap work.timers
        /\ \A t \in Task : mem.snap.task[t] = "waiting_retry" =>
              <<<<t, Len(mem.snap.attempts[t])>>, mem.snap.readyAt[t]>> \in work.retries
        /\ Cardinality(work.active) <= Concurrency
    /\ ~fresh =>
        /\ pc \in {"prepare", "enter", "start", "loop", "finalizeAgain", "settleAgain"} =>
              store.run.cancel
        /\ pc = "settleAgain" => faults > 0

(* While the goroutine holds the latest revision, the rows it saved by and   *)
(* by, each time only those that changed, load as exactly its snapshot: no   *)
(* change set drops a counter, a retry time or an attempt                    *)
(* (changeSetFromSnapshots, applyChangeSetTx, loadSnapshot).                 *)
RowsMatchMemory ==
    fresh /\ pc \in {"prepare", "enter", "start", "loop", "finalize", "finalizeAgain",
                     "settle", "settleAgain"} => persisted = mem

(* RemainingDependencies[i] is the number of direct dependencies of task i   *)
(* that have not succeeded.                                                  *)
CountersExact == RemainingExact(persisted.snap)

(* The Engine stops its process over a Run it wrote itself only where a      *)
(* Resume has lost the counter of a skipped task (prepareForResume): its     *)
(* other consistency checks never refuse what an earlier step stored.        *)
EngineNeverFails == pc = "failed" => ~CountersExact

-----------------------------------------------------------------------------
(* Action properties.                                                        *)

(* An executor is started only for an attempt that this very step made       *)
(* durable, so over all crashes no attempt number is executed twice.         *)
LaunchOnce ==
    [][\A key \in work'.executors \ work.executors :
          key \notin DOMAIN store.attempts /\ key \in DOMAIN store'.attempts]_vars

(* What the store says has ended stays as it is, a recorded cancellation is  *)
(* never overwritten, and after it no attempt starts and no task succeeds.   *)
StoreFinal ==
    [][/\ Ended => store' = store
       /\ store.run.cancel =>
             store'.run.cancel /\ DOMAIN store'.attempts = DOMAIN store.attempts
       /\ \A t \in Task : store.tasks[t].status \in TaskTerminal =>
             store'.tasks[t].status = store.tasks[t].status
       /\ \A k \in DOMAIN store.attempts :
             /\ k \in DOMAIN store'.attempts
             /\ store.attempts[k].status # "running" =>
                   store'.attempts[k] = store.attempts[k]]_vars

(* What is stored changes as WorkflowContract says, whatever crashes, lost   *)
(* answers and resumes lie between two writes: tasks end only behind         *)
(* succeeded ones, the same write skips exactly what a failure dooms, a      *)
(* cancellation closes everything.  Only the verdict may come later: a       *)
(* Resume that ends the last task (prepareForResume) does not settle the     *)
(* Run.                                                                      *)
Contract ==
    INSTANCE WorkflowContract WITH
        Run <- {Local},
        outcome <- [r \in {Local} |-> [t \in Task |->
                      IF persisted.snap.task[t] \in TaskTerminal
                      THEN persisted.snap.task[t] ELSE "open"]],
        verdict <- [r \in {Local} |->
                      IF persisted.snap.status \in WorkflowTerminal
                      THEN persisted.snap.status ELSE "open"]

ImplementsLateContract == Contract!LateSpec

-----------------------------------------------------------------------------
(* Liveness, with finitely many faults.                                      *)

(* The Run is settled even if no executor ever returns.                      *)
RunSettles == <>Ended

(* A stop for business reasons, or a recorded cancellation, is settled: the  *)
(* one unless the process goes down first, the other in any case.            *)
CancelSettles ==
    /\ stop = "business" ~> (Ended \/ pc = "down")
    /\ store.run.cancel ~> store.run.status = "canceled"
=============================================================================
