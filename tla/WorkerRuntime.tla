---------------------------- MODULE WorkerRuntime ----------------------------
(***************************************************************************)
(* One worker process (workerruntime/runtime.go): the goroutine of Run,    *)
(* which polls, drains and exits, the heartbeat loop, and for every lease  *)
(* an executor goroutine and a timer, the local safety deadline.           *)
(*                                                                         *)
(* The control plane is reduced to the worker's session and the rows the   *)
(* worker may be given.  Requests and answers are lost at any time.  Time  *)
(* is discrete; every time is its distance from the database clock.        *)
(***************************************************************************)
EXTENDS Integers, FiniteSets

CONSTANTS
    MaxLeases,          \* bound: rows the control plane ever gives the worker
    MaxConcurrency,
    LeaseDuration,
    AttemptTimeout,
    SafetyMargin,
    Skew,               \* how far the worker's clock is behind the database's
    MaxDelay            \* from a heartbeat's transaction to its last effect

ASSUME WorkerAssumption ==
    /\ MaxLeases \in Nat
    /\ MaxConcurrency \in Nat \ {0}
    /\ LeaseDuration \in Nat \ {0}
    /\ AttemptTimeout \in Nat \ {0}
    /\ SafetyMargin \in Nat
    /\ Skew \in Nat
    /\ MaxDelay \in Nat

VARIABLES
    session,    \* status of the worker's row in worker_sessions
    row,        \* the rows of task_dispatches this worker may be given
    parent,     \* the process was told to stop
    poll,       \* pollCtx is alive
    run,        \* runCtx is alive
    main,       \* the goroutine of Run
    hb,         \* the heartbeat goroutine
    task        \* the goroutines of each lease

vars == <<session, row, parent, poll, run, main, hb, task>>

\* Dispatch ids, numbered in the order the rows are leased.
Lease == 1..MaxLeases

-----------------------------------------------------------------------------
Lower(a, b) == IF a <= b THEN a ELSE b

FreeRow == [status |-> "free", expires |-> 0, deadline |-> 0]
LeasedRow == [status |-> "leased", expires |-> Lower(LeaseDuration, AttemptTimeout),
              deadline |-> AttemptTimeout]

NoBox == [left |-> 0, age |-> 0]
NoTask == [at |-> "none", canceled |-> FALSE, timer |-> 0, renew |-> NoBox]
EndedTask == [NoTask EXCEPT !.at = "ended"]

\* Leases of leaseState.active, and those whose context is alive.
Active == {l \in Lease : task[l].at \in {"executing", "submitting"}}
Live(l) == l \in Active /\ ~task[l].canceled

MainAt == {"loop", "claim", "claimed", "refused", "wait", "left", "lost", "drain", "drained",
           "await", "join", "drainAgain", "drainedAgain", "finish", "exited"}
HeartbeatAt == {"tick", "call", "answered", "refused", "reported", "ended"}

(* A row of the control plane and the three kinds of goroutines.  Of the     *)
(* heartbeat's answer, left is the time it leaves each lease it names and    *)
(* age how old it is.                                                        *)
Row == [status : {"free", "leased", "closed"},
        expires : -1..LeaseDuration, deadline : -1..AttemptTimeout]
Process == [at : MainAt, ask : 0..MaxConcurrency, got : SUBSET Lease,
            drain : {"none", "draining", "stopped", "error"}, late : BOOLEAN,
            result : {"none", "ok", "error", "stopped"}]
Answers == UNION {[S -> 0..LeaseDuration] : S \in SUBSET Lease}
Heartbeat == [at : HeartbeatAt, left : Answers, age : 0..MaxDelay,
              done : {"no", "nil", "error"}]
Box == [left : 0..LeaseDuration, age : 0..MaxDelay]
Task == [at : {"none", "executing", "submitting", "ended"}, canceled : BOOLEAN, timer : Nat,
         renew : Box]

(* Types of the variables.  Contexts die in their order: runCtx never before *)
(* the goroutine that ends it has left its loop, and leases with it.         *)
TypeOK ==
    /\ session \in {"active", "draining", "stopped", "offline"}
    /\ row \in [Lease -> Row]
    /\ parent \in BOOLEAN /\ poll \in BOOLEAN /\ run \in BOOLEAN
    /\ main \in Process
    /\ hb \in Heartbeat
    /\ task \in [Lease -> Task]
    /\ \A l \in Lease : Live(l) => run

Init ==
    /\ session = "active"
    /\ row = [l \in Lease |-> FreeRow]
    /\ parent = FALSE
    /\ poll = TRUE
    /\ run = TRUE
    /\ main = [at |-> "loop", ask |-> 0, got |-> {}, drain |-> "none", late |-> FALSE,
               result |-> "none"]
    /\ hb = [at |-> "tick", left |-> [l \in {} |-> 0], age |-> 0, done |-> "no"]
    /\ task = [l \in Lease |-> NoTask]

\* Cancel the contexts of the leases S.
Canceled(S) ==
    [l \in Lease |-> IF l \in S \cap Active
                     THEN [task[l] EXCEPT !.canceled = TRUE, !.timer = 0, !.renew = NoBox]
                     ELSE task[l]]

\* stop(): runCtx and with it every lease.
StopRun == run' = FALSE /\ task' = Canceled(Lease)

-----------------------------------------------------------------------------
(* Run: polling.                                                             *)

\* Faulty variant: an execution that was canceled does not hold its slot.
Slots_Live == MaxConcurrency - Cardinality({l \in Lease : Live(l)})

Slots == MaxConcurrency - Cardinality(Active)

Loop ==
    /\ main.at = "loop"
    /\ main' = IF parent \/ ~run THEN [main EXCEPT !.at = "left"]
               ELSE IF Slots > 0 THEN [main EXCEPT !.at = "claim", !.ask = Slots]
               ELSE [main EXCEPT !.at = "wait"]
    /\ UNCHANGED <<session, row, parent, poll, run, hb, task>>

\* The control plane serves the claim.
ServeClaim ==
    /\ main.at = "claim"
    /\ \/ /\ session = "active"
          /\ \E S \in SUBSET {l \in Lease : row[l].status = "free"} :
                /\ \A l \in S, k \in Lease \ S : row[k].status = "free" => l < k
                /\ Cardinality(S) <= main.ask
                /\ Cardinality(S \cup {l \in Lease : row[l].status = "leased"}) <= MaxConcurrency
                /\ row' = [l \in Lease |-> IF l \in S THEN LeasedRow ELSE row[l]]
                /\ main' = [main EXCEPT !.at = "claimed", !.got = S]
       \/ /\ session \in {"stopped", "offline"}
          /\ main' = [main EXCEPT !.at = "refused"]
          /\ UNCHANGED row
    /\ UNCHANGED <<session, parent, poll, run, hb, task>>

\* Faulty variant: only the attempt's deadline counts.
localSafetyDelay_DeadlineOnly(l) == row[l].deadline + Skew - SafetyMargin

\* localSafetyDelay: times of the claim's answer against the worker's clock.
localSafetyDelay(l) == Lower(row[l].expires, row[l].deadline) + Skew - SafetyMargin

\* startLease for every lease of the answer.
StartLeases ==
    /\ main.at = "claimed"
    /\ main' = [main EXCEPT !.at = IF main.got = {} THEN "wait" ELSE "loop", !.got = {}, !.ask = 0]
    /\ task' = [l \in Lease |->
                  IF l \notin main.got THEN task[l]
                  ELSE IF ~run \/ localSafetyDelay(l) <= 0
                  THEN [NoTask EXCEPT !.at = "executing", !.canceled = TRUE]
                  ELSE [NoTask EXCEPT !.at = "executing", !.timer = localSafetyDelay(l)]]
    /\ UNCHANGED <<session, row, parent, poll, run, hb>>

\* The claim or its answer is lost, or pollCtx ends; a refusal may be lost too.
ClaimFails ==
    /\ main.at \in {"claim", "claimed", "refused"}
    /\ main' = [main EXCEPT !.at = "wait", !.got = {}, !.ask = 0]
    /\ UNCHANGED <<session, row, parent, poll, run, hb, task>>

\* The session is gone: a permanent error ends everything.
ClaimRefused ==
    /\ main.at = "refused"
    /\ poll' = FALSE
    /\ StopRun
    /\ main' = [main EXCEPT !.at = "lost", !.ask = 0]
    /\ UNCHANGED <<session, row, parent, hb>>

\* waitForCapacity: the delay, a freed slot, or the end of pollCtx.
WaitOver ==
    /\ main.at = "wait"
    /\ \/ main' = [main EXCEPT !.at = "loop"]
       \/ ~poll /\ main' = [main EXCEPT !.at = "left"]
    /\ UNCHANGED <<session, row, parent, poll, run, hb, task>>

-----------------------------------------------------------------------------
(* Run: leaving.  The heartbeat goroutine ends pollCtx before runCtx, so     *)
(* this goroutine can be here before it can tell why.                        *)

Left ==
    /\ main.at = "left"
    /\ \/ /\ ~parent /\ ~run
          /\ hb.done # "no"
          /\ main' = [main EXCEPT !.at = "lost"]
       \/ /\ parent \/ run
          /\ main' = [main EXCEPT !.at = "drain"]
    /\ UNCHANGED <<session, row, parent, poll, run, hb, task>>

\* Faulty variant: the executors are not waited for.
SessionLost_NoWait ==
    /\ main.at = "lost"
    /\ hb.done # "no"
    /\ StopRun
    /\ poll' = FALSE
    /\ main' = [main EXCEPT !.at = "exited", !.result = "error"]
    /\ UNCHANGED <<session, row, parent, hb>>

SessionLost ==
    /\ main.at = "lost"
    /\ \/ /\ run
          /\ StopRun
          /\ UNCHANGED <<poll, main>>
       \/ /\ ~run
          /\ Active = {}
          /\ hb.done # "no"
          /\ poll' = FALSE
          /\ main' = [main EXCEPT !.at = "exited", !.result = "error"]
          /\ UNCHANGED <<run, task>>
    /\ UNCHANGED <<session, row, parent, hb>>

\* DrainWorker: stopped once no row is leased.
DrainSession ==
    \/ /\ session \in {"active", "draining"}
       /\ session' = IF \E l \in Lease : row[l].status = "leased" THEN "draining" ELSE "stopped"
       /\ main' = [main EXCEPT !.drain = session',
                               !.at = IF @ = "drain" THEN "drained" ELSE "drainedAgain"]
    \/ /\ session \in {"stopped", "offline"}
       /\ main' = [main EXCEPT !.drain = "error",
                               !.at = IF @ = "drain" THEN "await" ELSE "finish"]
       /\ UNCHANGED session

ServeDrain ==
    /\ main.at \in {"drain", "drainAgain"}
    /\ DrainSession
    /\ UNCHANGED <<row, parent, poll, run, hb, task>>

\* The answer arrives, or the request or the answer does not.
Drained ==
    /\ \/ /\ main.at \in {"drained", "drainedAgain"}
          /\ main' = [main EXCEPT !.at = IF @ = "drained" THEN "await" ELSE "finish"]
       \/ /\ main.at \in {"drain", "drained"}
          /\ main' = [main EXCEPT !.at = "await", !.drain = "error"]
       \/ /\ main.at \in {"drainAgain", "drainedAgain"}
          /\ main' = [main EXCEPT !.at = "finish", !.drain = "error"]
    /\ UNCHANGED <<session, row, parent, poll, run, hb, task>>

\* ShutdownTimeout has passed since the drain began.
ShutdownExpires ==
    /\ main.at \in {"drain", "drained", "await", "join", "drainAgain", "drainedAgain"}
    /\ ~main.late
    /\ main' = [main EXCEPT !.late = TRUE]
    /\ UNCHANGED <<session, row, parent, poll, run, hb, task>>

\* Wait for the leases to finish; cancel them when the time is up.
Await ==
    /\ main.at = "await"
    /\ \/ Active = {} /\ UNCHANGED task
       \/ Active # {} /\ main.late /\ task' = Canceled(Lease)
    /\ main' = [main EXCEPT !.at = "join"]
    /\ UNCHANGED <<session, row, parent, poll, run, hb>>

Join ==
    /\ main.at = "join"
    /\ Active = {}
    /\ main' = [main EXCEPT !.at = IF main.drain # "stopped" /\ ~main.late THEN "drainAgain"
                                   ELSE "finish"]
    /\ UNCHANGED <<session, row, parent, poll, run, hb, task>>

\* Faulty variant: the heartbeat goroutine is waited for and not stopped.
Finish_NoStop ==
    /\ main.at = "finish"
    /\ hb.done # "no"
    /\ poll' = FALSE
    /\ main' = [main EXCEPT !.at = "exited",
                  !.result = IF parent THEN "stopped"
                             ELSE IF main.drain = "error" THEN "error" ELSE "ok"]
    /\ UNCHANGED <<session, row, parent, run, hb, task>>

\* stop(), wait for the heartbeat goroutine, report.
Finish ==
    /\ main.at = "finish"
    /\ \/ /\ run
          /\ StopRun
          /\ UNCHANGED <<poll, main>>
       \/ /\ ~run
          /\ hb.done # "no"
          /\ poll' = FALSE
          /\ main' = [main EXCEPT !.at = "exited",
                        !.result = IF parent THEN "stopped"
                                   ELSE IF main.drain = "error" THEN "error" ELSE "ok"]
          /\ UNCHANGED <<run, task>>
    /\ UNCHANGED <<session, row, parent, hb>>

-----------------------------------------------------------------------------
(* The heartbeat goroutine: one request at a time.                           *)

HeartbeatTick ==
    /\ hb.at = "tick"
    /\ \/ run /\ hb' = [hb EXCEPT !.at = "call", !.left = [l \in Active |-> 0]]
       \/ ~run /\ hb' = [hb EXCEPT !.at = "ended", !.done = "nil"]
    /\ UNCHANGED <<session, row, parent, poll, run, main, task>>

Renewed(l) == row[l].status = "leased" /\ row[l].expires > 0 /\ row[l].deadline > 0

\* The control plane renews what it can; 0 stands for revoked or unknown.
ServeHeartbeat ==
    LET renewed == {l \in DOMAIN hb.left : Renewed(l)}
        left(l) == Lower(LeaseDuration, row[l].deadline)
    IN
    /\ hb.at = "call"
    /\ \/ /\ session \in {"active", "draining"}
          /\ row' = [l \in Lease |-> IF l \in renewed THEN [row[l] EXCEPT !.expires = left(l)]
                                     ELSE row[l]]
          /\ hb' = [hb EXCEPT !.at = "answered", !.age = 0,
                              !.left = [l \in DOMAIN hb.left |-> IF l \in renewed THEN left(l) ELSE 0]]
       \/ /\ session \in {"stopped", "offline"}
          /\ hb' = [hb EXCEPT !.at = "refused", !.left = [l \in {} |-> 0]]
          /\ UNCHANGED row
    /\ UNCHANGED <<session, parent, poll, run, main, task>>

\* The request or its answer is lost, or runCtx ends: no error worth stopping.
HeartbeatFails ==
    /\ hb.at \in {"call", "answered", "refused"}
    /\ hb' = [hb EXCEPT !.at = "tick", !.left = [l \in {} |-> 0], !.age = 0]
    /\ UNCHANGED <<session, row, parent, poll, run, main, task>>

\* renew leaves the new remaining time for the lease's timer; the newest wins.
HeartbeatAnswered ==
    LET revoked == {l \in DOMAIN hb.left : hb.left[l] = 0} IN
    /\ hb.at = "answered"
    /\ task' = [l \in Lease |->
                  IF l \in revoked THEN Canceled(revoked)[l]
                  ELSE IF l \in DOMAIN hb.left /\ Live(l)
                  THEN [task[l] EXCEPT !.renew = [left |-> hb.left[l], age |-> hb.age]]
                  ELSE task[l]]
    /\ hb' = [hb EXCEPT !.at = "tick", !.left = [l \in {} |-> 0], !.age = 0]
    /\ UNCHANGED <<session, row, parent, poll, run, main>>

\* A permanent error: report it, end pollCtx, end runCtx, in this order.
HeartbeatRefused ==
    /\ hb.at \in {"refused", "reported"}
    /\ \/ /\ hb.at = "refused"
          /\ hb' = [hb EXCEPT !.at = "reported", !.done = "error"]
          /\ UNCHANGED <<poll, run, task>>
       \/ /\ hb.at = "reported" /\ poll
          /\ poll' = FALSE
          /\ UNCHANGED <<hb, run, task>>
       \/ /\ hb.at = "reported" /\ ~poll
          /\ hb' = [hb EXCEPT !.at = "ended"]
          /\ StopRun
          /\ UNCHANGED poll
    /\ UNCHANGED <<session, row, parent, main>>

-----------------------------------------------------------------------------
(* The goroutines of a lease.                                                *)

\* The executor returns; a result of a canceled context, and a cancellation,
\* are not submitted.
ExecutorReturns(l) ==
    /\ task[l].at = "executing"
    /\ \/ Live(l) /\ task' = [task EXCEPT ![l].at = "submitting"]
       \/ task' = [task EXCEPT ![l] = EndedTask]
    /\ UNCHANGED <<session, row, parent, poll, run, main, hb>>

\* Complete: accepted, replayed or lease_lost; the answer may be lost.
Submit(l) ==
    /\ task[l].at = "submitting"
    /\ Live(l)
    /\ session \in {"active", "draining"}
    /\ row' = [row EXCEPT ![l].status = IF Renewed(l) THEN "closed" ELSE @]
    /\ \/ task' = [task EXCEPT ![l] = EndedTask]
       \/ UNCHANGED task
    /\ UNCHANGED <<session, parent, poll, run, main, hb>>

\* submitWithRetry gives up with its context.
SubmitEnds(l) ==
    /\ task[l].at = "submitting"
    /\ task[l].canceled
    /\ task' = [task EXCEPT ![l] = EndedTask]
    /\ UNCHANGED <<session, row, parent, poll, run, main, hb>>

renewedDelay(l) ==
    Lower(task[l].renew.left, row[l].deadline + Skew) - SafetyMargin

\* enforceLocalSafetyDeadline takes a renewal.
RenewTimer(l) ==
    /\ Live(l)
    /\ task[l].renew # NoBox
    /\ task' = IF renewedDelay(l) <= 0 THEN Canceled({l})
               ELSE [task EXCEPT ![l].timer = renewedDelay(l), ![l].renew = NoBox]
    /\ UNCHANGED <<session, row, parent, poll, run, main, hb>>

\* Faulty variant: a due timer is set again and cancels nothing.
TimerFires_Restart(l) ==
    /\ Live(l)
    /\ task[l].timer = 0
    /\ task' = [task EXCEPT ![l].timer = LeaseDuration]
    /\ UNCHANGED <<session, row, parent, poll, run, main, hb>>

TimerFires(l) ==
    /\ Live(l)
    /\ task[l].timer = 0
    /\ task' = Canceled({l})
    /\ UNCHANGED <<session, row, parent, poll, run, main, hb>>

-----------------------------------------------------------------------------
(* Around the process.                                                       *)

ParentStops ==
    /\ ~parent
    /\ main.at # "exited"
    /\ parent' = TRUE
    /\ poll' = FALSE
    /\ UNCHANGED <<session, row, run, main, hb, task>>

\* The reaper or a cancellation closes a row.
CloseRow(l) ==
    /\ row[l].status = "leased"
    /\ row' = [row EXCEPT ![l].status = "closed"]
    /\ UNCHANGED <<session, parent, poll, run, main, hb, task>>

\* No heartbeat was seen for too long.
SessionOffline ==
    /\ session \in {"active", "draining"}
    /\ session' = "offline"
    /\ UNCHANGED <<row, parent, poll, run, main, hb, task>>

Earlier(t) == IF t > -1 THEN t - 1 ELSE t
Aged(box) == IF box = NoBox THEN box ELSE [box EXCEPT !.age = @ + 1]

\* Nobody will look at the times of the row again: it was never started, or
\* its execution was canceled or is over.
Forgotten(l) == ~Live(l) /\ l \notin main.got

(* A due timer fires before time goes on, and an answer is delivered and     *)
(* taken within MaxDelay or not at all.  Times nobody looks at count as      *)
(* passed.                                                                   *)
Tick ==
    /\ \A l \in Lease : Live(l) =>
          task[l].timer > 0 /\ (task[l].renew # NoBox => task[l].renew.age < MaxDelay)
    /\ hb.at = "answered" => hb.age < MaxDelay
    /\ row' = [l \in Lease |->
                 IF row[l].status = "free" THEN row[l]
                 ELSE IF Forgotten(l) THEN [row[l] EXCEPT !.expires = -1, !.deadline = -1]
                 ELSE [row[l] EXCEPT !.expires = Earlier(@), !.deadline = Earlier(@)]]
    /\ task' = [l \in Lease |->
                  IF ~Live(l) THEN task[l]
                  ELSE [task[l] EXCEPT !.timer = task[l].timer - 1, !.renew = Aged(task[l].renew)]]
    /\ hb' = [hb EXCEPT !.age = IF hb.at = "answered" THEN @ + 1 ELSE @]
    /\ UNCHANGED <<session, parent, poll, run, main>>

-----------------------------------------------------------------------------
Main ==
    \/ Loop \/ StartLeases \/ ClaimFails \/ ClaimRefused \/ WaitOver \/ Left
    \/ SessionLost \/ Drained \/ Await \/ Join \/ Finish

Heartbeats == HeartbeatTick \/ HeartbeatFails \/ HeartbeatAnswered \/ HeartbeatRefused

LeaseStep(l) == ExecutorReturns(l) \/ SubmitEnds(l) \/ RenewTimer(l) \/ TimerFires(l)

ControlPlane ==
    \/ ServeClaim \/ ServeDrain \/ ServeHeartbeat \/ SessionOffline
    \/ \E l \in Lease : Submit(l) \/ CloseRow(l)

Next ==
    \/ Main \/ Heartbeats \/ ControlPlane \/ ShutdownExpires \/ ParentStops \/ Tick
    \/ \E l \in Lease : LeaseStep(l)

Spec == Init /\ [][Next]_vars

(* Goroutines run, calls end one way or the other, timers fire, and an       *)
(* executor returns once its context is canceled, as its interface asks.     *)
FairSpec ==
    /\ Spec
    /\ WF_vars(Main)
    /\ WF_vars(Heartbeats)
    /\ WF_vars(ShutdownExpires)
    /\ WF_vars(Tick)
    /\ \A l \in Lease :
          /\ WF_vars(RenewTimer(l) \/ TimerFires(l))
          /\ WF_vars(task[l].canceled /\ (ExecutorReturns(l) \/ SubmitEnds(l)))

-----------------------------------------------------------------------------
(* Properties.                                                               *)

(* An execution whose context is alive is covered by a lease that has not    *)
(* run out at the control plane, although the worker learns of renewals late *)
(* and reads another clock.                                                  *)
ExecutionCovered == \A l \in Lease : Live(l) => row[l].expires >= 0

(* The worker never executes more than it declared, counting executions that *)
(* were canceled and have not returned.                                      *)
SlotBound == Cardinality(Active) <= MaxConcurrency

(* The goroutines of the process end in their order.  As long as an          *)
(* execution is alive there is a heartbeat goroutine to renew its lease,     *)
(* during a drain too; Run returns only when no executor is left and no      *)
(* request will be sent; and a worker that was not told to stop and stops    *)
(* all the same says why.                                                    *)
ProcessInv ==
    /\ TypeOK
    /\ (\E l \in Lease : Live(l)) => hb.at # "ended"
    /\ main.at = "exited" =>
          /\ Active = {}
          /\ hb.at \in {"reported", "ended"}
          /\ ~parent => main.result = "error"

(* A worker that is told to stop exits, whatever its requests meet.          *)
ExitsOnStop == parent ~> main.at = "exited"

(* A worker whose session was given up stops its executions, even if no      *)
(* request of it reaches the control plane any more.                         *)
LostSessionStops == session = "offline" ~> \A l \in Lease : ~Live(l)
=============================================================================
