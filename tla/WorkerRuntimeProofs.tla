-------------------------- MODULE WorkerRuntimeProofs --------------------------
(***************************************************************************)
(* The worker process for any number of leases, any concurrency and any    *)
(* durations: its goroutines end in order, it never executes more than it  *)
(* declared, and, if the safety margin covers the skew of the clocks and   *)
(* the delay of an answer, it executes nothing without a lease.            *)
(***************************************************************************)
EXTENDS WorkerRuntime, FiniteSetTheorems, TLAPS

-----------------------------------------------------------------------------
(* The inductive invariants.                                                 *)

(* Slots: the leases asked for, or granted and not started, fit into what    *)
(* the executions leave free.                                                *)
SlotsInv ==
    /\ SlotBound
    /\ main.at = "claim" => Cardinality(Active) + main.ask <= MaxConcurrency
    /\ main.at = "claimed" => Cardinality(Active) + Cardinality(main.got) <= MaxConcurrency

Gone == session \in {"stopped", "offline"}

Leaving == {"left", "lost", "drain", "drained", "await", "join", "drainAgain", "drainedAgain",
            "finish"}

(* Control: a process that nobody told to stop leaves only once its session  *)
(* is gone, and then no drain of it succeeds; the heartbeat goroutine has    *)
(* reported when it stops; once the executors are waited for, none is left.  *)
ControlInv ==
    /\ main.at = "refused" \/ hb.at \in {"refused", "reported"} \/ hb.done = "error" => Gone
    /\ hb.done # "no" <=> hb.at \in {"reported", "ended"}
    /\ hb.at = "ended" => ~run
    /\ ~parent /\ (~poll \/ ~run \/ main.at \in Leaving) => Gone
    /\ ~parent => main.at \notin {"drained", "drainedAgain"}
    /\ ~parent /\ main.at \in {"await", "join", "drainAgain", "finish"} => main.drain = "error"
    /\ main.at \in {"drainAgain", "drainedAgain", "finish"} => Active = {}
    /\ main.at = "exited" =>
          /\ Active = {}
          /\ hb.at \in {"reported", "ended"}
          /\ ~parent => main.result = "error"

Alive(t) == t.at \in {"executing", "submitting"} /\ ~t.canceled

(* Times of the lease l with goroutines t and row r, while h is the          *)
(* heartbeat and got the leases about to be started: the timer of a live     *)
(* execution is not after the end of the lease, and neither is what a        *)
(* renewal on its way promises, its age taken off.                           *)
TimesOf(l, t, r, h, got) ==
    /\ r.expires <= r.deadline
    /\ t.at # "none" \/ l \in DOMAIN h.left \/ l \in got => r.status # "free"
    /\ l \in got => t.at = "none" /\ l \notin DOMAIN h.left
    /\ Alive(t) => /\ t.timer <= r.expires
                   /\ t.renew.left - t.renew.age <= r.expires
                   /\ l \in DOMAIN h.left /\ h.at = "answered" => h.left[l] - h.age <= r.expires

TimesInv == \A l \in Lease : TimesOf(l, task[l], row[l], hb, main.got)
-----------------------------------------------------------------------------
(* Helpers, and types.                                                       *)

\* Live, said of a task record instead of a lease.
LEMMA LiveIsAlive ==
    ASSUME NEW l \in Lease
    PROVE  Live(l) <=> Alive(task[l])
  <1>1. l \in Active <=> task[l].at \in {"executing", "submitting"}
    BY DEF Active
  <1> QED BY <1>1 DEF Live, Alive

\* The records of a lease that has not begun and of one that has ended are tasks.
LEMMA NoTaskType == NoBox \in Box /\ NoTask \in Task /\ EndedTask \in Task
  <1>1. NoBox \in Box
    BY WorkerAssumption DEF NoBox, Box
  <1>2. NoTask \in Task
    BY <1>1 DEF NoTask, Task, Box
  <1>3. EndedTask \in Task
    BY <1>2 DEF EndedTask, Task
  <1> QED BY <1>1, <1>2, <1>3

\* An ended lease has no live context.
LEMMA EndedFacts == EndedTask.at = "ended" /\ EndedTask \in Task /\ ~Alive(EndedTask)
  BY NoTaskType DEF EndedTask, NoTask, Alive

(* cancel ends contexts and nothing else.                                    *)
LEMMA CanceledTasks ==
    ASSUME task \in [Lease -> Task], NEW S
    PROVE  /\ Canceled(S) \in [Lease -> Task]
           /\ \A l \in Lease : /\ Canceled(S)[l].at = task[l].at
                               /\ Alive(Canceled(S)[l]) => Canceled(S)[l] = task[l]
                               /\ l \in S => ~Alive(Canceled(S)[l])
                               /\ l \notin S => Canceled(S)[l] = task[l]
  <1> SUFFICES ASSUME NEW l \in Lease
               PROVE  /\ Canceled(S)[l] \in Task
                      /\ Canceled(S)[l].at = task[l].at
                      /\ Alive(Canceled(S)[l]) => Canceled(S)[l] = task[l]
                      /\ l \in S => ~Alive(Canceled(S)[l])
                      /\ l \notin S => Canceled(S)[l] = task[l]
    BY DEF Canceled
  <1>1. task[l] \in Task
    OBVIOUS
  <1>2. CASE l \in S \cap Active
    BY <1>1, <1>2, NoTaskType DEF Canceled, Alive, Task, Box
  <1>3. CASE l \notin S \cap Active
    BY <1>1, <1>3 DEF Canceled, Alive, Active
  <1> QED BY <1>2, <1>3

\* The answer that renews nothing is an answer.
LEMMA NoLeft == [l \in {} |-> 0] \in Answers
  <1>1. [l \in {} |-> 0] \in [{} -> 0..LeaseDuration]
    BY Zenon
  <1>2. {} \in SUBSET Lease
    OBVIOUS
  <1> HIDE DEF Lease
  <1>3. \E S \in SUBSET Lease : [l \in {} |-> 0] \in [S -> 0..LeaseDuration]
    BY <1>1, <1>2, Zenon
  <1> QED BY <1>3, Zenon DEF Answers

\* The control points of the heartbeat goroutine.
LEMMA HeartbeatNames == {"tick", "call", "answered", "refused", "reported", "ended"} = HeartbeatAt
  BY DEF HeartbeatAt

Becomes(h, at, f, age) ==
    \/ age = hb.age /\ h = [hb EXCEPT !.at = at, !.left = f]
    \/ age = 0 /\ h = [hb EXCEPT !.at = at, !.left = f, !.age = 0]
    \/ age = 0 /\ h = [hb EXCEPT !.at = at, !.age = 0, !.left = f]

\* A heartbeat goroutine that moves on has the fields it was given.
LEMMA HeartbeatBecomes ==
    ASSUME hb \in Heartbeat, NEW at \in HeartbeatAt, NEW f \in Answers, NEW age, NEW h,
           Becomes(h, at, f, age)
    PROVE  h \in Heartbeat /\ h.at = at /\ h.left = f /\ h.done = hb.done /\ h.age = age
  <1> DEFINE a == [hb EXCEPT !.at = at]
             l == [a EXCEPT !.left = f]
             o == [a EXCEPT !.age = 0]
  <1> HIDE DEF HeartbeatAt
  <1>1. a \in Heartbeat /\ a.at = at /\ a.done = hb.done /\ a.age = hb.age
    BY DEF Heartbeat
  <1> HIDE DEF a
  <1>2. l \in Heartbeat /\ l.at = at /\ l.done = hb.done /\ l.age = hb.age /\ l.left = f
    BY <1>1 DEF Heartbeat
  <1>3. o \in Heartbeat /\ o.at = at /\ o.done = hb.done /\ o.age = 0
    BY <1>1, WorkerAssumption DEF Heartbeat
  <1> HIDE DEF l, o
  <1>4. /\ [l EXCEPT !.age = 0] \in Heartbeat /\ [l EXCEPT !.age = 0].at = at /\ [l EXCEPT !.age = 0].age = 0
        /\ [l EXCEPT !.age = 0].left = f /\ [l EXCEPT !.age = 0].done = hb.done
    BY <1>2, WorkerAssumption DEF Heartbeat
  <1>5. /\ [o EXCEPT !.left = f] \in Heartbeat /\ [o EXCEPT !.left = f].at = at
        /\ [o EXCEPT !.left = f].age = 0 /\ [o EXCEPT !.left = f].left = f
        /\ [o EXCEPT !.left = f].done = hb.done
    BY <1>3 DEF Heartbeat
  <1>6. \/ age = hb.age /\ h = l
        \/ age = 0 /\ (h = [l EXCEPT !.age = 0] \/ h = [o EXCEPT !.left = f])
    BY DEF Becomes, a, l, o
  <1> QED BY <1>2, <1>4, <1>5, <1>6

\* The initial state is typed.
LEMMA InitTyped == Init => TypeOK
  <1> SUFFICES ASSUME Init PROVE TypeOK
    OBVIOUS
  <1>1. task \in [Lease -> Task] /\ \A l \in Lease : Live(l) => run
    BY NoTaskType DEF Init
  <1>2. hb \in Heartbeat
    BY NoLeft, WorkerAssumption DEF Init, Heartbeat, HeartbeatAt
  <1>3. row \in [Lease -> Row]
    BY WorkerAssumption DEF Init, FreeRow, Row
  <1>4. main \in Process
    BY WorkerAssumption DEF Init, MainAt, Process
  <1> QED BY <1>1, <1>2, <1>3, <1>4 DEF Init, TypeOK

\* A step keeps the types if it keeps each variable's, and no lease outlives the run context.
LEMMA TypedStep ==
    ASSUME session' \in {"active", "draining", "stopped", "offline"},
           row' \in [Lease -> Row], parent' \in BOOLEAN, poll' \in BOOLEAN, run' \in BOOLEAN,
           main' \in Process, hb' \in Heartbeat, task' \in [Lease -> Task],
           \A l \in Lease : Alive(task'[l]) => run'
    PROVE  TypeOK'
  <1>1. \A l \in Lease : Live(l)' => Alive(task'[l])
    BY DEF Live, Active, Alive
  <1> QED BY <1>1 DEF TypeOK

\* The main goroutine keeps its type when it moves on.
LEMMA ProcessExcept ==
    ASSUME main \in Process, NEW at \in MainAt, NEW got \in SUBSET Lease, NEW ask \in 0..MaxConcurrency
    PROVE  /\ [main EXCEPT !.at = at, !.got = got] \in Process
           /\ [main EXCEPT !.at = at, !.ask = ask] \in Process
           /\ [main EXCEPT !.at = at, !.got = got, !.ask = ask] \in Process
  <1> DEFINE m == [main EXCEPT !.at = at]
             n == [m EXCEPT !.got = got]
  <1> HIDE DEF Lease, MainAt
  <1>1. m \in Process
    BY DEF Process
  <1> HIDE DEF m
  <1>2. n \in Process
    BY <1>1 DEF Process
  <1>3. [m EXCEPT !.ask = ask] \in Process
    BY <1>1 DEF Process
  <1> HIDE DEF n
  <1>4. [n EXCEPT !.ask = ask] \in Process
    BY <1>2 DEF Process
  <1> QED BY <1>2, <1>3, <1>4 DEF n, m

\* Sets of leases are finite.
LEMMA LeasesFinite ==
    IsFiniteSet(Lease) /\ \A S \in SUBSET Lease : IsFiniteSet(S) /\ Cardinality(S) \in Nat
  <1>1. IsFiniteSet(Lease)
    BY WorkerAssumption, FS_Interval DEF Lease
  <1> HIDE DEF Lease
  <1> QED BY <1>1, FS_Subset, FS_CardinalityType

\* So are the leases in the worker's map.
LEMMA ActiveFinite == IsFiniteSet(Active) /\ Cardinality(Active) \in Nat
  <1>1. IsFiniteSet(Lease)
    BY LeasesFinite
  <1>2. Active \subseteq Lease
    BY DEF Active
  <1> QED BY <1>1, <1>2, FS_Subset, FS_CardinalityType

(* The steps of the goroutine of Run.                                        *)
LEMMA ProcessTyped ==
    ASSUME TypeOK, \/ Loop \/ ClaimFails \/ WaitOver \/ Left \/ Drained \/ Join
                   \/ ShutdownExpires \/ ServeClaim \/ StartLeases
                   \/ ClaimRefused \/ SessionLost \/ ServeDrain \/ Await \/ Finish
    PROVE  main' \in Process
  <1> USE WorkerAssumption
  <1>0. main \in Process
    BY DEF TypeOK
  <1>1. CASE Loop
    <2>1. Slots \in Int /\ Slots <= MaxConcurrency
      BY ActiveFinite DEF Slots
    <2>2. CASE parent \/ ~run
      BY <1>0, <1>1, <2>2 DEF Loop, Process, MainAt
    <2>3. CASE ~(parent \/ ~run) /\ Slots > 0
      <3>1. main' = [main EXCEPT !.at = "claim", !.ask = Slots]
        BY <1>1, <2>3 DEF Loop
      <3>2. Slots \in 0..MaxConcurrency /\ "claim" \in MainAt
        BY <2>1, <2>3 DEF MainAt
      <3> HIDE DEF Slots
      <3> QED BY <1>0, <3>1, <3>2, ProcessExcept
    <2>4. CASE ~(parent \/ ~run) /\ ~(Slots > 0)
      BY <1>0, <1>1, <2>4 DEF Loop, Process, MainAt
    <2> QED BY <2>2, <2>3, <2>4
  <1>2. CASE ClaimFails
    <2>1. "wait" \in MainAt /\ {} \in SUBSET Lease /\ 0 \in 0..MaxConcurrency
      BY DEF MainAt
    <2> QED BY <1>0, <1>2, <2>1, ProcessExcept DEF ClaimFails
  <1>3. CASE WaitOver
    BY <1>0, <1>3 DEF WaitOver, Process, MainAt
  <1>4. CASE Left
    BY <1>0, <1>4 DEF Left, Process, MainAt
  <1>5. CASE Drained
    BY <1>0, <1>5 DEF Drained, Process, MainAt
  <1>6. CASE Join
    BY <1>0, <1>6 DEF Join, Process, MainAt
  <1>7. CASE ShutdownExpires
    BY <1>0, <1>7 DEF ShutdownExpires, Process, MainAt
  <1>8. CASE ServeClaim
    <2>1. \A S \in SUBSET Lease : [main EXCEPT !.at = "claimed", !.got = S] \in Process
      <3>1. "claimed" \in MainAt /\ 0 \in 0..MaxConcurrency
        BY DEF MainAt
      <3> QED BY <1>0, <3>1, ProcessExcept
    <2>2. [main EXCEPT !.at = "refused"] \in Process
      BY <1>0 DEF Process, MainAt
    <2>3. \/ main' = [main EXCEPT !.at = "refused"]
          \/ \E S \in SUBSET Lease : main' = [main EXCEPT !.at = "claimed", !.got = S]
      BY <1>8 DEF ServeClaim
    <2> QED BY <2>1, <2>2, <2>3
  <1>9. CASE StartLeases
    <2>1. "wait" \in MainAt /\ "loop" \in MainAt /\ {} \in SUBSET Lease /\ 0 \in 0..MaxConcurrency
      BY DEF MainAt
    <2>2. (IF main.got = {} THEN "wait" ELSE "loop") \in MainAt
      BY <2>1
    <2> QED BY <1>0, <1>9, <2>1, <2>2, ProcessExcept DEF StartLeases
  <1>10. CASE ClaimRefused
    <2>1. "lost" \in MainAt /\ {} \in SUBSET Lease /\ 0 \in 0..MaxConcurrency
      BY DEF MainAt
    <2> QED BY <1>0, <1>10, <2>1, ProcessExcept DEF ClaimRefused
  <1>11. CASE SessionLost
    BY <1>0, <1>11 DEF SessionLost, Process, MainAt
  <1>12. CASE ServeDrain
    BY <1>0, <1>12 DEF ServeDrain, DrainSession, Process, MainAt
  <1>13. CASE Await
    BY <1>0, <1>13 DEF Await, Process, MainAt
  <1>14. CASE Finish
    BY <1>0, <1>14 DEF Finish, Process, MainAt
  <1> QED BY <1>1, <1>2, <1>3, <1>4, <1>5, <1>6, <1>7, <1>8, <1>9, <1>10, <1>11, <1>12, <1>13, <1>14

Typed ==
    /\ session \in {"active", "draining", "stopped", "offline"}
    /\ row \in [Lease -> Row]
    /\ parent \in BOOLEAN /\ poll \in BOOLEAN /\ run \in BOOLEAN
    /\ main \in Process
    /\ hb \in Heartbeat
    /\ task \in [Lease -> Task]
    /\ \A l \in Lease : Alive(task[l]) => run

\* The type invariant in terms of Alive.
LEMMA TypedAlive == TypeOK <=> Typed
  <1>1. TypeOK => Typed
    BY LiveIsAlive DEF TypeOK, Typed
  <1>2. Typed => TypeOK
    BY LiveIsAlive DEF TypeOK, Typed
  <1> QED BY <1>1, <1>2

(* A step that stops runCtx, or leaves it and the executions alone.          *)
LEMMA SameTasks ==
    ASSUME Typed, StopRun \/ UNCHANGED <<run, task>>
    PROVE  /\ run' \in BOOLEAN /\ task' \in [Lease -> Task]
           /\ \A l \in Lease : Alive(task'[l]) => run' /\ task'[l] = task[l]
           /\ \A l \in Lease : task'[l].at = task[l].at
           /\ run' => run
  <1>1. CASE StopRun
    BY <1>1, CanceledTasks DEF Typed, StopRun
  <1>2. CASE UNCHANGED <<run, task>>
    BY <1>2 DEF Typed
  <1> QED BY <1>1, <1>2

(* The steps that concern one lease.                                         *)
LEMMA LeaseTyped ==
    ASSUME Typed, NEW l \in Lease,
           \/ ExecutorReturns(l) \/ Submit(l) \/ SubmitEnds(l) \/ RenewTimer(l) \/ TimerFires(l)
    PROVE  /\ task' \in [Lease -> Task]
           /\ \A k \in Lease : k # l => task'[k] = task[k]
           /\ Alive(task'[l]) => Alive(task[l])
           /\ task'[l].at # "none" /\ task[l].at # "none"
  <1> USE LiveIsAlive, CanceledTasks, NoTaskType
  <1>0. task \in [Lease -> Task] /\ task[l] \in Task
    BY DEF Typed
  <1>1. CASE ExecutorReturns(l)
    <2>1. CASE task' = [task EXCEPT ![l] = EndedTask]
      BY <1>0, <1>1, <2>1, EndedFacts DEF ExecutorReturns
    <2>2. CASE task' = [task EXCEPT ![l].at = "submitting"]
      BY <1>0, <1>1, <2>2 DEF ExecutorReturns, Task, Alive
    <2> QED BY <1>1, <2>1, <2>2 DEF ExecutorReturns
  <1>2. CASE Submit(l)
    BY <1>0, <1>2, EndedFacts DEF Submit, Alive
  <1>3. CASE SubmitEnds(l)
    BY <1>0, <1>3, EndedFacts DEF SubmitEnds
  <1>4. CASE RenewTimer(l)
    <2>1. CASE renewedDelay(l) <= 0
      BY <1>0, <1>4, <2>1 DEF RenewTimer, Alive
    <2>2. CASE ~(renewedDelay(l) <= 0)
      <3>1. renewedDelay(l) \in Nat
        <4>1. task[l].renew.left \in Int /\ row[l].deadline \in Int
          BY <1>0, WorkerAssumption DEF Typed, Task, Box, Row
        <4> QED BY <2>2, <4>1, WorkerAssumption DEF renewedDelay, Lower
      <3>2. task' = [task EXCEPT ![l].timer = renewedDelay(l), ![l].renew = NoBox]
        BY <1>4, <2>2 DEF RenewTimer
      <3> HIDE DEF renewedDelay
      <3> QED BY <1>0, <1>4, <3>1, <3>2 DEF RenewTimer, Alive, Task
    <2> QED BY <2>1, <2>2
  <1>5. CASE TimerFires(l)
    BY <1>0, <1>5 DEF TimerFires, Alive
  <1> QED BY <1>1, <1>2, <1>3, <1>4, <1>5

(* startLease makes an execution of every lease of the answer.               *)
LEMMA StartedTasks ==
    ASSUME Typed, StartLeases
    PROVE  /\ task' \in [Lease -> Task]
           /\ \A l \in Lease : Alive(task'[l]) => run
           /\ \A l \in Lease : l \notin main.got => task'[l] = task[l]
           /\ \A l \in main.got : /\ task'[l].at = "executing"
                                  /\ Alive(task'[l]) => /\ run
                                                        /\ task'[l].timer = localSafetyDelay(l)
                                                        /\ task'[l].renew = NoBox
  <1> DEFINE start(d) == [NoTask EXCEPT !.at = "executing", !.timer = d]
             late == [NoTask EXCEPT !.at = "executing", !.canceled = TRUE]
  <1>1. /\ late \in Task /\ late.at = "executing" /\ ~Alive(late)
        /\ \A d \in Nat : /\ start(d) \in Task /\ start(d).at = "executing"
                         /\ start(d).timer = d /\ start(d).renew = NoBox
    BY NoTaskType DEF NoTask, Task, Alive
  <1>2. ASSUME NEW l \in Lease
        PROVE  task'[l] = IF l \notin main.got THEN task[l]
                          ELSE IF ~run \/ localSafetyDelay(l) <= 0 THEN late
                          ELSE start(localSafetyDelay(l))
    BY <1>2 DEF StartLeases
  <1>3. ASSUME NEW l \in Lease PROVE localSafetyDelay(l) \in Int
    <2>1. row[l].expires \in Int /\ row[l].deadline \in Int
      BY <1>3, WorkerAssumption DEF Typed, Row
    <2> QED BY <2>1, WorkerAssumption DEF localSafetyDelay, Lower
  <1>4. task' = [l \in Lease |-> task'[l]] /\ main.got \subseteq Lease
    BY DEF StartLeases, Typed, Process
  <1>5. ASSUME NEW l \in Lease, l \in main.got
        PROVE  /\ task'[l] \in Task
               /\ task'[l].at = "executing"
               /\ Alive(task'[l]) => /\ run
                                     /\ task'[l].timer = localSafetyDelay(l)
                                     /\ task'[l].renew = NoBox
    <2> HIDE DEF start, late, localSafetyDelay
    <2>1. CASE ~run \/ localSafetyDelay(l) <= 0
      BY <1>1, <1>2, <1>5, <2>1
    <2>2. CASE ~(~run \/ localSafetyDelay(l) <= 0)
      <3>1. localSafetyDelay(l) \in Nat
        BY <1>3, <2>2
      <3> QED BY <1>1, <1>2, <1>5, <2>2, <3>1
    <2> QED BY <2>1, <2>2
  <1>6. \A l \in Lease : task[l] \in Task
    BY DEF Typed
  <1>7. \A l \in Lease : l \notin main.got => task'[l] = task[l]
    BY <1>2
  <1>8. \A l \in Lease : task'[l] \in Task
    BY <1>5, <1>6, <1>7
  <1>9. ASSUME NEW l \in Lease, Alive(task'[l]) PROVE run
    <2>1. CASE l \in main.got
      BY <1>5, <1>9, <2>1
    <2>2. CASE l \notin main.got
      BY <1>7, <1>9, <2>2 DEF Typed
    <2> QED BY <2>1, <2>2
  <1> QED BY <1>4, <1>5, <1>7, <1>8, <1>9

(* An answer cancels what it revokes and leaves a renewal to the others.     *)
LEMMA AnsweredTasks ==
    ASSUME Typed, HeartbeatAnswered
    PROVE  /\ task' \in [Lease -> Task]
           /\ \A l \in Lease :
                 /\ task'[l].at = task[l].at
                 /\ Alive(task'[l]) =>
                      /\ Alive(task[l])
                      /\ task'[l].timer = task[l].timer
                      /\ IF l \in DOMAIN hb.left THEN task'[l].renew = [left |-> hb.left[l], age |-> hb.age]
                         ELSE task'[l].renew = task[l].renew
  <1> DEFINE revoked == {l \in DOMAIN hb.left : hb.left[l] = 0}
  <1>1. /\ hb.age \in 0..MaxDelay
        /\ \A l \in DOMAIN hb.left : hb.left[l] \in 0..LeaseDuration
    BY DEF Typed, Heartbeat, Answers
  <1>2. task' = [l \in Lease |->
                  IF l \in revoked THEN Canceled(revoked)[l]
                  ELSE IF l \in DOMAIN hb.left /\ Live(l)
                  THEN [task[l] EXCEPT !.renew = [left |-> hb.left[l], age |-> hb.age]]
                  ELSE task[l]]
    BY DEF HeartbeatAnswered
  <1>3. /\ task \in [Lease -> Task]
        /\ Canceled(revoked) \in [Lease -> Task]
        /\ \A l \in Lease : /\ Canceled(revoked)[l].at = task[l].at
                            /\ l \in revoked => ~Alive(Canceled(revoked)[l])
    BY CanceledTasks DEF Typed
  <1>4. revoked \subseteq DOMAIN hb.left
    OBVIOUS
  <1> HIDE DEF revoked
  <1>5. ASSUME NEW l \in Lease
        PROVE  /\ task'[l] \in Task
               /\ task'[l].at = task[l].at
               /\ Alive(task'[l]) =>
                      /\ Alive(task[l])
                      /\ task'[l].timer = task[l].timer
                      /\ IF l \in DOMAIN hb.left THEN task'[l].renew = [left |-> hb.left[l], age |-> hb.age]
                         ELSE task'[l].renew = task[l].renew
    <2>1. CASE l \in revoked
      BY <1>2, <1>3, <1>5, <2>1
    <2>2. CASE l \notin revoked /\ l \in DOMAIN hb.left /\ Live(l)
      <3> DEFINE box == [left |-> hb.left[l], age |-> hb.age]
      <3>1. box \in Box
        BY <1>1, <2>2 DEF Box
      <3>2. task'[l] = [task[l] EXCEPT !.renew = box] /\ task[l] \in Task
        BY <1>2, <1>3, <1>5, <2>2
      <3> HIDE DEF box
      <3>3. task'[l] \in Task /\ task'[l].at = task[l].at /\ task'[l].timer = task[l].timer /\ task'[l].renew = box
        BY <3>1, <3>2 DEF Task
      <3> QED BY <2>2, <3>3, LiveIsAlive DEF box
    <2>3. CASE l \notin revoked /\ ~(l \in DOMAIN hb.left /\ Live(l))
      BY <1>2, <1>3, <1>5, <2>3, LiveIsAlive
    <2> QED BY <2>1, <2>2, <2>3
  <1> QED BY <1>2, <1>5

(* Time passes for the executions that are alive, none of which is due.      *)
LEMMA TickedTasks ==
    ASSUME Typed, Tick
    PROVE  /\ task' \in [Lease -> Task]
           /\ \A l \in Lease :
                 /\ task'[l].at = task[l].at
                 /\ ~Alive(task[l]) => task'[l] = task[l]
                 /\ Alive(task[l]) =>
                      /\ task[l].timer > 0 /\ task'[l].timer = task[l].timer - 1
                      /\ task'[l].renew = Aged(task[l].renew)
  <1>1. task' = [l \in Lease |-> task'[l]]
    BY DEF Tick
  <1>2. ASSUME NEW l \in Lease
        PROVE  /\ task'[l] \in Task
               /\ task'[l].at = task[l].at
               /\ ~Alive(task[l]) => task'[l] = task[l]
               /\ Alive(task[l]) =>
                      /\ task[l].timer > 0 /\ task'[l].timer = task[l].timer - 1
                      /\ task'[l].renew = Aged(task[l].renew)
    <2>0. task[l] \in Task
      BY <1>2 DEF Typed
    <2>1. CASE ~Alive(task[l])
      BY <1>2, <2>0, <2>1, LiveIsAlive DEF Tick
    <2>2. CASE Alive(task[l])
      <3> DEFINE box == Aged(task[l].renew)
                 due == task[l].timer - 1
                 later == [task[l] EXCEPT !.timer = due]
      <3>1. Live(l)
        BY <1>2, <2>2, LiveIsAlive
      <3>2. task[l].timer > 0 /\ (task[l].renew # NoBox => task[l].renew.age < MaxDelay)
        BY <1>2, <3>1 DEF Tick
      <3>3. box \in Box
        BY <2>0, <3>2, WorkerAssumption DEF Task, Box, Aged
      <3>4. task'[l] = [later EXCEPT !.renew = box]
        BY <1>2, <3>1 DEF Tick
      <3>5. due \in Nat
        BY <2>0, <3>2 DEF Task
      <3> HIDE DEF due, box
      <3>6. later \in Task /\ later.at = task[l].at /\ later.timer = due
        BY <2>0, <3>5 DEF Task
      <3> HIDE DEF later
      <3>7. task'[l] \in Task /\ task'[l].at = task[l].at /\ task'[l].timer = due /\ task'[l].renew = box
        BY <3>3, <3>4, <3>6 DEF Task
      <3> QED BY <2>2, <3>2, <3>7 DEF due, box
    <2> QED BY <2>1, <2>2
  <1> QED BY <1>1, <1>2

(* A heartbeat asks for the leases the worker executes.                      *)
LEMMA TickedHeartbeat ==
    ASSUME Typed, HeartbeatTick
    PROVE  /\ hb' \in Heartbeat
           /\ hb'.at \in {"call", "ended"}
           /\ hb'.at = "call" => DOMAIN hb'.left = Active /\ hb'.done = hb.done /\ run
           /\ hb'.at = "ended" => hb'.left = hb.left /\ hb'.done = "nil" /\ ~run
  <1>0. hb \in Heartbeat
    BY DEF Typed
  <1> DEFINE f == [l \in Active |-> 0]
  <1>1. f \in Answers /\ DOMAIN f = Active
    <2>1. f \in [Active -> 0..LeaseDuration] /\ Active \in SUBSET Lease
      BY WorkerAssumption DEF Active
    <2> QED BY <2>1, Zenon DEF Answers
  <1>2. CASE run /\ hb' = [hb EXCEPT !.at = "call", !.left = f]
    <2> HIDE DEF f
    <2>1. "call" \in HeartbeatAt
      BY HeartbeatNames
    <2>2. Becomes(hb', "call", f, hb.age)
      BY <1>2 DEF Becomes
    <2>3. hb' \in Heartbeat /\ hb'.at = "call" /\ hb'.left = f /\ hb'.done = hb.done
      BY <1>0, <1>1, <2>1, <2>2, HeartbeatBecomes
    <2> QED BY <1>1, <1>2, <2>3
  <1>3. CASE ~run /\ hb' = [hb EXCEPT !.at = "ended", !.done = "nil"]
    BY <1>0, <1>3 DEF Heartbeat, HeartbeatAt
  <1> QED BY <1>2, <1>3 DEF HeartbeatTick

(* The control plane renews the leases asked for that still are.             *)
LEMMA ServedHeartbeat ==
    ASSUME Typed, ServeHeartbeat
    PROVE  /\ hb' \in Heartbeat /\ hb'.done = hb.done /\ row' \in [Lease -> Row]
           /\ hb'.at \in {"answered", "refused"}
           /\ hb'.at = "refused" => Gone /\ DOMAIN hb'.left = {} /\ row' = row
           /\ hb'.at = "answered" =>
                /\ DOMAIN hb'.left = DOMAIN hb.left /\ hb'.age = 0
                /\ \A l \in Lease :
                     /\ row'[l].status = row[l].status /\ row'[l].deadline = row[l].deadline
                     /\ \/ /\ row'[l].expires = Lower(LeaseDuration, row[l].deadline)
                           /\ l \in DOMAIN hb.left => hb'.left[l] = row'[l].expires
                        \/ /\ row'[l].expires = row[l].expires
                           /\ l \in DOMAIN hb.left => hb'.left[l] = 0
  <1> DEFINE renewed == {l \in DOMAIN hb.left : Renewed(l)}
             left(l) == Lower(LeaseDuration, row[l].deadline)
             f == [l \in DOMAIN hb.left |-> IF l \in renewed THEN left(l) ELSE 0]
  <1>0. hb \in Heartbeat /\ row \in [Lease -> Row] /\ DOMAIN hb.left \in SUBSET Lease
    BY DEF Typed, Heartbeat, Answers
  <1>1. ASSUME NEW l \in renewed
        PROVE  left(l) \in 1..LeaseDuration /\ l \in Lease
    <2>1. row[l] \in Row /\ row[l].deadline > 0 /\ l \in Lease
      BY <1>0, <1>1 DEF Renewed
    <2> QED BY <2>1, WorkerAssumption DEF Row, Lower
  <1>2. CASE session \in {"active", "draining"} /\ hb' = [hb EXCEPT !.at = "answered", !.age = 0, !.left = f]
             /\ row' = [l \in Lease |-> IF l \in renewed THEN [row[l] EXCEPT !.expires = left(l)]
                                       ELSE row[l]]
    <2> HIDE DEF left, renewed
    <2>1. f \in Answers /\ DOMAIN f = DOMAIN hb.left
      <3>1. f \in [DOMAIN hb.left -> 0..LeaseDuration]
        BY <1>1, WorkerAssumption
      <3> QED BY <1>0, <3>1, Zenon DEF Answers
    <2>2. ASSUME NEW l \in Lease
          PROVE  /\ row'[l] \in Row
                 /\ row'[l].status = row[l].status /\ row'[l].deadline = row[l].deadline
                 /\ row'[l].expires = IF l \in renewed THEN left(l) ELSE row[l].expires
      <3>0. row[l] \in Row
        BY <1>0, <2>2
      <3>1. CASE l \in renewed
        <4>1. row'[l] = [row[l] EXCEPT !.expires = left(l)] /\ left(l) \in -1..LeaseDuration
          BY <1>1, <1>2, <2>2, <3>1, WorkerAssumption
        <4> QED BY <3>0, <3>1, <4>1 DEF Row
      <3>2. CASE l \notin renewed
        BY <1>2, <2>2, <3>0, <3>2
      <3> QED BY <3>1, <3>2
    <2>3. \A l \in DOMAIN hb.left : f[l] = IF l \in renewed THEN left(l) ELSE 0
      OBVIOUS
    <2> HIDE DEF f
    <2>4. hb' \in Heartbeat /\ hb'.at = "answered" /\ hb'.age = 0 /\ hb'.left = f /\ hb'.done = hb.done
      <3>1. "answered" \in HeartbeatAt
        BY HeartbeatNames
      <3>2. Becomes(hb', "answered", f, 0)
        BY <1>2 DEF Becomes
      <3> QED BY <1>0, <2>1, <3>1, <3>2, HeartbeatBecomes
    <2>5. row' \in [Lease -> Row]
      BY <1>2, <2>2
    <2> QED BY <2>1, <2>2, <2>3, <2>4, <2>5 DEF left
  <1>3. CASE Gone /\ hb' = [hb EXCEPT !.at = "refused", !.left = [l \in {} |-> 0]] /\ UNCHANGED row
    <2> DEFINE none == [l \in {} |-> 0]
    <2>1. none \in Answers /\ DOMAIN none = {}
      BY NoLeft
    <2> HIDE DEF none
    <2>2. hb' = [hb EXCEPT !.at = "refused", !.left = none]
      BY <1>3 DEF none
    <2>3. "refused" \in HeartbeatAt
      BY HeartbeatNames
    <2>4. Becomes(hb', "refused", none, hb.age)
      BY <2>2 DEF Becomes
    <2>5. hb' \in Heartbeat /\ hb'.at = "refused" /\ hb'.left = none /\ hb'.done = hb.done
      BY <1>0, <2>1, <2>3, <2>4, HeartbeatBecomes
    <2> QED BY <1>0, <1>3, <2>1, <2>5
  <1> QED BY <1>2, <1>3 DEF ServeHeartbeat, Gone

(* A heartbeat that fails, or whose answer was taken, leaves nothing.        *)
LEMMA HeartbeatOver ==
    ASSUME Typed, HeartbeatFails \/ HeartbeatAnswered
    PROVE  hb' \in Heartbeat /\ hb'.at = "tick" /\ DOMAIN hb'.left = {} /\ hb'.done = hb.done
  <1> DEFINE none == [l \in {} |-> 0]
  <1>1. none \in Answers /\ DOMAIN none = {}
    BY NoLeft
  <1>2. hb' = [hb EXCEPT !.at = "tick", !.left = none, !.age = 0]
    BY DEF HeartbeatFails, HeartbeatAnswered
  <1> HIDE DEF none
  <1>3. "tick" \in HeartbeatAt /\ hb \in Heartbeat
    BY HeartbeatNames DEF Typed
  <1>4. Becomes(hb', "tick", none, 0)
    BY <1>2 DEF Becomes
  <1>5. hb' \in Heartbeat /\ hb'.at = "tick" /\ hb'.left = none /\ hb'.done = hb.done
    BY <1>1, <1>3, <1>4, HeartbeatBecomes
  <1> QED BY <1>1, <1>5

(* What becomes of the rows.                                                 *)
LEMMA ClaimedRows ==
    ASSUME Typed, ServeClaim
    PROVE  /\ row' \in [Lease -> Row]
           /\ \/ Gone /\ row' = row /\ main' = [main EXCEPT !.at = "refused"]
              \/ \E S \in SUBSET Lease :
                   /\ main' = [main EXCEPT !.at = "claimed", !.got = S]
                   /\ Cardinality(S) <= main.ask
                   /\ \A l \in S : row[l].status = "free" /\ row'[l] = LeasedRow
                   /\ \A l \in Lease \ S : row'[l] = row[l]
  <1>1. LeasedRow \in Row
    BY WorkerAssumption DEF LeasedRow, Row, Lower
  <1>2. row \in [Lease -> Row]
    BY DEF Typed
  <1>3. CASE Gone /\ row' = row /\ main' = [main EXCEPT !.at = "refused"]
    BY <1>2, <1>3
  <1>4. ASSUME NEW S \in SUBSET {l \in Lease : row[l].status = "free"},
               Cardinality(S) <= main.ask,
               row' = [l \in Lease |-> IF l \in S THEN LeasedRow ELSE row[l]],
               main' = [main EXCEPT !.at = "claimed", !.got = S]
        PROVE  /\ row' \in [Lease -> Row]
               /\ S \in SUBSET Lease
               /\ \A l \in S : row[l].status = "free" /\ row'[l] = LeasedRow
               /\ \A l \in Lease \ S : row'[l] = row[l]
    BY <1>1, <1>2, <1>4
  <1>5. \/ Gone /\ row' = row /\ main' = [main EXCEPT !.at = "refused"]
        \/ \E S \in SUBSET {l \in Lease : row[l].status = "free"} :
             /\ Cardinality(S) <= main.ask
             /\ row' = [l \in Lease |-> IF l \in S THEN LeasedRow ELSE row[l]]
             /\ main' = [main EXCEPT !.at = "claimed", !.got = S]
    BY DEF ServeClaim, Gone
  <1> HIDE DEF Gone
  <1> QED BY <1>3, <1>4, <1>5

\* Closing a row leaves the times of all rows alone.
LEMMA ClosedRows ==
    ASSUME Typed, NEW l \in Lease, Submit(l) \/ CloseRow(l)
    PROVE  /\ row' \in [Lease -> Row]
           /\ \A k \in Lease : /\ row'[k].expires = row[k].expires
                               /\ row'[k].deadline = row[k].deadline
                               /\ row'[k].status = "free" => row[k].status = "free"
  <1> DEFINE s == row'[l].status
  <1>1. row \in [Lease -> Row] /\ row[l] \in Row
    BY DEF Typed
  <1>2. \E c \in {row[l].status, "closed"} : row' = [row EXCEPT ![l].status = c]
    BY DEF Submit, CloseRow
  <1>3. PICK c \in {row[l].status, "closed"} : row' = [row EXCEPT ![l].status = c]
    BY <1>2
  <1> QED BY <1>1, <1>3 DEF Row

\* Time brings expiry and deadline closer together, never past each other, and by one.
LEMMA TickedRows ==
    ASSUME Typed, Tick
    PROVE  /\ row' \in [Lease -> Row]
           /\ \A l \in Lease :
                 /\ row'[l].status = row[l].status
                 /\ row[l].expires <= row[l].deadline => row'[l].expires <= row'[l].deadline
                 /\ row[l].status # "free" /\ ~Forgotten(l) => row'[l].expires >= row[l].expires - 1
  <1>1. row' = [l \in Lease |-> row'[l]]
    BY DEF Tick
  <1>2. ASSUME NEW l \in Lease
        PROVE  /\ row'[l] \in Row
               /\ row'[l].status = row[l].status
               /\ row[l].expires <= row[l].deadline => row'[l].expires <= row'[l].deadline
               /\ row[l].status # "free" /\ ~Forgotten(l) => row'[l].expires >= row[l].expires - 1
    <2>0. row[l] \in Row
      BY <1>2 DEF Typed
    <2>1. row'[l] = IF row[l].status = "free" THEN row[l]
                 ELSE IF Forgotten(l) THEN [row[l] EXCEPT !.expires = -1, !.deadline = -1]
                 ELSE [row[l] EXCEPT !.expires = Earlier(@), !.deadline = Earlier(@)]
      BY <1>2 DEF Tick
    <2> HIDE DEF Forgotten
    <2>2. row[l].expires \in -1..LeaseDuration /\ row[l].deadline \in -1..AttemptTimeout
      BY <2>0 DEF Row
    <2>3. /\ Earlier(row[l].expires) \in -1..LeaseDuration /\ Earlier(row[l].deadline) \in -1..AttemptTimeout
          /\ Earlier(row[l].expires) >= row[l].expires - 1
          /\ row[l].expires <= row[l].deadline => Earlier(row[l].expires) <= Earlier(row[l].deadline)
          /\ -1 \in -1..LeaseDuration /\ -1 \in -1..AttemptTimeout
      BY <2>2, WorkerAssumption DEF Earlier
    <2> HIDE DEF Earlier
    <2>4. CASE row[l].status = "free"
      BY <2>0, <2>1, <2>4
    <2>5. CASE row[l].status # "free" /\ Forgotten(l)
      <3> DEFINE x == [row[l] EXCEPT !.expires = -1]
      <3>1. row'[l] = [x EXCEPT !.deadline = -1]
        BY <2>1, <2>5
      <3>2. x \in Row /\ x.expires = -1 /\ x.status = row[l].status
        BY <2>0, <2>3 DEF Row
      <3> HIDE DEF x
      <3>3. row'[l] \in Row /\ row'[l].expires = -1 /\ row'[l].deadline = -1 /\ row'[l].status = row[l].status
        BY <2>3, <3>1, <3>2 DEF Row
      <3> QED BY <2>5, <3>3
    <2>6. CASE row[l].status # "free" /\ ~Forgotten(l)
      <3> DEFINE e == Earlier(row[l].expires)
                 d == Earlier(row[l].deadline)
                 x == [row[l] EXCEPT !.expires = e]
      <3>1. row'[l] = [x EXCEPT !.deadline = d]
        BY <2>1, <2>6
      <3>2. e \in -1..LeaseDuration /\ d \in -1..AttemptTimeout
        BY <2>3
      <3> HIDE DEF e, d
      <3>3. x \in Row /\ x.expires = e /\ x.status = row[l].status
        BY <2>0, <3>2 DEF Row
      <3> HIDE DEF x
      <3>4. row'[l] \in Row /\ row'[l].expires = e /\ row'[l].deadline = d /\ row'[l].status = row[l].status
        BY <3>1, <3>2, <3>3 DEF Row
      <3> QED BY <2>3, <2>6, <3>4 DEF e, d
    <2> QED BY <2>4, <2>5, <2>6
  <1> QED BY <1>1, <1>2

\* An answer under way gets older.
LEMMA TickedAnswer ==
    ASSUME Typed, Tick
    PROVE  /\ hb' \in Heartbeat /\ hb'.at = hb.at /\ hb'.left = hb.left /\ hb'.done = hb.done
           /\ hb.at = "answered" => hb'.age = hb.age + 1
  <1>1. hb \in Heartbeat
    BY DEF Typed
  <1>2. CASE hb.at = "answered"
    <2>1. hb' = [hb EXCEPT !.age = hb.age + 1]
      BY <1>2 DEF Tick
    <2>2. hb.age + 1 \in 0..MaxDelay
      <3>1. hb.age \in 0..MaxDelay
        BY <1>1 DEF Heartbeat
      <3>2. hb.age < MaxDelay
        BY <1>2 DEF Tick
      <3> QED BY <3>1, <3>2, WorkerAssumption
    <2> QED BY <1>1, <2>1, <2>2 DEF Heartbeat
  <1>3. CASE hb.at # "answered"
    BY <1>1, <1>3 DEF Tick, Heartbeat
  <1> QED BY <1>2, <1>3

\* The steps of the goroutine that saw its session lost.
LEMMA RefusedHeartbeat ==
    ASSUME Typed, HeartbeatRefused
    PROVE  /\ hb' \in Heartbeat /\ hb'.left = hb.left /\ hb'.at \in {"reported", "ended"}
           /\ hb'.at = "ended" => StopRun /\ hb'.done = hb.done /\ poll' = poll
           /\ hb'.at = "reported" =>
                /\ UNCHANGED <<run, task>> /\ poll' \in {poll, FALSE}
                /\ \/ hb.at = "refused" /\ hb'.done = "error"
                   \/ hb.at = "reported" /\ hb'.done = hb.done
  <1>1. hb \in Heartbeat
    BY DEF Typed
  <1>2. CASE /\ hb.at = "refused" /\ hb' = [hb EXCEPT !.at = "reported", !.done = "error"]
             /\ UNCHANGED <<poll, run, task>>
    <2> DEFINE h == [hb EXCEPT !.at = "reported"]
    <2>1. h \in Heartbeat /\ h.at = "reported" /\ h.left = hb.left
      BY <1>1, HeartbeatNames DEF Heartbeat
    <2>2. hb' = [h EXCEPT !.done = "error"]
      BY <1>2
    <2> HIDE DEF h
    <2>3. hb' \in Heartbeat /\ hb'.at = "reported" /\ hb'.left = hb.left /\ hb'.done = "error"
      BY <2>1, <2>2 DEF Heartbeat
    <2>4. hb.at = "refused" /\ poll' = poll /\ run' = run /\ task' = task
      BY <1>2
    <2> HIDE <1>2
    <2> QED BY <2>3, <2>4
  <1>3. CASE hb.at = "reported" /\ poll' = FALSE /\ UNCHANGED <<hb, run, task>>
    BY <1>1, <1>3, HeartbeatNames DEF Heartbeat
  <1>4. CASE hb.at = "reported" /\ hb' = [hb EXCEPT !.at = "ended"] /\ StopRun /\ UNCHANGED poll
    BY <1>1, <1>4, HeartbeatNames DEF Heartbeat
  <1> QED BY <1>2, <1>3, <1>4 DEF HeartbeatRefused

(* The steps that leave every execution as it is or stop all of them.        *)
Quiet ==
    \/ Loop \/ ClaimFails \/ WaitOver \/ Left \/ Drained \/ Join \/ ShutdownExpires
    \/ ClaimRefused \/ SessionLost \/ ServeDrain \/ Finish \/ ParentStops \/ SessionOffline

\* The steps that concern neither the heartbeat goroutine nor a row.
LEMMA QuietSteps ==
    ASSUME Typed, Quiet
    PROVE  /\ hb' = hb /\ row' = row
           /\ StopRun \/ UNCHANGED <<run, task>>
           /\ main' \in Process
           /\ parent' \in BOOLEAN /\ poll' \in BOOLEAN
           /\ session' \in {"active", "draining", "stopped", "offline"}
  <1>1. main' \in Process
    BY TypedAlive, ProcessTyped DEF Quiet, Typed, ParentStops, SessionOffline
  <1> USE DEF Typed
  <1>2. CASE Loop \/ ClaimFails \/ WaitOver \/ Left \/ Drained \/ Join \/ ShutdownExpires
    BY <1>1, <1>2 DEF Loop, ClaimFails, WaitOver, Left, Drained, Join, ShutdownExpires
  <1>3. CASE ClaimRefused \/ SessionLost \/ Finish
    BY <1>1, <1>3 DEF ClaimRefused, SessionLost, Finish
  <1>4. CASE ServeDrain \/ ParentStops \/ SessionOffline
    BY <1>1, <1>4 DEF ServeDrain, DrainSession, ParentStops, SessionOffline
  <1> QED BY <1>2, <1>3, <1>4 DEF Quiet

(* Next, by what the steps do to the executions.                             *)
LEMMA Steps ==
    Next => \/ Quiet \/ ServeClaim \/ StartLeases \/ Await
            \/ HeartbeatTick \/ ServeHeartbeat \/ HeartbeatFails \/ HeartbeatAnswered
            \/ HeartbeatRefused \/ Tick
            \/ \E l \in Lease : \/ ExecutorReturns(l) \/ Submit(l) \/ SubmitEnds(l)
                               \/ RenewTimer(l) \/ TimerFires(l) \/ CloseRow(l)
  BY DEF Next, Main, Heartbeats, ControlPlane, LeaseStep, Quiet

(* Every step keeps the types; contexts never come back to life.             *)
LEMMA NextTyped == TypeOK /\ [Next]_vars => TypeOK'
  <1> SUFFICES ASSUME Typed, [Next]_vars PROVE TypeOK'
    BY TypedAlive
  <1>1. CASE Quiet
    <2>1. TypeOK'
      BY <1>1, QuietSteps, SameTasks, TypedStep DEF Typed
    <2> QED BY <2>1
  <1>2. CASE ServeClaim
    <2>1. main' \in Process
      BY <1>2, TypedAlive, ProcessTyped
    <2>2. UNCHANGED <<session, parent, poll, run, hb, task>>
      BY <1>2 DEF ServeClaim
    <2> QED BY <1>2, <2>1, <2>2, ClaimedRows, TypedStep DEF Typed
  <1>3. CASE StartLeases
    <2>1. main' \in Process
      BY <1>3, TypedAlive, ProcessTyped
    <2>2. UNCHANGED <<session, row, parent, poll, run, hb>>
      BY <1>3 DEF StartLeases
    <2>3. task' \in [Lease -> Task]
      BY <1>3, StartedTasks
    <2>4. ASSUME NEW l \in Lease, Alive(task'[l]) PROVE run'
      <3>1. run
        BY <1>3, <2>4, StartedTasks
      <3> QED BY <2>2, <3>1
    <2> QED BY <2>1, <2>2, <2>3, <2>4, TypedStep DEF Typed
  <1>4. CASE Await
    <2>1. main' \in Process
      BY <1>4, TypedAlive, ProcessTyped
    <2>2. UNCHANGED <<session, row, parent, poll, run, hb>> /\ task' \in {task, Canceled(Lease)}
      BY <1>4 DEF Await
    <2>3. task' \in [Lease -> Task] /\ \A l \in Lease : Alive(task'[l]) => Alive(task[l])
      BY <2>2, CanceledTasks DEF Typed
    <2> QED BY <2>1, <2>2, <2>3, TypedStep DEF Typed
  <1>5. CASE HeartbeatTick
    <2>1. UNCHANGED <<session, row, parent, poll, run, main, task>>
      BY <1>5 DEF HeartbeatTick
    <2> QED BY <1>5, <2>1, TickedHeartbeat, TypedStep DEF Typed
  <1>6. CASE ServeHeartbeat
    <2>1. UNCHANGED <<session, parent, poll, run, main, task>>
      BY <1>6 DEF ServeHeartbeat
    <2> QED BY <1>6, <2>1, ServedHeartbeat, TypedStep DEF Typed
  <1>7. CASE HeartbeatFails
    <2>1. UNCHANGED <<session, row, parent, poll, run, main, task>>
      BY <1>7 DEF HeartbeatFails
    <2> QED BY <1>7, <2>1, HeartbeatOver, TypedStep DEF Typed
  <1>8. CASE HeartbeatAnswered
    <2>1. UNCHANGED <<session, row, parent, poll, run, main>>
      BY <1>8 DEF HeartbeatAnswered
    <2>2. task' \in [Lease -> Task] /\ \A l \in Lease : Alive(task'[l]) => Alive(task[l])
      BY <1>8, AnsweredTasks
    <2> QED BY <1>8, <2>1, <2>2, HeartbeatOver, TypedStep DEF Typed
  <1>9. CASE HeartbeatRefused
    <2>1. UNCHANGED <<session, row, parent, main>> /\ poll' \in BOOLEAN
      BY <1>9, RefusedHeartbeat DEF HeartbeatRefused, Typed
    <2>2. hb' \in Heartbeat /\ (StopRun \/ UNCHANGED <<run, task>>)
      BY <1>9, RefusedHeartbeat
    <2> QED BY <2>1, <2>2, SameTasks, TypedStep DEF Typed
  <1>10. CASE Tick
    <2>1. UNCHANGED <<session, parent, poll, run, main>>
      BY <1>10 DEF Tick
    <2>2. task' \in [Lease -> Task] /\ \A l \in Lease : Alive(task'[l]) => Alive(task[l])
      BY <1>10, TickedTasks
    <2> QED BY <1>10, <2>1, <2>2, TickedRows, TickedAnswer, TypedStep DEF Typed
  <1>11. ASSUME NEW l \in Lease,
                \/ ExecutorReturns(l) \/ SubmitEnds(l) \/ RenewTimer(l) \/ TimerFires(l)
         PROVE  TypeOK'
    <2>1. UNCHANGED <<session, row, parent, poll, run, main, hb>>
      BY <1>11 DEF ExecutorReturns, SubmitEnds, RenewTimer, TimerFires
    <2>2. task' \in [Lease -> Task] /\ \A k \in Lease : Alive(task'[k]) => Alive(task[k])
      BY <1>11, LeaseTyped
    <2> QED BY <2>1, <2>2, TypedStep DEF Typed
  <1>12. ASSUME NEW l \in Lease, Submit(l) PROVE TypeOK'
    <2>1. UNCHANGED <<session, parent, poll, run, main, hb>>
      BY <1>12 DEF Submit
    <2>2. task' \in [Lease -> Task] /\ \A k \in Lease : Alive(task'[k]) => Alive(task[k])
      BY <1>12, LeaseTyped
    <2>3. row' \in [Lease -> Row]
      BY <1>12, ClosedRows
    <2> QED BY <2>1, <2>2, <2>3, TypedStep DEF Typed
  <1>13. ASSUME NEW l \in Lease, CloseRow(l) PROVE TypeOK'
    <2>1. UNCHANGED <<session, parent, poll, run, main, hb, task>>
      BY <1>13 DEF CloseRow
    <2>2. row' \in [Lease -> Row]
      BY <1>13, ClosedRows
    <2> QED BY <2>1, <2>2, TypedStep DEF Typed
  <1>14. CASE UNCHANGED vars
    BY <1>14, TypedStep DEF vars, Typed
  <1> QED BY <1>1, <1>2, <1>3, <1>4, <1>5, <1>6, <1>7, <1>8, <1>9, <1>10, <1>11, <1>12, <1>13,
             <1>14, Steps

-----------------------------------------------------------------------------
(* Slots.                                                                    *)

(* All steps but startLease only take leases out of leaseState.              *)
LEMMA FewerActive ==
    ASSUME TypeOK, [Next]_vars, ~StartLeases
    PROVE  /\ Active' \subseteq Active
           /\ Cardinality(Active') \in Nat /\ Cardinality(Active') <= Cardinality(Active)
  <1>0. Typed
    BY TypedAlive
  <1>1. \A l \in Lease : task'[l].at \in {"executing", "submitting"}
                            => task[l].at \in {"executing", "submitting"}
    <2>1. CASE Quiet \/ HeartbeatRefused
      <3>1. StopRun \/ UNCHANGED <<run, task>>
        BY <1>0, <2>1, QuietSteps, RefusedHeartbeat
      <3> QED BY <1>0, <3>1, SameTasks
    <2>2. CASE ServeClaim \/ HeartbeatTick \/ ServeHeartbeat \/ HeartbeatFails
                 \/ (\E l \in Lease : CloseRow(l)) \/ UNCHANGED vars
      BY <2>2 DEF ServeClaim, HeartbeatTick, ServeHeartbeat, HeartbeatFails, CloseRow, vars
    <2>3. CASE Await
      <3>1. task' \in {task, Canceled(Lease)} /\ task \in [Lease -> Task]
        BY <1>0, <2>3 DEF Await, Typed
      <3> QED BY <3>1, CanceledTasks
    <2>4. CASE HeartbeatAnswered
      BY <1>0, <2>4, AnsweredTasks
    <2>5. CASE Tick
      BY <1>0, <2>5, TickedTasks
    <2>6. ASSUME NEW l \in Lease, NEW k \in Lease,
                 ExecutorReturns(l) \/ Submit(l) \/ SubmitEnds(l) \/ RenewTimer(l) \/ TimerFires(l)
          PROVE  task'[k].at \in {"executing", "submitting"}
                     => task[k].at \in {"executing", "submitting"}
      <3>1. CASE k # l
        BY <1>0, <2>6, <3>1, LeaseTyped
      <3>2. CASE k = l
        <4>1. Live(l) => task[l].at \in {"executing", "submitting"}
          BY DEF Live, Active
        <4> QED BY <2>6, <3>2, <4>1 DEF ExecutorReturns, Submit, SubmitEnds, RenewTimer, TimerFires
      <3> QED BY <3>1, <3>2
    <2> QED BY <2>1, <2>2, <2>3, <2>4, <2>5, <2>6, Steps
  <1>2. Active' \subseteq Active
    BY <1>1 DEF Active
  <1> QED BY <1>2, ActiveFinite, FS_Subset, FS_CardinalityType

(* Only the loop asks for leases.                                            *)
LEMMA MainMoves ==
    ASSUME Typed, Quiet \/ Await
    PROVE  \/ UNCHANGED main \/ main'.at \notin {"claim", "claimed"}
           \/ Loop /\ main'.at = "claim"
  <1> USE DEF Typed, Process
  <1>1. CASE Loop \/ ClaimFails \/ WaitOver \/ Left
    BY <1>1 DEF Loop, ClaimFails, WaitOver, Left
  <1>2. CASE Drained \/ Join \/ ShutdownExpires \/ Await
    BY <1>2 DEF Drained, Join, ShutdownExpires, Await
  <1>3. CASE ClaimRefused \/ SessionLost \/ Finish
    BY <1>3 DEF ClaimRefused, SessionLost, Finish
  <1>4. CASE ServeDrain \/ ParentStops \/ SessionOffline
    BY <1>4 DEF ServeDrain, DrainSession, ParentStops, SessionOffline
  <1> QED BY <1>1, <1>2, <1>3, <1>4 DEF Quiet

\* Every step keeps the slots.
LEMMA SlotsKept == TypeOK /\ SlotsInv /\ [Next]_vars => SlotsInv'
  <1> SUFFICES ASSUME TypeOK, SlotsInv, [Next]_vars PROVE SlotsInv'
    OBVIOUS
  <1>0. /\ Typed /\ main \in Process /\ main.ask \in Nat
        /\ Cardinality(Active) \in Nat /\ IsFiniteSet(Active)
        /\ MaxConcurrency \in Nat
    BY TypedAlive, ActiveFinite, WorkerAssumption DEF TypeOK, Process
  <1>1. CASE StartLeases
    <2>1. IsFiniteSet(main.got) /\ Cardinality(main.got) \in Nat
      BY <1>0, LeasesFinite DEF Process
    <2>2. Active' \subseteq Active \cup main.got
      BY <1>0, <1>1, StartedTasks DEF Active
    <2>3. IsFiniteSet(Active \cup main.got) /\ Cardinality(Active \cup main.got) \in Nat
          /\ Cardinality(Active \cup main.got) <= Cardinality(Active) + Cardinality(main.got)
      <3>1. IsFiniteSet(Active \cup main.got) /\ IsFiniteSet(Active \cap main.got)
        BY <1>0, <2>1, FS_Union, FS_Intersection
      <3>2. Cardinality(Active \cup main.got)
              = Cardinality(Active) + Cardinality(main.got) - Cardinality(Active \cap main.got)
        BY <1>0, <2>1, FS_Union
      <3> QED BY <1>0, <2>1, <3>1, <3>2, FS_CardinalityType
    <2>4. Cardinality(Active') \in Nat /\ Cardinality(Active') <= Cardinality(Active \cup main.got)
      BY <2>2, <2>3, FS_Subset, FS_CardinalityType
    <2>5. main.at = "claimed" /\ main'.at \notin {"claim", "claimed"}
      BY <1>0, <1>1 DEF StartLeases, Process
    <2>6. Cardinality(Active) + Cardinality(main.got) <= MaxConcurrency
      BY <2>5 DEF SlotsInv
    <2>7. Cardinality(Active') <= MaxConcurrency
      BY <1>0, <2>1, <2>3, <2>4, <2>6
    <2> QED BY <2>5, <2>7 DEF SlotsInv, SlotBound
  <1>2. CASE ~StartLeases
    <2>1. /\ Cardinality(Active') \in Nat /\ Cardinality(Active') <= Cardinality(Active)
          /\ Cardinality(Active') <= MaxConcurrency
      BY <1>0, <1>2, FewerActive DEF SlotsInv, SlotBound
    <2>2. CASE UNCHANGED main
      <3>1. CASE main.at = "claim"
        BY <1>0, <2>1, <2>2, <3>1 DEF SlotsInv, SlotBound
      <3>2. CASE main.at = "claimed"
        <4>1. Cardinality(main.got) \in Nat
          BY <1>0, LeasesFinite DEF Process
        <4> QED BY <1>0, <2>1, <2>2, <3>2, <4>1 DEF SlotsInv, SlotBound
      <3>3. CASE main.at \notin {"claim", "claimed"}
        BY <2>1, <2>2, <3>3 DEF SlotsInv, SlotBound
      <3> QED BY <3>1, <3>2, <3>3
    <2>3. CASE main'.at \notin {"claim", "claimed"}
      BY <2>1, <2>3 DEF SlotsInv, SlotBound
    <2>4. CASE Loop /\ main'.at = "claim"
      <3>1. main'.ask = MaxConcurrency - Cardinality(Active)
        BY <1>0, <2>4 DEF Loop, Slots, Process
      <3> QED BY <1>0, <2>1, <2>4, <3>1 DEF SlotsInv, SlotBound
    <2>5. ASSUME NEW S \in SUBSET Lease, Cardinality(S) <= main.ask, main.at = "claim",
                 main' = [main EXCEPT !.at = "claimed", !.got = S]
          PROVE  SlotsInv'
      <3>1. main'.at = "claimed" /\ main'.got = S
        BY <1>0, <2>5 DEF Process
      <3>2. Cardinality(S) \in Nat
        BY LeasesFinite
      <3>3. Cardinality(Active) + main.ask <= MaxConcurrency
        BY <2>5 DEF SlotsInv
      <3>4. Cardinality(Active') + Cardinality(S) <= MaxConcurrency
        BY <1>0, <2>1, <2>5, <3>2, <3>3
      <3> QED BY <2>1, <3>1, <3>4 DEF SlotsInv, SlotBound
    <2>6. \/ UNCHANGED main \/ main'.at \notin {"claim", "claimed"}
          \/ Loop /\ main'.at = "claim"
          \/ ServeClaim
      BY <1>0, <1>2, Steps, MainMoves
         DEF Await, HeartbeatTick, ServeHeartbeat, HeartbeatFails, HeartbeatAnswered,
             HeartbeatRefused, Tick, ExecutorReturns, Submit, SubmitEnds, RenewTimer, TimerFires,
             CloseRow, vars
    <2>7. CASE ServeClaim
      <3>1. main.at = "claim"
        BY <2>7 DEF ServeClaim
      <3>2. CASE main' = [main EXCEPT !.at = "refused"]
        BY <1>0, <2>3, <3>2 DEF Process
      <3> QED BY <1>0, <2>5, <2>7, <3>1, <3>2, ClaimedRows
    <2> QED BY <2>2, <2>3, <2>4, <2>6, <2>7
  <1> QED BY <1>1, <1>2

-----------------------------------------------------------------------------
(* The goroutines end in order.                                              *)

\* Every step keeps the order in which the goroutines end.
LEMMA ControlKept == TypeOK /\ ControlInv /\ [Next]_vars => ControlInv'
  <1> SUFFICES ASSUME TypeOK, ControlInv, [Next]_vars PROVE ControlInv'
    OBVIOUS
  <1>0. Typed /\ main \in Process /\ hb \in Heartbeat
    BY TypedAlive DEF TypeOK
  <1>1. Active' \subseteq Active \/ main'.at \in {"wait", "loop"}
    BY <1>0, FewerActive DEF StartLeases, Process
  <1> USE DEF ControlInv, Gone, Leaving, Process
  <1>2. CASE Loop
    BY <1>0, <1>1, <1>2 DEF Loop
  <1>3. CASE ClaimFails
    BY <1>0, <1>1, <1>3 DEF ClaimFails
  <1>4. CASE WaitOver
    BY <1>0, <1>1, <1>4 DEF WaitOver
  <1>5. CASE Left
    BY <1>0, <1>1, <1>5 DEF Left
  <1>6. CASE Drained
    BY <1>0, <1>1, <1>6 DEF Drained
  <1>7. CASE Join
    BY <1>0, <1>1, <1>7 DEF Join
  <1>8. CASE ShutdownExpires
    BY <1>0, <1>1, <1>8 DEF ShutdownExpires
  <1>9. CASE ClaimRefused
    <2>1. main'.at = "lost" /\ main.at = "refused" /\ UNCHANGED <<session, parent, hb>> /\ run' = FALSE
      BY <1>0, <1>9 DEF ClaimRefused, StopRun
    <2> QED BY <1>0, <1>1, <2>1
  <1>10. CASE SessionLost
    <2>1. main.at = "lost" /\ UNCHANGED <<session, parent, hb>>
      BY <1>10 DEF SessionLost
    <2>2. CASE run' = FALSE /\ UNCHANGED <<poll, main>>
      BY <1>0, <1>1, <2>1, <2>2
    <2>3. CASE ~run /\ Active = {} /\ hb.done # "no" /\ UNCHANGED run
                /\ main' = [main EXCEPT !.at = "exited", !.result = "error"]
      <3>1. main'.at = "exited" /\ main'.result = "error"
        BY <1>0, <2>3
      <3> QED BY <1>0, <1>1, <2>1, <2>3, <3>1
    <2> QED BY <1>10, <2>2, <2>3 DEF SessionLost, StopRun
  <1>11. CASE ServeDrain
    <2>1. main.at \in {"drain", "drainAgain"} /\ UNCHANGED <<parent, poll, run, hb, task>>
      BY <1>11 DEF ServeDrain
    <2>2. CASE ~Gone
      <3>1. /\ parent
            /\ main'.at \in {"drained", "drainedAgain"} /\ (main'.at = "drained" <=> main.at = "drain")
        BY <1>0, <1>11, <2>1, <2>2 DEF ServeDrain, DrainSession
      <3>2. hb.at \notin {"refused", "reported"} /\ hb.done # "error"
        BY <2>2
      <3> QED BY <1>0, <1>1, <2>1, <3>1, <3>2
    <2>3. CASE Gone
      <3>1. /\ main'.drain = "error" /\ session' = session
            /\ main'.at \in {"await", "finish"} /\ (main'.at = "await" <=> main.at = "drain")
        BY <1>0, <1>11, <2>1, <2>3 DEF ServeDrain, DrainSession
      <3> QED BY <1>0, <1>1, <2>1, <2>3, <3>1
    <2> QED BY <2>2, <2>3
  <1>12. CASE Finish
    <2>1. main.at = "finish" /\ UNCHANGED <<session, parent, hb>>
      BY <1>12 DEF Finish
    <2>2. CASE run' = FALSE /\ UNCHANGED <<poll, main>>
      BY <1>0, <1>1, <2>1, <2>2
    <2>3. CASE ~run /\ hb.done # "no" /\ UNCHANGED run
                /\ main' = [main EXCEPT !.at = "exited",
                              !.result = IF parent THEN "stopped"
                                         ELSE IF main.drain = "error" THEN "error" ELSE "ok"]
      <3>1. main'.at = "exited" /\ (~parent => main'.result = "error") /\ Active = {}
        BY <1>0, <2>1, <2>3
      <3> QED BY <1>0, <1>1, <2>1, <2>3, <3>1
    <2> QED BY <1>12, <2>2, <2>3 DEF Finish, StopRun
  <1>13. CASE ParentStops
    BY <1>0, <1>1, <1>13 DEF ParentStops
  <1>14. CASE SessionOffline
    BY <1>0, <1>1, <1>14 DEF SessionOffline
  <1>15. CASE ServeClaim
    BY <1>0, <1>1, <1>15 DEF ServeClaim
  <1>16. CASE StartLeases
    BY <1>0, <1>1, <1>16 DEF StartLeases
  <1>17. CASE Await
    BY <1>0, <1>1, <1>17 DEF Await
  <1>18. CASE HeartbeatTick
    BY <1>0, <1>1, <1>18, TickedHeartbeat DEF HeartbeatTick
  <1>19. CASE ServeHeartbeat
    BY <1>0, <1>1, <1>19, ServedHeartbeat DEF ServeHeartbeat
  <1>20. CASE HeartbeatFails
    BY <1>0, <1>1, <1>20, HeartbeatOver DEF HeartbeatFails
  <1>21. CASE HeartbeatAnswered
    BY <1>0, <1>1, <1>21, HeartbeatOver DEF HeartbeatAnswered
  <1>22. CASE HeartbeatRefused
    <2>1. UNCHANGED <<session, row, parent, main>> /\ Gone
      BY <1>22 DEF HeartbeatRefused
    <2>2. CASE hb'.at = "ended"
      <3>1. run' = FALSE /\ hb'.done = hb.done /\ hb.at = "reported" /\ poll' = poll
        BY <1>0, <1>22, <2>2, RefusedHeartbeat DEF HeartbeatRefused, StopRun, Heartbeat
      <3> QED BY <1>0, <1>1, <2>1, <2>2, <3>1
    <2>3. CASE hb'.at = "reported"
      <3>1. UNCHANGED <<run, task>> /\ hb'.done # "no"
        BY <1>0, <1>22, <2>3, RefusedHeartbeat
      <3> QED BY <1>0, <1>1, <2>1, <2>3, <3>1
    <2> QED BY <1>0, <1>22, <2>2, <2>3, RefusedHeartbeat
  <1>23. CASE Tick
    BY <1>0, <1>1, <1>23, TickedAnswer DEF Tick
  <1>24. CASE \E l \in Lease : \/ ExecutorReturns(l) \/ Submit(l) \/ SubmitEnds(l)
                               \/ RenewTimer(l) \/ TimerFires(l) \/ CloseRow(l)
    BY <1>0, <1>1, <1>24 DEF ExecutorReturns, Submit, SubmitEnds, RenewTimer, TimerFires, CloseRow
  <1>25. CASE UNCHANGED vars
    BY <1>0, <1>1, <1>25 DEF vars
  <1> QED BY <1>2, <1>3, <1>4, <1>5, <1>6, <1>7, <1>8, <1>9, <1>10, <1>11, <1>12, <1>13, <1>14,
             <1>15, <1>16, <1>17, <1>18, <1>19, <1>20, <1>21, <1>22, <1>23, <1>24, <1>25,
             Steps DEF Quiet

-----------------------------------------------------------------------------
(* No execution without a lease.                                             *)

(* The margin covers the skew of the clocks and the delay of an answer.      *)
Margins == Skew <= SafetyMargin /\ MaxDelay <= SafetyMargin

\* A lease goroutine leaves its timer alone or restarts it with a renewal.
LEMMA LeaseTimes ==
    ASSUME Typed, NEW l \in Lease, Alive(task'[l]),
           \/ ExecutorReturns(l) \/ Submit(l) \/ SubmitEnds(l) \/ RenewTimer(l) \/ TimerFires(l)
    PROVE  \/ task'[l].timer = task[l].timer /\ task'[l].renew = task[l].renew
           \/ task'[l].timer = renewedDelay(l) /\ task'[l].renew = NoBox /\ renewedDelay(l) > 0
  <1>0. task \in [Lease -> Task] /\ task[l] \in Task
    BY DEF Typed
  <1>1. CASE task' = [task EXCEPT ![l] = EndedTask]
    BY <1>0, <1>1, EndedFacts
  <1>2. CASE task' = Canceled({l})
    BY <1>0, <1>2, CanceledTasks
  <1>3. CASE task' = [task EXCEPT ![l].at = "submitting"]
    BY <1>0, <1>3 DEF Task
  <1>4. CASE task' = [task EXCEPT ![l].timer = renewedDelay(l), ![l].renew = NoBox]
              /\ ~(renewedDelay(l) <= 0)
    <2>1. renewedDelay(l) > 0
      <3>1. task[l].renew.left \in Int /\ row[l].deadline \in Int
        BY <1>0, WorkerAssumption DEF Typed, Task, Box, Row
      <3> QED BY <1>4, <3>1, WorkerAssumption DEF renewedDelay, Lower
    <2> HIDE DEF renewedDelay
    <2> QED BY <1>0, <1>4, <2>1 DEF Task
  <1>5. CASE task' = task
    BY <1>5
  <1> QED BY <1>1, <1>2, <1>3, <1>4, <1>5
          DEF ExecutorReturns, Submit, SubmitEnds, RenewTimer, TimerFires

(* A renewal takes the margin off what was promised, and so its age.         *)
LEMMA RenewedInTime ==
    ASSUME Margins, Typed, NEW l \in Lease
    PROVE  renewedDelay(l) <= task[l].renew.left - task[l].renew.age
  <1>1. /\ task[l].renew.left \in Int /\ row[l].deadline \in Int
        /\ task[l].renew.age \in Int /\ task[l].renew.age <= MaxDelay
    BY WorkerAssumption DEF Typed, Task, Box, Row
  <1> QED BY <1>1, WorkerAssumption DEF Margins, renewedDelay, Lower

\* The first timer of a lease fires before the lease is over, if clocks differ by no more than the
\* margin.
LEMMA StartedInTime ==
    ASSUME Margins, Typed, NEW l \in Lease
    PROVE  localSafetyDelay(l) <= row[l].expires
  <1>1. row[l].expires \in Int /\ row[l].deadline \in Int
    BY WorkerAssumption DEF Typed, Row
  <1> QED BY <1>1, WorkerAssumption DEF Margins, localSafetyDelay, Lower

\* Claimed leases that are not started are dropped all at once.
LEMMA QuietGot ==
    ASSUME Typed, Quiet \/ Await
    PROVE  main'.got \in {main.got, {}}
  <1> USE DEF Typed, Process
  <1>1. CASE Loop \/ ClaimFails \/ WaitOver \/ Left
    BY <1>1 DEF Loop, ClaimFails, WaitOver, Left
  <1>2. CASE Drained \/ Join \/ ShutdownExpires \/ Await
    BY <1>2 DEF Drained, Join, ShutdownExpires, Await
  <1>3. CASE ClaimRefused \/ SessionLost \/ Finish
    BY <1>3 DEF ClaimRefused, SessionLost, Finish
  <1>4. CASE ServeDrain \/ ParentStops \/ SessionOffline
    BY <1>4 DEF ServeDrain, DrainSession, ParentStops, SessionOffline
  <1> QED BY <1>1, <1>2, <1>3, <1>4 DEF Quiet

(* Steps that touch neither row nor answer.                                  *)
LEMMA SameTimes ==
    ASSUME Typed, TimesInv, NEW l \in Lease,
           row'[l] = row[l], hb' = hb, main'.got \in {main.got, {}},
           task'[l].at = task[l].at, Alive(task'[l]) => task'[l] = task[l]
    PROVE  TimesOf(l, task'[l], row'[l], hb', main'.got)
  <1>1. TimesOf(l, task[l], row[l], hb, main.got)
    BY DEF TimesInv
  <1> QED BY <1>1 DEF TimesOf

\* Every step keeps each timer ahead of the expiry of its lease.
LEMMA TimesKept == Margins /\ TypeOK /\ TimesInv /\ [Next]_vars => TimesInv'
  <1> SUFFICES ASSUME Margins, Typed, TimesInv, [Next]_vars, NEW l \in Lease
               PROVE  TimesOf(l, task'[l], row'[l], hb', main'.got)
    BY TypedAlive DEF TimesInv
  <1> DEFINE Goal == TimesOf(l, task'[l], row'[l], hb', main'.got)
  <1>0. TimesOf(l, task[l], row[l], hb, main.got)
    BY DEF TimesInv
  <1>t. /\ main \in Process /\ hb \in Heartbeat /\ row[l] \in Row /\ task[l] \in Task
        /\ row[l].expires \in Int /\ row[l].deadline \in Int
        /\ row[l].expires <= LeaseDuration
        /\ task[l].timer \in Nat /\ task[l].renew.left \in Int /\ task[l].renew.age \in Int
    BY WorkerAssumption DEF Typed, Row, Task, Box
  <1>h. hb.age \in Int /\ \A k \in DOMAIN hb.left : hb.left[k] \in Int
    BY WorkerAssumption DEF Typed, Heartbeat, Answers
  <1>1. CASE Quiet
    <2>1. /\ row' = row /\ hb' = hb /\ main'.got \in {main.got, {}}
          /\ StopRun \/ UNCHANGED <<run, task>>
      BY <1>1, QuietSteps, QuietGot
    <2>2. task'[l].at = task[l].at /\ (Alive(task'[l]) => task'[l] = task[l])
      BY <2>1, SameTasks
    <2> QED BY <2>1, <2>2, SameTimes
  <1>2. CASE Await
    <2>1. row' = row /\ hb' = hb /\ main'.got \in {main.got, {}} /\ task' \in {task, Canceled(Lease)}
      BY <1>2, QuietGot DEF Await
    <2>2. task'[l].at = task[l].at /\ (Alive(task'[l]) => task'[l] = task[l])
      BY <2>1, CanceledTasks DEF Typed
    <2> QED BY <2>1, <2>2, SameTimes
  <1>3. CASE ServeClaim
    <2>1. hb' = hb /\ task' = task
      BY <1>3 DEF ServeClaim
    <2>2. CASE row' = row /\ main' = [main EXCEPT !.at = "refused"]
      <3>1. main'.got = main.got
        BY <1>t, <2>2 DEF Process
      <3> QED BY <2>1, <2>2, <3>1, SameTimes
    <2>3. ASSUME NEW S \in SUBSET Lease,
                 main' = [main EXCEPT !.at = "claimed", !.got = S],
                 \A k \in S : row[k].status = "free" /\ row'[k] = LeasedRow,
                 \A k \in Lease \ S : row'[k] = row[k]
          PROVE  Goal
      <3>1. main'.got = S
        BY <1>t, <2>3 DEF Process
      <3>2. CASE l \in S
        <4>1. LeasedRow.expires <= LeasedRow.deadline /\ LeasedRow.status = "leased"
          BY WorkerAssumption DEF LeasedRow, Lower
        <4>2. task[l].at = "none" /\ l \notin DOMAIN hb.left /\ row'[l] = LeasedRow
          BY <1>0, <2>3, <3>2 DEF TimesOf
        <4>3. ~Alive(task[l])
          BY <4>2 DEF Alive
        <4> QED BY <2>1, <3>1, <3>2, <4>1, <4>2, <4>3 DEF TimesOf
      <3>3. CASE l \notin S
        <4>1. row'[l] = row[l]
          BY <2>3, <3>3
        <4> QED BY <1>0, <2>1, <3>1, <3>3, <4>1 DEF TimesOf
      <3> QED BY <3>2, <3>3
    <2> QED BY <1>3, <2>2, <2>3, ClaimedRows
  <1>4. CASE StartLeases
    <2>1. row' = row /\ hb' = hb /\ main'.got = {}
      BY <1>4, <1>t DEF StartLeases, Process
    <2>2. CASE l \notin main.got
      <3>1. task'[l] = task[l]
        BY <1>4, <2>2, StartedTasks
      <3> QED BY <2>1, <3>1, SameTimes
    <2>3. CASE l \in main.got
      <3>1. row[l].status # "free" /\ l \notin DOMAIN hb.left /\ row[l].expires <= row[l].deadline
        BY <1>0, <2>3 DEF TimesOf
      <3>2. Alive(task'[l]) => /\ task'[l].timer = localSafetyDelay(l) /\ task'[l].renew = NoBox
                               /\ task'[l].timer \in Nat
        <4>1. task'[l] \in Task
          BY <1>4, StartedTasks
        <4>2. Alive(task'[l]) => task'[l].timer = localSafetyDelay(l) /\ task'[l].renew = NoBox
          BY <1>4, <2>3, StartedTasks
        <4> QED BY <4>1, <4>2 DEF Task
      <3>3. Alive(task'[l]) => /\ task'[l].timer <= row[l].expires
                               /\ task'[l].renew.left - task'[l].renew.age <= row[l].expires
        BY <1>t, <3>2, StartedInTime DEF NoBox
      <3> QED BY <2>1, <3>1, <3>3 DEF TimesOf
    <2> QED BY <2>2, <2>3
  <1>5. CASE HeartbeatTick
    <2>1. UNCHANGED <<row, main, task>>
      BY <1>5 DEF HeartbeatTick
    <2>2. CASE hb'.at = "ended"
      <3>1. hb'.left = hb.left
        BY <1>5, <2>2, TickedHeartbeat
      <3> QED BY <1>0, <2>1, <2>2, <3>1 DEF TimesOf
    <2>3. CASE hb'.at = "call"
      <3>1. DOMAIN hb'.left = Active
        BY <1>5, <2>3, TickedHeartbeat
      <3>2. l \in Active => task[l].at # "none"
        BY DEF Active
      <3> QED BY <1>0, <2>1, <2>3, <3>1, <3>2 DEF TimesOf
    <2> QED BY <1>5, <2>2, <2>3, TickedHeartbeat
  <1>6. CASE ServeHeartbeat
    <2>1. UNCHANGED <<main, task>>
      BY <1>6 DEF ServeHeartbeat
    <2>2. CASE hb'.at = "refused"
      <3>1. DOMAIN hb'.left = {} /\ row' = row
        BY <1>6, <2>2, ServedHeartbeat
      <3> QED BY <1>0, <2>1, <2>2, <3>1 DEF TimesOf
    <2>3. CASE hb'.at = "answered"
      <3>1. /\ DOMAIN hb'.left = DOMAIN hb.left /\ hb'.age = 0
            /\ row'[l].status = row[l].status /\ row'[l].deadline = row[l].deadline
            /\ \/ /\ row'[l].expires = Lower(LeaseDuration, row[l].deadline)
                  /\ l \in DOMAIN hb.left => hb'.left[l] = row'[l].expires
               \/ /\ row'[l].expires = row[l].expires
                  /\ l \in DOMAIN hb.left => hb'.left[l] = 0
        BY <1>6, <2>3, ServedHeartbeat
      <3>2. row[l].expires <= row[l].deadline
        BY <1>0 DEF TimesOf
      <3>3. CASE row'[l].expires = Lower(LeaseDuration, row[l].deadline)
                  /\ (l \in DOMAIN hb.left => hb'.left[l] = row'[l].expires)
        <4>1. row'[l].expires \in Int /\ row[l].expires <= row'[l].expires /\ row'[l].expires <= row'[l].deadline
          BY <1>t, <3>1, <3>2, <3>3, WorkerAssumption DEF Lower
        <4>2. l \in DOMAIN hb'.left => hb'.left[l] - hb'.age <= row'[l].expires
          BY <3>1, <3>3, <4>1
        <4>3. Alive(task[l]) => /\ task[l].timer <= row'[l].expires
                                /\ task[l].renew.left - task[l].renew.age <= row'[l].expires
          BY <1>0, <1>t, <4>1 DEF TimesOf
        <4> QED BY <1>0, <2>1, <3>1, <4>1, <4>2, <4>3 DEF TimesOf
      <3>4. CASE row'[l].expires = row[l].expires /\ (l \in DOMAIN hb.left => hb'.left[l] = 0)
        <4>1. Alive(task[l]) => row[l].expires >= 0
          BY <1>0, <1>t DEF TimesOf
        <4>2. Alive(task[l]) /\ l \in DOMAIN hb'.left => hb'.left[l] - hb'.age <= row'[l].expires
          BY <1>t, <3>1, <3>4, <4>1
        <4> QED BY <1>0, <2>1, <3>1, <3>4, <4>2 DEF TimesOf
      <3> QED BY <3>1, <3>3, <3>4
    <2> QED BY <1>6, <2>2, <2>3, ServedHeartbeat
  <1>7. CASE HeartbeatFails
    <2>1. UNCHANGED <<row, main, task>> /\ DOMAIN hb'.left = {}
      BY <1>7, HeartbeatOver DEF HeartbeatFails
    <2> QED BY <1>0, <2>1 DEF TimesOf
  <1>8. CASE HeartbeatAnswered
    <2>1. UNCHANGED <<row, main>> /\ DOMAIN hb'.left = {} /\ hb.at = "answered"
      BY <1>8, HeartbeatOver DEF HeartbeatAnswered
    <2>2. /\ task'[l].at = task[l].at
          /\ Alive(task'[l]) =>
               /\ Alive(task[l]) /\ task'[l].timer = task[l].timer
               /\ IF l \in DOMAIN hb.left THEN task'[l].renew = [left |-> hb.left[l], age |-> hb.age]
                  ELSE task'[l].renew = task[l].renew
      BY <1>8, AnsweredTasks
    <2>3. CASE ~Alive(task'[l])
      BY <1>0, <2>1, <2>2, <2>3 DEF TimesOf
    <2>4. CASE Alive(task'[l])
      <3>1. task'[l].renew.left - task'[l].renew.age <= row[l].expires
        <4>1. CASE l \in DOMAIN hb.left
          <5>1. task'[l].renew.left = hb.left[l] /\ task'[l].renew.age = hb.age
            BY <2>2, <2>4, <4>1
          <5>2. hb.left[l] - hb.age <= row[l].expires
            BY <1>0, <2>1, <2>2, <2>4, <4>1 DEF TimesOf
          <5> QED BY <5>1, <5>2
        <4>2. CASE l \notin DOMAIN hb.left
          BY <1>0, <2>2, <2>4, <4>2 DEF TimesOf
        <4> QED BY <4>1, <4>2
      <3>2. task'[l].timer <= row[l].expires
        BY <1>0, <2>2, <2>4 DEF TimesOf
      <3> QED BY <1>0, <2>1, <2>2, <3>1, <3>2 DEF TimesOf
    <2> QED BY <2>3, <2>4
  <1>9. CASE HeartbeatRefused
    <2>1. UNCHANGED <<row, main>>
      BY <1>9 DEF HeartbeatRefused
    <2>2. hb'.left = hb.left /\ hb'.at # "answered" /\ (StopRun \/ UNCHANGED <<run, task>>)
      BY <1>9, RefusedHeartbeat
    <2>3. task'[l].at = task[l].at /\ (Alive(task'[l]) => task'[l] = task[l])
      BY <2>2, SameTasks
    <2> QED BY <1>0, <2>1, <2>2, <2>3 DEF TimesOf
  <1>10. CASE Tick
    <2>1. main' = main /\ hb'.at = hb.at /\ hb'.left = hb.left /\ (hb.at = "answered" => hb'.age = hb.age + 1)
      BY <1>10, TickedAnswer DEF Tick
    <2>2. /\ row'[l].status = row[l].status
          /\ row[l].expires <= row[l].deadline => row'[l].expires <= row'[l].deadline
          /\ row[l].status # "free" /\ ~Forgotten(l) => row'[l].expires >= row[l].expires - 1
          /\ row'[l].expires \in Int
      BY <1>10, TickedRows, WorkerAssumption DEF Row
    <2>3. /\ task'[l].at = task[l].at
          /\ ~Alive(task[l]) => task'[l] = task[l]
          /\ Alive(task[l]) =>
               /\ task[l].timer > 0 /\ task'[l].timer = task[l].timer - 1
               /\ task'[l].renew = Aged(task[l].renew)
      BY <1>10, TickedTasks
    <2>4. CASE ~Alive(task[l])
      BY <1>0, <2>1, <2>2, <2>3, <2>4 DEF TimesOf
    <2>5. CASE Alive(task[l])
      <3>1. row[l].status # "free" /\ ~Forgotten(l)
        <4>1. Live(l) /\ task[l].at # "none"
          BY <2>5, LiveIsAlive DEF Alive
        <4> QED BY <1>0, <4>1 DEF TimesOf, Forgotten
      <3>2. row'[l].expires >= row[l].expires - 1
        BY <2>2, <3>1
      <3>3. task'[l].timer <= row'[l].expires
        BY <1>0, <1>t, <2>2, <2>3, <2>5, <3>2 DEF TimesOf
      <3>4. task'[l].renew.left - task'[l].renew.age <= row'[l].expires
        <4>1. CASE task[l].renew = NoBox
          <5>1. task'[l].renew.left = 0 /\ task'[l].renew.age = 0
            BY <2>3, <2>5, <4>1 DEF Aged, NoBox
          <5>2. row[l].expires >= task[l].timer /\ task[l].timer > 0
            BY <1>0, <1>t, <2>3, <2>5 DEF TimesOf
          <5> QED BY <1>t, <2>2, <3>2, <5>1, <5>2
        <4>2. CASE task[l].renew # NoBox
          <5>0. task[l].renew \in Box
            BY <1>t DEF Task
          <5>1. task'[l].renew.left = task[l].renew.left /\ task'[l].renew.age = task[l].renew.age + 1
            BY <2>3, <2>5, <4>2, <5>0 DEF Aged, Box
          <5>2. task[l].renew.left - task[l].renew.age <= row[l].expires
            BY <1>0, <2>5 DEF TimesOf
          <5> QED BY <1>t, <2>2, <3>2, <5>1, <5>2
        <4> QED BY <4>1, <4>2
      <3>5. l \in DOMAIN hb'.left /\ hb'.at = "answered" => hb'.left[l] - hb'.age <= row'[l].expires
        <4> SUFFICES ASSUME l \in DOMAIN hb'.left, hb'.at = "answered"
                     PROVE  hb'.left[l] - hb'.age <= row'[l].expires
          OBVIOUS
        <4>1. hb.left[l] - hb.age <= row[l].expires /\ hb.left[l] \in Int
          BY <1>0, <1>h, <2>1, <2>5 DEF TimesOf
        <4> QED BY <1>t, <1>h, <2>1, <2>2, <3>2, <4>1
      <3> QED BY <1>0, <2>1, <2>2, <2>3, <3>1, <3>3, <3>4, <3>5 DEF TimesOf
    <2> QED BY <2>4, <2>5
  <1>11. ASSUME NEW k \in Lease,
                \/ ExecutorReturns(k) \/ Submit(k) \/ SubmitEnds(k) \/ RenewTimer(k) \/ TimerFires(k)
         PROVE  Goal
    <2>1. main' = main /\ hb' = hb
      BY <1>11 DEF ExecutorReturns, Submit, SubmitEnds, RenewTimer, TimerFires
    <2>2. /\ row'[l].expires = row[l].expires /\ row'[l].deadline = row[l].deadline
          /\ row'[l].status = "free" => row[l].status = "free"
      <3>1. Submit(k) \/ UNCHANGED row
        BY <1>11 DEF ExecutorReturns, SubmitEnds, RenewTimer, TimerFires
      <3>2. CASE Submit(k)
        <4>1. Submit(k) \/ CloseRow(k)
          BY <3>2
        <4> QED BY <4>1, ClosedRows, Zenon
      <3> QED BY <3>1, <3>2
    <2>3. CASE k # l
      <3>1. task'[l] = task[l]
        BY <1>11, <2>3, LeaseTyped
      <3> QED BY <1>0, <2>1, <2>2, <3>1 DEF TimesOf
    <2>4. CASE k = l
      <3>1. /\ task'[l].at # "none" /\ task[l].at # "none"
            /\ Alive(task'[l]) => Alive(task[l])
            /\ task'[l].timer \in Nat
        BY <1>11, <2>4, LeaseTyped DEF Task
      <3>2. Alive(task'[l]) => /\ task'[l].timer <= row[l].expires
                               /\ task'[l].renew.left - task'[l].renew.age <= row[l].expires
        <4> SUFFICES ASSUME Alive(task'[l])
                     PROVE  /\ task'[l].timer <= row[l].expires
                            /\ task'[l].renew.left - task'[l].renew.age <= row[l].expires
          OBVIOUS
        <4>1. task[l].timer <= row[l].expires /\ task[l].renew.left - task[l].renew.age <= row[l].expires
          BY <1>0, <3>1 DEF TimesOf
        <4>2. CASE task'[l].timer = task[l].timer /\ task'[l].renew = task[l].renew
          BY <4>1, <4>2
        <4>3. CASE task'[l].timer = renewedDelay(l) /\ task'[l].renew = NoBox /\ renewedDelay(l) > 0
          <5>1. task'[l].renew.left = 0 /\ task'[l].renew.age = 0
            BY <4>3 DEF NoBox
          <5>2. renewedDelay(l) <= task[l].renew.left - task[l].renew.age
            BY RenewedInTime
          <5> HIDE DEF renewedDelay
          <5> QED BY <1>t, <3>1, <4>1, <4>3, <5>1, <5>2
        <4> QED BY <1>11, <2>4, <4>2, <4>3, LeaseTimes
      <3> QED BY <1>0, <2>1, <2>2, <3>1, <3>2 DEF TimesOf
    <2> QED BY <2>3, <2>4
  <1>12. ASSUME NEW k \in Lease, CloseRow(k) PROVE Goal
    <2>1. main' = main /\ hb' = hb /\ task' = task
      BY <1>12 DEF CloseRow
    <2>2. /\ row'[l].expires = row[l].expires /\ row'[l].deadline = row[l].deadline
          /\ row'[l].status = "free" => row[l].status = "free"
      <3>1. Submit(k) \/ CloseRow(k)
        BY <1>12
      <3> QED BY <3>1, ClosedRows, Zenon
    <2> QED BY <1>0, <2>1, <2>2 DEF TimesOf
  <1>13. CASE UNCHANGED vars
    BY <1>0, <1>13 DEF vars
  <1> QED BY <1>1, <1>2, <1>3, <1>4, <1>5, <1>6, <1>7, <1>8, <1>9, <1>10, <1>11, <1>12, <1>13, Steps

-----------------------------------------------------------------------------
(* The theorems.                                                             *)

\* The initial state satisfies the three invariants.
LEMMA InitHolds == Init => SlotsInv /\ ControlInv /\ TimesInv
  <1> SUFFICES ASSUME Init PROVE SlotsInv /\ ControlInv /\ TimesInv
    OBVIOUS
  <1>1. \A l \in Lease : task[l].at = "none" /\ ~Alive(task[l])
    BY DEF Init, NoTask, Alive
  <1>2. Active = {}
    BY <1>1 DEF Active
  <1>3. Cardinality(Active) = 0
    BY <1>2, FS_EmptySet
  <1>4. SlotsInv
    BY <1>3, WorkerAssumption DEF SlotsInv, SlotBound, Init
  <1>5. ControlInv
    BY DEF ControlInv, Init, Leaving
  <1>6. ASSUME NEW l \in Lease PROVE TimesOf(l, task[l], row[l], hb, main.got)
    <2>1. row[l].expires = 0 /\ row[l].deadline = 0 /\ main.got = {} /\ DOMAIN hb.left = {}
      BY <1>6 DEF Init, FreeRow
    <2> QED BY <1>1, <1>6, <2>1 DEF TimesOf
  <1> QED BY <1>4, <1>5, <1>6 DEF TimesInv

(* The goroutines of Run end in their order, whatever is lost and whenever   *)
(* the process is told to stop or loses its session: a live execution has a  *)
(* heartbeat goroutine, Run returns without executors, and not silently.     *)
THEOREM EndsInOrder == Spec => []ProcessInv
  <1>1. Init => TypeOK /\ ControlInv
    BY InitTyped, InitHolds
  <1>2. TypeOK /\ ControlInv /\ [Next]_vars => (TypeOK /\ ControlInv)'
    BY NextTyped, ControlKept
  <1>3. TypeOK /\ ControlInv => ProcessInv
    BY DEF ControlInv, ProcessInv, TypeOK
  <1> QED BY <1>1, <1>2, <1>3, PTL DEF Spec

(* Run never executes more tasks than MaxConcurrency, although it asks for   *)
(* leases by a count taken before the answer, and executions that were       *)
(* canceled keep their slot until they return.                               *)
THEOREM SlotsSuffice == Spec => []SlotBound
  <1>1. Init => TypeOK /\ SlotsInv
    BY InitTyped, InitHolds
  <1>2. TypeOK /\ SlotsInv /\ [Next]_vars => (TypeOK /\ SlotsInv)'
    BY NextTyped, SlotsKept
  <1>3. SlotsInv => SlotBound
    BY DEF SlotsInv
  <1> QED BY <1>1, <1>2, <1>3, PTL DEF Spec

(* If the safety margin is no less than the skew of the clocks and the delay *)
(* of an answer, localSafetyDelay and the timer of                           *)
(* enforceLocalSafetyDeadline cancel every execution before its lease runs   *)
(* out at the control plane.                                                 *)
THEOREM CoveredByMargin ==
    ASSUME Skew <= SafetyMargin, MaxDelay <= SafetyMargin
    PROVE  Spec => []ExecutionCovered
  <1>0. Margins
    BY DEF Margins
  <1>1. Init => TypeOK /\ TimesInv
    BY InitTyped, InitHolds
  <1>2. TypeOK /\ TimesInv /\ [Next]_vars => (TypeOK /\ TimesInv)'
    BY <1>0, NextTyped, TimesKept
  <1>3. TypeOK /\ TimesInv => ExecutionCovered
    <2> SUFFICES ASSUME TypeOK, TimesInv, NEW l \in Lease, Live(l)
                 PROVE  row[l].expires >= 0
      BY DEF ExecutionCovered
    <2>1. Alive(task[l]) /\ task[l].timer \in Nat /\ row[l].expires \in Int
      BY LiveIsAlive, WorkerAssumption DEF TypeOK, Task, Row
    <2>2. task[l].timer <= row[l].expires
      BY <2>1 DEF TimesInv, TimesOf
    <2> QED BY <2>1, <2>2
  <1> QED BY <1>1, <1>2, <1>3, PTL DEF Spec
=============================================================================
