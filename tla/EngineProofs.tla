----------------------------- MODULE EngineProofs -----------------------------
(***************************************************************************)
(* The rows the local Engine saves one change set at a time are its Run:   *)
(* for every definition, any number of faults and any cancellation they    *)
(* load as the snapshot in memory, what has ended in them stays, and an    *)
(* attempt is executed only by the step that made it durable.  The event   *)
(* loop knows exactly the attempts that run and the retries that wait, and *)
(* the stored Run keeps its order, its attempt limits and a right verdict. *)
(* Each write is a step of WorkflowContract with a verdict that may come   *)
(* late.                                                                   *)
(*                                                                         *)
(* The rows do not need a sound Run: the state rules move a snapshot only  *)
(* forward (Follows), whatever they are given, and the inductive invariant *)
(* says which snapshot the rows hold.  The order and the verdict do.  A    *)
(* Resume loses counters of tasks that have ended, so the stored Run is    *)
(* not Sound; but it is like one that is (Alike, Recounted), and all state *)
(* rules but the success of a task do not read the counters.               *)
(***************************************************************************)
EXTENDS Engine, WorkflowStateProofs, WellFoundedInduction

Snap == Snapshot({Local})

-----------------------------------------------------------------------------
(* Forward moves of a snapshot.                                              *)

(* What has ended stays, and attempts are only added.                        *)
Follows(s, u) ==
    /\ s \in Snap /\ u \in Snap
    /\ s.status \in WorkflowTerminal => u.status = s.status
    /\ u.status = "pending" => s.status = "pending"
    /\ \A t \in Task :
         /\ s.task[t] \in TaskTerminal => u.task[t] = s.task[t]
         /\ Len(s.attempts[t]) <= Len(u.attempts[t])
         /\ \A i \in 1..Len(s.attempts[t]) :
              s.attempts[t][i].status # "running" => u.attempts[t][i] = s.attempts[t][i]

\* No attempt is added.
Moves(s, u) == Follows(s, u) /\ \A t \in Task : Len(u.attempts[t]) = Len(s.attempts[t])

\* Nor does the Run change its status.
Steady(s, u) == Moves(s, u) /\ u.status = s.status

\* The lengths of histories are numbers.
LEMMA Lengths == ASSUME NEW s \in Snap, NEW t \in Task PROVE Len(s.attempts[t]) \in Nat
  BY DEF Snap, Snapshot

\* Moves can be chained.
LEMMA FollowsChain ==
    ASSUME NEW s, NEW u, NEW v, Follows(s, u), Follows(u, v) PROVE Follows(s, v)
  <1>1. s \in Snap /\ u \in Snap /\ v \in Snap
    BY DEF Follows
  <1>2. ASSUME NEW t \in Task
        PROVE  /\ s.task[t] \in TaskTerminal => v.task[t] = s.task[t]
               /\ Len(s.attempts[t]) <= Len(v.attempts[t])
               /\ \A i \in 1..Len(s.attempts[t]) :
                    s.attempts[t][i].status # "running" => v.attempts[t][i] = s.attempts[t][i]
    <2>1. /\ Len(s.attempts[t]) \in Nat /\ Len(u.attempts[t]) \in Nat
          /\ Len(v.attempts[t]) \in Nat
      BY <1>1, Lengths
    <2> QED BY <2>1 DEF Follows
  <1>3. /\ s.status \in WorkflowTerminal => v.status = s.status
        /\ v.status = "pending" => s.status = "pending"
    BY DEF Follows
  <1> QED BY <1>1, <1>2, <1>3 DEF Follows

\* Also moves that add no attempt.
LEMMA MovesChain ==
    ASSUME NEW s, NEW u, NEW v, Moves(s, u), Moves(u, v) PROVE Moves(s, v)
  BY FollowsChain DEF Moves

\* And steady ones.
LEMMA SteadyChain ==
    ASSUME NEW s, NEW u, NEW v, Steady(s, u), Steady(u, v) PROVE Steady(s, v)
  BY MovesChain DEF Steady

\* The result of a steady move is a snapshot.
LEMMA SteadyType == ASSUME NEW s, NEW u, Steady(s, u) PROVE u \in Snap
  BY DEF Steady, Moves, Follows

\* Staying is a steady move.
LEMMA SteadySelf == ASSUME NEW s \in Snap PROVE Steady(s, s)
  BY Lengths DEF Steady, Moves, Follows

\* A snapshot with the same status, tasks and attempts.
LEMMA SameSteady ==
    ASSUME NEW s \in Snap, NEW u \in Snap, u.status = s.status, u.task = s.task,
           u.attempts = s.attempts
    PROVE  Steady(s, u)
  BY Lengths DEF Steady, Moves, Follows

\* Refusing a snapshot, and writing counters and retry times, moves nothing.
LEMMA RejectSteady == ASSUME NEW s \in Snap PROVE Steady(s, Reject(s))
  <1> DEFINE u == Reject(s)
  <1>1. u \in Snap /\ u.status = s.status /\ u.task = s.task /\ u.attempts = s.attempts
    BY DEF Snap, Snapshot, Reject
  <1> QED BY <1>1, SameSteady

\* Counters and retry times are not what a move is about.
LEMMA FieldsSteady ==
    ASSUME NEW s \in Snap, NEW f \in [Task -> Int]
    PROVE  Steady(s, [s EXCEPT !.readyAt = f]) /\ Steady(s, [s EXCEPT !.remaining = f])
  <1> DEFINE u == [s EXCEPT !.readyAt = f]
             v == [s EXCEPT !.remaining = f]
  <1>1. u \in Snap /\ u.status = s.status /\ u.task = s.task /\ u.attempts = s.attempts
    BY DEF Snap, Snapshot
  <1>2. v \in Snap /\ v.status = s.status /\ v.task = s.task /\ v.attempts = s.attempts
    BY DEF Snap, Snapshot
  <1>3. Steady(s, u)
    BY <1>1, SameSteady
  <1>4. Steady(s, v)
    BY <1>2, SameSteady
  <1> QED BY <1>3, <1>4

\* transitionTask never leaves a status that is terminal.
LEMMA TasksSteady ==
    ASSUME NEW s \in Snap, NEW T \in SUBSET Task, NEW to \in TaskStatus
    PROVE  Steady(s, transitionTasks(s, T, to))
  <1>1. CASE ~\A t \in T : to \in taskTransitions(s.task[t])
    BY <1>1, RejectSteady DEF transitionTasks
  <1>2. CASE \A t \in T : to \in taskTransitions(s.task[t])
    <2> DEFINE tt == [t \in Task |-> IF t \in T THEN to ELSE s.task[t]]
               rr == [t \in Task |-> IF t \in T THEN 0 ELSE s.readyAt[t]]
               u == [s EXCEPT !.task = tt, !.readyAt = rr]
    <2>1. tt \in [Task -> TaskStatus] /\ rr \in [Task -> Int]
      BY DEF Snap, Snapshot
    <2>2. u \in Snap /\ u.status = s.status /\ u.attempts = s.attempts /\ u.task = tt
      BY <2>1 DEF Snap, Snapshot
    <2>3. \A t \in T : s.task[t] \notin TaskTerminal
      BY <1>2 DEF taskTransitions, TaskTerminal
    <2>4. transitionTasks(s, T, to) = u
      BY <1>2 DEF transitionTasks
    <2> HIDE DEF u
    <2>5. \A t \in Task : s.task[t] \in TaskTerminal => u.task[t] = s.task[t]
      BY <2>2, <2>3
    <2> QED BY <2>2, <2>4, <2>5, Lengths DEF Steady, Moves, Follows
  <1> QED BY <1>1, <1>2

\* transitionAttempt changes a running attempt only.
LEMMA AttemptsSteady ==
    ASSUME NEW s \in Snap, NEW T \in SUBSET Task,
           NEW outcome \in [T -> AttemptStatus \ {"running"}]
    PROVE  Steady(s, transitionAttempts(s, T, outcome))
  <1> DEFINE u == transitionAttempts(s, T, outcome)
  <1>1. CASE \E t \in T : ~ /\ s.attempts[t] # <<>>
                            /\ outcome[t] \in attemptTransitions(
                                 s.attempts[t][Len(s.attempts[t])].status)
    BY <1>1, RejectSteady DEF transitionAttempts
  <1>2. CASE \A t \in T : /\ s.attempts[t] # <<>>
                          /\ outcome[t] \in attemptTransitions(
                               s.attempts[t][Len(s.attempts[t])].status)
    <2>1. \A t \in T : /\ s.attempts[t] # <<>>
                       /\ s.attempts[t][Len(s.attempts[t])].status = "running"
      BY <1>2 DEF attemptTransitions
    <2>2. AttemptsEndedBy(s, u, T, outcome, {Local})
      BY <2>1, AttemptsEnded DEF Snap
    <2> HIDE DEF u
    <2>3. u \in Snap /\ u.status = s.status /\ u.task = s.task
      BY <2>2 DEF AttemptsEndedBy, Snap
    <2>4. ASSUME NEW t \in Task
          PROVE  /\ Len(u.attempts[t]) = Len(s.attempts[t])
                 /\ \A i \in 1..Len(s.attempts[t]) :
                      s.attempts[t][i].status # "running" => u.attempts[t][i] = s.attempts[t][i]
      <3>1. Len(u.attempts[t]) = Len(s.attempts[t])
        BY <2>2 DEF AttemptsEndedBy
      <3>2. ASSUME NEW i \in 1..Len(s.attempts[t]), s.attempts[t][i].status # "running"
            PROVE  u.attempts[t][i] = s.attempts[t][i]
        <4>1. ~(t \in T /\ i = Len(s.attempts[t]))
          BY <2>1, <3>2
        <4> QED BY <2>2, <4>1 DEF AttemptsEndedBy
      <3> QED BY <3>1, <3>2
    <2>5. \A t \in Task : Len(s.attempts[t]) <= Len(u.attempts[t])
      BY <2>4, Lengths
    <2>6. Follows(s, u)
      BY <2>3, <2>4, <2>5 DEF Follows
    <2>7. Steady(s, u)
      BY <2>3, <2>4, <2>6 DEF Steady, Moves
    <2> QED BY <2>7 DEF u
  <1> QED BY <1>1, <1>2

\* transitionWorkflow never leaves a terminal status and never goes back to pending.
LEMMA WorkflowMoves ==
    ASSUME NEW s \in Snap, NEW to \in WorkflowStatus \ {"pending"}
    PROVE  /\ Moves(s, transitionWorkflow(s, to))
           /\ transitionWorkflow(s, to).task = s.task
           /\ transitionWorkflow(s, to).status \in {s.status, to}
  <1>1. CASE to \notin workflowTransitions(s.status)
    <2>2. transitionWorkflow(s, to) = Reject(s)
      BY <1>1 DEF transitionWorkflow
    <2>3. Reject(s).task = s.task /\ Reject(s).status = s.status
      BY DEF Reject, Snap, Snapshot
    <2> QED BY <2>2, <2>3, RejectSteady DEF Steady
  <1>2. CASE to \in workflowTransitions(s.status)
    <2> DEFINE u == [s EXCEPT !.status = to]
    <2>1. u \in Snap /\ u.status = to /\ u.attempts = s.attempts /\ u.task = s.task
      BY DEF Snap, Snapshot
    <2>2. transitionWorkflow(s, to) = u
      BY <1>2 DEF transitionWorkflow
    <2>3. s.status \notin WorkflowTerminal
      BY <1>2 DEF workflowTransitions, WorkflowTerminal
    <2> HIDE DEF u
    <2> QED BY <2>1, <2>2, <2>3, Lengths DEF Moves, Follows
  <1> QED BY <1>1, <1>2

-----------------------------------------------------------------------------
(* The operations built from these.                                          *)

\* A Run that ends has only tasks that have ended.
Closed(s) == s.status \in WorkflowTerminal => \A t \in Task : s.task[t] \in TaskTerminal

\* settleWorkflowIfComplete closes a Run whose tasks have all ended.
LEMMA SettleMoves ==
    ASSUME NEW s \in Snap, Closed(s)
    PROVE  LET u == settleWorkflowIfComplete(s)
           IN  Moves(s, u) /\ Closed(u) /\ u.status \in {s.status, "succeeded", "failed"}
  <1> DEFINE u == settleWorkflowIfComplete(s)
  <1>1. CASE \E t \in Task : s.task[t] \notin TaskTerminal
    BY <1>1, SteadySelf DEF settleWorkflowIfComplete, Steady
  <1>2. CASE \A t \in Task : s.task[t] \in TaskTerminal
    <2>1. \/ u = transitionWorkflow(s, "failed") \/ u = transitionWorkflow(s, "succeeded")
          \/ u = Reject(s)
      BY <1>2 DEF settleWorkflowIfComplete
    <2>2. Reject(s).task = s.task
      BY DEF Reject, Snap, Snapshot
    <2> HIDE DEF u
    <2>3. /\ Moves(s, u) /\ u.task = s.task
          /\ u.status \in {s.status, "succeeded", "failed"}
      BY <2>1, <2>2, WorkflowMoves, RejectSteady DEF WorkflowStatus, Steady
    <2> QED BY <1>2, <2>3 DEF Closed, u
  <1> QED BY <1>1, <1>2

\* skipDescendantsFrom.
LEMMA SkipSteady == ASSUME NEW s \in Snap, NEW F PROVE Steady(s, skipDescendantsFrom(s, F))
  <1> DEFINE T == {u \in Task : /\ \E f \in F : u \in Descendants[f]
                               /\ s.task[u] \notin TaskTerminal}
  <1>1. T \in SUBSET Task /\ "skipped" \in TaskStatus
    BY DEF TaskStatus
  <1> HIDE DEF T
  <1> QED BY <1>1, TasksSteady DEF skipDescendantsFrom, T

\* A steady move keeps an open Run open.
LEMMA SteadyOpen ==
    ASSUME NEW s, NEW u, Steady(s, u), s.status \notin WorkflowTerminal PROVE Closed(u)
  BY DEF Steady, Closed

\* What skips and settles at the end of a result.
LEMMA SkipAndSettle ==
    ASSUME NEW s, NEW v, Steady(s, v), s.status \notin WorkflowTerminal, NEW F
    PROVE  LET u == settleWorkflowIfComplete(skipDescendantsFrom(v, F))
           IN  Moves(s, u) /\ Closed(u) /\ u.status \in {s.status, "succeeded", "failed"}
  <1> DEFINE w == skipDescendantsFrom(v, F)
             u == settleWorkflowIfComplete(w)
  <1>1. v \in Snap
    BY DEF Steady, Moves, Follows
  <1>2. Steady(s, w)
    BY <1>1, SkipSteady, SteadyChain
  <1>3. w \in Snap /\ Closed(w)
    BY <1>2, SteadyOpen DEF Steady, Moves, Follows
  <1> HIDE DEF w
  <1>4. Moves(w, u) /\ Closed(u) /\ u.status \in {w.status, "succeeded", "failed"}
    BY <1>3, SettleMoves
  <1> HIDE DEF u
  <1>5. Moves(s, u) /\ w.status = s.status
    BY <1>2, <1>4, MovesChain DEF Steady
  <1> QED BY <1>4, <1>5 DEF u, w

\* The retries and failures of ended attempts, as Resume and the loop decide them.
Decided(v, T, again, at) ==
    LET waiting == transitionTasks(v, again, "waiting_retry")
        timed == [waiting EXCEPT !.readyAt =
                    [t \in Task |-> IF t \in again THEN at[t] ELSE waiting.readyAt[t]]]
    IN  transitionTasks(timed, T \ again, "failed")

\* transitionTask does both.
LEMMA DecideSteady ==
    ASSUME NEW s, NEW v, Steady(s, v), NEW T \in SUBSET Task, NEW again \in SUBSET T,
           NEW at \in [Task -> Int]
    PROVE  Steady(s, Decided(v, T, again, at))
  <1> DEFINE waiting == transitionTasks(v, again, "waiting_retry")
             f == [t \in Task |-> IF t \in again THEN at[t] ELSE waiting.readyAt[t]]
             timed == [waiting EXCEPT !.readyAt = f]
             u == transitionTasks(timed, T \ again, "failed")
  <1>1. v \in Snap /\ again \in SUBSET Task /\ T \ again \in SUBSET Task
        /\ "waiting_retry" \in TaskStatus /\ "failed" \in TaskStatus
    BY DEF Steady, Moves, Follows, TaskStatus
  <1>2. Steady(v, waiting)
    BY <1>1, TasksSteady
  <1>3. waiting \in Snap
    BY <1>2 DEF Steady, Moves, Follows
  <1> HIDE DEF waiting
  <1>4. f \in [Task -> Int]
    BY <1>3 DEF Snap, Snapshot
  <1> HIDE DEF f
  <1>5. Steady(waiting, timed)
    BY <1>3, <1>4, FieldsSteady
  <1>6. timed \in Snap
    BY <1>5 DEF Steady, Moves, Follows
  <1> HIDE DEF timed
  <1>7. Steady(timed, u)
    BY <1>1, <1>6, TasksSteady
  <1> HIDE DEF u
  <1>8. Steady(s, u)
    BY <1>2, <1>5, <1>7, SteadyChain
  <1> QED BY <1>8 DEF u, timed, f, waiting, Decided

\* EndAttempts, failPermanently and succeed, given whatever snapshot of an open Run.
LEMMA EndAttemptsMoves ==
    ASSUME NEW s \in Snap, s.status \notin WorkflowTerminal, NEW T \in SUBSET Task,
           NEW outcome \in [T -> AttemptStatus \ {"running"}], NEW at \in Int
    PROVE  LET u == EndAttempts(s, T, outcome, at)
           IN  Moves(s, u) /\ Closed(u) /\ u.status \in {s.status, "succeeded", "failed"}
  <1> DEFINE v == transitionAttempts(s, T, outcome)
             again == RetriesLeft(v, T)
             due == [t \in Task |-> at + RetryInterval[t]]
             failed == Decided(v, T, again, due)
  <1>1. Steady(s, v)
    BY AttemptsSteady
  <1>2. again \in SUBSET T /\ due \in [Task -> Int]
    BY DefinitionAssumption DEF RetriesLeft
  <1>3. EndAttempts(s, T, outcome, at) = settleWorkflowIfComplete(skipDescendantsFrom(failed, T \ again))
    BY DEF EndAttempts, applyRetryDecision, Decided
  <1> HIDE DEF v, again, due
  <1>4. Steady(s, failed)
    BY <1>1, <1>2, DecideSteady
  <1> HIDE DEF failed
  <1> QED BY <1>3, <1>4, SkipAndSettle

\* failPermanently.
LEMMA FailPermanentlyMoves ==
    ASSUME NEW s \in Snap, s.status \notin WorkflowTerminal, NEW t \in Task
    PROVE  LET u == failPermanently(s, t)
           IN  Moves(s, u) /\ Closed(u) /\ u.status \in {s.status, "succeeded", "failed"}
  <1> DEFINE outcome == [x \in {t} |-> "failed"]
             v == transitionAttempts(s, {t}, outcome)
             failed == transitionTasks(v, {t}, "failed")
  <1>1. /\ outcome \in [{t} -> AttemptStatus \ {"running"}] /\ {t} \in SUBSET Task
        /\ "failed" \in TaskStatus
    BY DEF AttemptStatus, TaskStatus
  <1>2. failPermanently(s, t) = settleWorkflowIfComplete(skipDescendantsFrom(failed, {t}))
    BY DEF failPermanently
  <1> HIDE DEF outcome
  <1>3. Steady(s, v)
    BY <1>1, AttemptsSteady
  <1>4. v \in Snap
    BY <1>3 DEF Steady, Moves, Follows
  <1> HIDE DEF v
  <1>5. Steady(s, failed)
    BY <1>1, <1>3, <1>4, TasksSteady, SteadyChain
  <1> HIDE DEF failed
  <1> QED BY <1>2, <1>5, SkipAndSettle

\* The success branch of ApplyAttemptResult.
LEMMA SucceedMoves ==
    ASSUME NEW s \in Snap, s.status \notin WorkflowTerminal, NEW t \in Task
    PROVE  LET u == succeed(s, t)
           IN  Moves(s, u) /\ Closed(u) /\ u.status \in {s.status, "succeeded", "failed"}
  <1> DEFINE outcome == [x \in {t} |-> "succeeded"]
             ended == transitionAttempts(s, {t}, outcome)
             done == transitionTasks(ended, {t}, "succeeded")
             f == [u \in Task |-> IF u \in Successors(t) THEN s.remaining[u] - 1
                                 ELSE s.remaining[u]]
             counted == [done EXCEPT !.remaining = f]
             R == Released(counted, Successors(t))
             released == transitionTasks(counted, R, "ready")
  <1>1. /\ outcome \in [{t} -> AttemptStatus \ {"running"}] /\ {t} \in SUBSET Task
        /\ "succeeded" \in TaskStatus /\ "ready" \in TaskStatus
        /\ R \in SUBSET Task
    BY DEF AttemptStatus, TaskStatus, Released, Successors
  <1>2. f \in [Task -> Int]
    BY DEF Snap, Snapshot
  <1>3. \/ succeed(s, t) = Reject(counted)
        \/ succeed(s, t) = settleWorkflowIfComplete(released)
    BY DEF succeed
  <1> HIDE DEF outcome, f
  <1>4. Steady(s, ended)
    BY <1>1, AttemptsSteady
  <1>5. ended \in Snap
    BY <1>4 DEF Steady, Moves, Follows
  <1> HIDE DEF ended
  <1>6. Steady(s, done)
    BY <1>1, <1>4, <1>5, TasksSteady, SteadyChain
  <1>7. done \in Snap
    BY <1>6 DEF Steady, Moves, Follows
  <1> HIDE DEF done
  <1>8. Steady(done, counted)
    BY <1>2, <1>7, FieldsSteady
  <1>9. Steady(s, counted)
    BY <1>6, <1>8, SteadyChain
  <1>10. counted \in Snap
    BY <1>9 DEF Steady, Moves, Follows
  <1> HIDE DEF counted, R
  <1>11. Steady(s, released) /\ Steady(s, Reject(counted))
    BY <1>1, <1>9, <1>10, TasksSteady, RejectSteady, SteadyChain
  <1>12. released \in Snap /\ Closed(released) /\ Closed(Reject(counted))
    BY <1>11, SteadyOpen DEF Steady, Moves, Follows
  <1> HIDE DEF released
  <1>13. /\ Moves(s, settleWorkflowIfComplete(released)) /\ Closed(settleWorkflowIfComplete(released))
         /\ settleWorkflowIfComplete(released).status \in {s.status, "succeeded", "failed"}
    BY <1>11, <1>12, SettleMoves, MovesChain DEF Steady
  <1> QED BY <1>3, <1>11, <1>12, <1>13 DEF Steady

\* Every result of an attempt.
LEMMA ResultMoves ==
    ASSUME NEW s \in Snap, s.status \notin WorkflowTerminal, NEW t \in Task,
           NEW kind \in ResultKind
    PROVE  LET u == ApplyAttemptResult(s, t, kind, Now)
           IN  Moves(s, u) /\ Closed(u) /\ u.status \in {s.status, "succeeded", "failed"}
  <1> DEFINE outcome == [x \in {t} |-> "failed"]
  <1>1. outcome \in [{t} -> AttemptStatus \ {"running"}] /\ {t} \in SUBSET Task /\ Now \in Int
    BY DEF AttemptStatus, Now
  <1> HIDE DEF outcome
  <1>2. CASE kind = "success"
    BY <1>2, SucceedMoves DEF ApplyAttemptResult
  <1>3. CASE kind = "permanent_failure"
    BY <1>3, FailPermanentlyMoves DEF ApplyAttemptResult
  <1>4. CASE kind = "temporary_failure"
    <2>1. ApplyAttemptResult(s, t, kind, Now) = EndAttempts(s, {t}, outcome, Now)
      BY <1>4 DEF ApplyAttemptResult, outcome
    <2> QED BY <1>1, <2>1, EndAttemptsMoves
  <1> QED BY <1>2, <1>3, <1>4 DEF ResultKind

\* A new attempt is the next one of its task.
LEMMA StartFollows ==
    ASSUME NEW s \in Snap, NEW t \in Task
    PROVE  LET u == prepareTask(s, t)
           IN  /\ Follows(s, u) /\ u.status = s.status
               /\ Len(u.attempts[t]) = Len(s.attempts[t]) + 1
  <1> DEFINE moved == transitionTasks(s, {t}, "running")
             attempt == [status |-> "running", owner |-> Local]
             aa == [x \in Task |-> IF x \in {t} THEN Append(s.attempts[x], attempt) ELSE s.attempts[x]]
             u == [moved EXCEPT !.attempts = aa]
  <1>1. prepareTask(s, t) = u
    BY DEF prepareTask, StartQueuedAttempts
  <1>2. Steady(s, moved) /\ moved \in Snap
    BY TasksSteady DEF TaskStatus, Steady, Moves, Follows
  <1>3. attempt \in AttemptOf({Local})
    BY DEF AttemptOf, AttemptStatus
  <1>4. ASSUME NEW x \in Task
        PROVE  /\ aa[x] \in Seq(AttemptOf({Local}))
               /\ Len(aa[x]) = IF x = t THEN Len(s.attempts[x]) + 1 ELSE Len(s.attempts[x])
               /\ \A i \in 1..Len(s.attempts[x]) : aa[x][i] = s.attempts[x][i]
    <2>1. PICK a \in Seq(AttemptOf({Local})) : a = s.attempts[x]
      BY DEF Snap, Snapshot
    <2>2. PICK e \in AttemptOf({Local}) : e = attempt
      BY <1>3
    <2>3. aa[x] = IF x = t THEN Append(a, e) ELSE a
      BY <2>1, <2>2
    <2> HIDE DEF aa
    <2>4. Len(a) \in Nat /\ Append(a, e) \in Seq(AttemptOf({Local}))
      OBVIOUS
    <2>5. Len(Append(a, e)) = Len(a) + 1 /\ \A i \in 1..Len(a) : Append(a, e)[i] = a[i]
      OBVIOUS
    <2> QED BY <2>1, <2>3, <2>4, <2>5
  <1>5. aa \in [Task -> Seq(AttemptOf({Local}))]
    BY <1>4
  <1> HIDE DEF aa, moved
  <1>6. u \in Snap /\ u.status = moved.status /\ u.task = moved.task /\ u.attempts = aa
    BY <1>2, <1>5 DEF Snap, Snapshot
  <1> HIDE DEF u
  <1>7. \A x \in Task : Len(s.attempts[x]) <= Len(u.attempts[x])
    BY <1>4, <1>6, Lengths
  <1>8. Follows(s, u) /\ u.status = s.status
    BY <1>2, <1>4, <1>6, <1>7 DEF Steady, Moves, Follows
  <1> QED BY <1>1, <1>4, <1>6, <1>8

\* CancelRunSnapshot closes every task.
LEMMA CancelMoves ==
    ASSUME NEW s \in Snap
    PROVE  Moves(s, CancelRunSnapshot(s))
  <1> DEFINE open == {t \in Task : s.task[t] \notin TaskTerminal}
             running == {t \in open : /\ s.task[t] = "running"
                                      /\ s.attempts[t] # <<>>
                                      /\ s.attempts[t][Len(s.attempts[t])].status = "running"}
             outcome == [t \in running |-> "canceled"]
             ended == transitionAttempts(s, running, outcome)
             closed == transitionTasks(ended, open, "canceled")
  <1>1. /\ open \in SUBSET Task /\ running \in SUBSET Task
        /\ outcome \in [running -> AttemptStatus \ {"running"}]
        /\ "canceled" \in TaskStatus /\ "canceled" \in WorkflowStatus \ {"pending"}
    BY DEF AttemptStatus, TaskStatus, WorkflowStatus
  <1>2. CancelRunSnapshot(s) = transitionWorkflow(closed, "canceled")
    BY DEF CancelRunSnapshot
  <1> HIDE DEF open, running, outcome
  <1>3. Steady(s, ended) /\ ended \in Snap
    BY <1>1, AttemptsSteady DEF Steady, Moves, Follows
  <1> HIDE DEF ended
  <1>4. Steady(s, closed) /\ closed \in Snap
    BY <1>1, <1>3, TasksSteady, SteadyChain, SteadyType
  <1> HIDE DEF closed
  <1> QED BY <1>1, <1>2, <1>4, WorkflowMoves, MovesChain DEF Steady

\* prepareForResume does not settle the Run.
LEMMA PrepareSteady ==
    ASSUME NEW s \in Snap, NEW failed, failed = interruptRunning(s),
           NEW counted, counted = rebuildDependencies(failed)
    PROVE  Steady(s, prepareForResume(s, counted))
  <1>1. Steady(s, failed)
    <2> DEFINE running == {t \in Task : s.task[t] = "running"}
               outcome == [t \in running |-> "interrupted"]
               again == RetriesLeft(s, running)
               ended == transitionAttempts(s, running, outcome)
               at == [t \in Task |-> Now]
    <2>1. failed = Decided(ended, running, again, at)
      BY DEF interruptRunning, Decided
    <2>2. /\ running \in SUBSET Task /\ again \in SUBSET running
          /\ outcome \in [running -> AttemptStatus \ {"running"}]
          /\ at \in [Task -> Int]
      BY DEF RetriesLeft, AttemptStatus, Now
    <2> HIDE DEF running, outcome, again, at
    <2>3. Steady(s, ended)
      BY <2>2, AttemptsSteady
    <2> HIDE DEF ended
    <2> QED BY <2>1, <2>2, <2>3, DecideSteady
  <1>2. failed \in Snap
    BY <1>1 DEF Steady, Moves, Follows
  <1>3. Steady(s, counted)
    <2> DEFINE skipped == skipDescendantsFrom(failed, blockedSources(failed))
               f == [t \in Task |-> Cardinality(Outstanding(skipped, t))]
    <2>1. counted = [skipped EXCEPT !.remaining = f]
      BY DEF rebuildDependencies
    <2>2. Steady(s, skipped) /\ skipped \in Snap
      BY <1>1, <1>2, SkipSteady, SteadyChain, SteadyType
    <2> HIDE DEF skipped
    <2>3. ASSUME NEW t \in Task PROVE Cardinality(Outstanding(skipped, t)) \in Int
      <3>1. Outstanding(skipped, t) \subseteq Task
        BY DefinitionAssumption DEF Outstanding
      <3>2. IsFiniteSet(Task)
        BY DefinitionAssumption, FS_Interval DEF Task
      <3> QED BY <3>1, <3>2, FS_Subset, FS_CardinalityType
    <2>4. f \in [Task -> Int]
      BY <2>3
    <2> HIDE DEF f
    <2> QED BY <2>1, <2>2, <2>4, FieldsSteady, SteadyChain
  <1>4. counted \in Snap
    BY <1>3 DEF Steady, Moves, Follows
  <1> DEFINE behind == {t \in Task : /\ counted.task[t] \notin TaskTerminal
                                     /\ \E u \in Deps[t] : counted.task[u] \in Blocked}
             closed == transitionTasks(counted, behind, "skipped")
             released == {t \in Task : /\ closed.task[t] = "waiting_dependencies"
                                       /\ closed.remaining[t] = 0}
  <1>5. \/ prepareForResume(s, counted) = transitionTasks(closed, released, "ready")
        \/ prepareForResume(s, counted) = Reject(closed)
    BY DEF prepareForResume
  <1>6. /\ behind \in SUBSET Task /\ released \in SUBSET Task
        /\ "skipped" \in TaskStatus /\ "ready" \in TaskStatus
    BY DEF TaskStatus
  <1> HIDE DEF behind, released
  <1>7. Steady(s, closed) /\ closed \in Snap
    BY <1>3, <1>4, <1>6, TasksSteady, SteadyChain, SteadyType
  <1> HIDE DEF closed
  <1>8. Steady(s, transitionTasks(closed, released, "ready")) /\ Steady(s, Reject(closed))
    BY <1>6, <1>7, TasksSteady, RejectSteady, SteadyChain
  <1> QED BY <1>5, <1>8

-----------------------------------------------------------------------------
(* Rows.                                                                     *)

\* What insertSnapshot wrote loads as the same snapshot.
LEMMA LoadInserted ==
    ASSUME NEW x \in Loaded, x.snap.err = FALSE
    PROVE  loadSnapshot(insertSnapshot(x)) = x
  <1> DEFINE rows == insertSnapshot(x)
             Numbers(t) == {k[2] : k \in {j \in DOMAIN rows.attempts : j[1] = t}}
             n == [t \in Task |-> Cardinality(Numbers(t))]
  <1>1. x.snap \in Snap /\ x.cancel \in BOOLEAN
    BY DEF Loaded, Snap
  <1>2. /\ rows.run = [status |-> x.snap.status, cancel |-> x.cancel]
        /\ rows.tasks = [t \in Task |-> [status |-> x.snap.task[t],
                                         remaining |-> x.snap.remaining[t],
                                         readyAt |-> x.snap.readyAt[t]]]
        /\ rows.attempts = [k \in AttemptsOf(x.snap) |-> x.snap.attempts[k[1]][k[2]]]
    BY DEF insertSnapshot, RunRow, TaskRow
  <1>3. \A k : k \in AttemptsOf(x.snap) <=>
                 \E t \in Task : \E i \in 1..Len(x.snap.attempts[t]) : k = <<t, i>>
    BY DEF AttemptsOf
  <1> HIDE DEF rows
  <1>4. ASSUME NEW t \in Task PROVE Numbers(t) = 1..Len(x.snap.attempts[t])
    <2>1. ASSUME NEW i \in 1..Len(x.snap.attempts[t]) PROVE i \in Numbers(t)
      <3>1. <<t, i>> \in AttemptsOf(x.snap) /\ <<t, i>>[1] = t /\ <<t, i>>[2] = i
        BY <1>3
      <3> QED BY <1>2, <3>1
    <2>2. ASSUME NEW i \in Numbers(t) PROVE i \in 1..Len(x.snap.attempts[t])
      <3>1. PICK k \in AttemptsOf(x.snap) : k[1] = t /\ k[2] = i
        BY <1>2
      <3>2. PICK v \in Task : \E h \in 1..Len(x.snap.attempts[v]) : k = <<v, h>>
        BY <1>3
      <3> QED BY <3>1, <3>2
    <2> QED BY <2>1, <2>2
  <1>5. ASSUME NEW t \in Task PROVE n[t] = Len(x.snap.attempts[t])
    <2>1. Len(x.snap.attempts[t]) \in Nat
      BY <1>1, Lengths
    <2>2. Cardinality(1..Len(x.snap.attempts[t])) = Len(x.snap.attempts[t])
      BY <2>1, FS_Interval
    <2> QED BY <1>4, <2>2
  <1>6. \A t \in Task : Numbers(t) = 1..n[t]
    BY <1>4, <1>5
  <1> DEFINE st == [t \in Task |-> rows.tasks[t].status]
             rem == [t \in Task |-> rows.tasks[t].remaining]
             rdy == [t \in Task |-> rows.tasks[t].readyAt]
             atts == [t \in Task |-> [i \in 1..n[t] |-> rows.attempts[<<t, i>>]]]
  <1>7. loadSnapshot(rows) =
           [snap |-> [status |-> rows.run.status, task |-> st, remaining |-> rem,
                      readyAt |-> rdy, attempts |-> atts, err |-> FALSE],
            cancel |-> rows.run.cancel]
    BY <1>6 DEF loadSnapshot
  <1> HIDE DEF n, Numbers
  <1>8. ASSUME NEW t \in Task
        PROVE  [i \in 1..n[t] |-> rows.attempts[<<t, i>>]] = x.snap.attempts[t]
    <2>1. PICK a \in Seq(AttemptOf({Local})) : a = x.snap.attempts[t]
      BY <1>1 DEF Snap, Snapshot
    <2>2. \A i \in 1..Len(a) : rows.attempts[<<t, i>>] = a[i]
      BY <1>2, <1>3, <2>1
    <2>3. a = [i \in 1..Len(a) |-> a[i]]
      OBVIOUS
    <2> QED BY <1>5, <2>1, <2>2, <2>3
  <1>9. atts = x.snap.attempts
    BY <1>1, <1>8 DEF Snap, Snapshot
  <1>10. st = x.snap.task /\ rem = x.snap.remaining /\ rdy = x.snap.readyAt
    BY <1>1, <1>2 DEF Snap, Snapshot
  <1> HIDE DEF st, rem, rdy, atts
  <1>11. loadSnapshot(rows).snap = x.snap
    <2>1. PICK y \in Snap : y = x.snap /\ y.err = FALSE
      BY <1>1
    <2>2. y = [status |-> y.status, task |-> y.task, remaining |-> y.remaining,
               readyAt |-> y.readyAt, attempts |-> y.attempts, err |-> y.err]
      BY DEF Snap, Snapshot
    <2>3. rows.run.status = y.status
      BY <1>2, <2>1
    <2>4. loadSnapshot(rows).snap =
             [status |-> y.status, task |-> y.task, remaining |-> y.remaining,
              readyAt |-> y.readyAt, attempts |-> y.attempts, err |-> FALSE]
      BY <1>7, <1>9, <1>10, <2>1, <2>3
    <2> QED BY <2>1, <2>2, <2>4
  <1>12. loadSnapshot(rows).cancel = x.cancel
    BY <1>2, <1>7
  <1>13. x = [snap |-> x.snap, cancel |-> x.cancel]
    BY DEF Loaded
  <1>14. loadSnapshot(rows) = [snap |-> loadSnapshot(rows).snap, cancel |-> loadSnapshot(rows).cancel]
    BY <1>7
  <1> QED BY <1>11, <1>12, <1>13, <1>14 DEF rows

\* The difference of two snapshots turns the rows of one into those of the other.
LEMMA ChangeApplied ==
    ASSUME NEW b \in Loaded, NEW a \in Loaded, Follows(b.snap, a.snap)
    PROVE  applyChangeSet(insertSnapshot(b), changeSetFromSnapshots(b, a)) = insertSnapshot(a)
  <1> DEFINE K == AttemptsOf(b.snap)
             L == AttemptsOf(a.snap)
             att(x, k) == x.snap.attempts[k[1]][k[2]]
             D == ChangedTasks(b.snap, a.snap)
             updated == {k \in L \cap K : att(a, k) # att(b, k)}
             rows == insertSnapshot(b)
             change == changeSetFromSnapshots(b, a)
  <1>1. K \subseteq L
    <2> SUFFICES ASSUME NEW k \in K PROVE k \in L
      OBVIOUS
    <2>0. PICK t \in Task : k \in {t} \X (1..Len(b.snap.attempts[t]))
      BY DEF AttemptsOf
    <2>1. PICK i \in 1..Len(b.snap.attempts[t]) : k = <<t, i>>
      BY <2>0
    <2>2. /\ Len(b.snap.attempts[t]) \in Nat /\ Len(a.snap.attempts[t]) \in Nat
          /\ Len(b.snap.attempts[t]) <= Len(a.snap.attempts[t])
      BY Lengths DEF Follows
    <2>3. i \in 1..Len(a.snap.attempts[t])
      BY <2>2
    <2> QED BY <2>1, <2>3 DEF AttemptsOf
  <1>2. /\ change.run = RunRow(a)
        /\ change.tasks = [t \in D |-> TaskRow(a.snap, t)]
        /\ change.inserts = [k \in L \ K |-> att(a, k)]
        /\ change.updates = [k \in updated |-> att(a, k)]
    BY DEF changeSetFromSnapshots
  <1>3. /\ rows.tasks = [t \in Task |-> TaskRow(b.snap, t)]
        /\ rows.attempts = [k \in K |-> att(b, k)]
    BY DEF insertSnapshot
  <1>4. D \subseteq Task /\ \A t \in Task \ D : TaskRow(b.snap, t) = TaskRow(a.snap, t)
    BY DEF ChangedTasks
  <1>5. updated \subseteq K /\ \A k \in K \ updated : att(a, k) = att(b, k)
    BY <1>1
  <1> HIDE DEF K, L, att, D, updated, rows, change
  <1>6. TasksAfter(rows, change) = [t \in Task |-> TaskRow(a.snap, t)]
    BY <1>2, <1>3, <1>4 DEF TasksAfter, Over
  <1>7. AttemptsAfter(rows, change) = [k \in L |-> att(a, k)]
    BY <1>1, <1>2, <1>3, <1>5 DEF AttemptsAfter, Over
  <1> QED BY <1>2, <1>6, <1>7 DEF applyChangeSet, insertSnapshot, rows, change, L, att

-----------------------------------------------------------------------------
(* The inductive invariant.                                                  *)

\* Rows that are those of the snapshot they load as.
Kept(rows) ==
    /\ loadSnapshot(rows) \in Loaded
    /\ loadSnapshot(rows).snap.err = FALSE
    /\ rows = insertSnapshot(loadSnapshot(rows))

\* So are the rows of a snapshot that was not refused.
LEMMA InsertedKept ==
    ASSUME NEW x \in Loaded, x.snap.err = FALSE
    PROVE  Kept(insertSnapshot(x)) /\ loadSnapshot(insertSnapshot(x)) = x
  BY LoadInserted DEF Kept

Executing == {"prepare", "enter", "start", "loop"}
Canceling == {"finalize", "finalizeAgain", "settle", "settleAgain"}

\* Types that do not depend on the store.
Typed ==
    /\ mem \in Loaded /\ mem.snap.err = FALSE
    /\ fresh \in BOOLEAN
    /\ pc \in PC
    /\ stop \in {"none", "business", "shutdown"}
    /\ work \in Work
    /\ work # NoWork => InLoop
    /\ faults \in 0..MaxFaults

(* A goroutine with the latest revision has the stored Run in its hands; it  *)
(* executes a Run only without a cancellation request in it, resumes one     *)
(* that is open, and meets one that has ended in its loop only after its     *)
(* last result, with nothing left to start.                                  *)
EngineInv ==
    /\ Typed
    /\ Kept(store)
    /\ fresh /\ pc \in Executing \cup Canceling => store = insertSnapshot(mem)
    /\ pc \in Executing => ~mem.cancel
    /\ pc \in {"prepare", "enter"} => mem.snap.status \notin WorkflowTerminal
    /\ InLoop => mem.snap.status # "pending" /\ Closed(mem.snap)

(* What a step may do to the rows, and to the executors.                     *)
Final ==
    /\ Ended => store' = store
    /\ store.run.cancel =>
          store'.run.cancel /\ DOMAIN store'.attempts = DOMAIN store.attempts
    /\ \A t \in Task : store.tasks[t].status \in TaskTerminal =>
          store'.tasks[t].status = store.tasks[t].status
    /\ \A k \in DOMAIN store.attempts :
          /\ k \in DOMAIN store'.attempts
          /\ store.attempts[k].status # "running" =>
                store'.attempts[k] = store.attempts[k]

Launch ==
    \A key \in work'.executors \ work.executors :
       key \notin DOMAIN store.attempts /\ key \in DOMAIN store'.attempts

-----------------------------------------------------------------------------
(* Saving.                                                                   *)

\* The attempts of a snapshot, by task and number.
LEMMA AttemptKeys ==
    ASSUME NEW s, NEW k
    PROVE  k \in AttemptsOf(s) <=> \E t \in Task : \E i \in 1..Len(s.attempts[t]) : k = <<t, i>>
  BY DEF AttemptsOf

\* The rows of a snapshot that follows an open one keep what has ended.
LEMMA WriteFinal ==
    ASSUME NEW x \in Loaded, NEW y \in Loaded, y.cancel = x.cancel,
           Follows(x.snap, y.snap), x.snap.status \notin WorkflowTerminal,
           x.cancel => Moves(x.snap, y.snap),
           store = insertSnapshot(x), store' = insertSnapshot(y)
    PROVE  Final
  <1>1. /\ store.run.status = x.snap.status /\ store.run.cancel = x.cancel
        /\ store'.run.cancel = x.cancel
        /\ DOMAIN store.attempts = AttemptsOf(x.snap)
        /\ DOMAIN store'.attempts = AttemptsOf(y.snap)
        /\ \A k \in AttemptsOf(x.snap) : store.attempts[k] = x.snap.attempts[k[1]][k[2]]
        /\ \A k \in AttemptsOf(y.snap) : store'.attempts[k] = y.snap.attempts[k[1]][k[2]]
        /\ \A t \in Task : /\ store.tasks[t].status = x.snap.task[t]
                           /\ store'.tasks[t].status = y.snap.task[t]
    BY DEF insertSnapshot, RunRow, TaskRow
  <1>2. ~Ended
    BY <1>1 DEF Ended
  <1>3. ASSUME x.cancel PROVE AttemptsOf(y.snap) = AttemptsOf(x.snap)
    <2>1. \A t \in Task : Len(y.snap.attempts[t]) = Len(x.snap.attempts[t])
      BY <1>3 DEF Moves
    <2>2. \A k : k \in AttemptsOf(y.snap) <=> k \in AttemptsOf(x.snap)
      BY <2>1, AttemptKeys
    <2> QED BY <2>2
  <1>4. ASSUME NEW k \in AttemptsOf(x.snap)
        PROVE  /\ k \in AttemptsOf(y.snap)
               /\ x.snap.attempts[k[1]][k[2]].status # "running" =>
                    y.snap.attempts[k[1]][k[2]] = x.snap.attempts[k[1]][k[2]]
    <2>1. PICK t \in Task : \E j \in 1..Len(x.snap.attempts[t]) : k = <<t, j>>
      BY AttemptKeys
    <2>2. PICK i \in 1..Len(x.snap.attempts[t]) : k = <<t, i>>
      BY <2>1
    <2>3. /\ Len(x.snap.attempts[t]) \in Nat /\ Len(y.snap.attempts[t]) \in Nat
          /\ Len(x.snap.attempts[t]) <= Len(y.snap.attempts[t])
      BY Lengths DEF Follows
    <2>4. i \in 1..Len(y.snap.attempts[t])
      BY <2>3
    <2>5. k \in AttemptsOf(y.snap)
      BY <2>2, <2>4, AttemptKeys
    <2>6. k[1] = t /\ k[2] = i
      BY <2>2
    <2>7. x.snap.attempts[t][i].status # "running" =>
             y.snap.attempts[t][i] = x.snap.attempts[t][i]
      BY DEF Follows
    <2> QED BY <2>5, <2>6, <2>7
  <1>5. \A t \in Task : x.snap.task[t] \in TaskTerminal => y.snap.task[t] = x.snap.task[t]
    BY DEF Follows
  <1> QED BY <1>1, <1>2, <1>3, <1>4, <1>5 DEF Final

\* A step that writes nothing and starts nothing.
LEMMA QuietStep == ASSUME store' = store PROVE Final
  BY DEF Final

\* Where a goroutine goes that may have been stopped.
LEMMA ProceedTo ==
    ASSUME stop \in {"none", "business", "shutdown"}, NEW next
    PROVE  /\ Proceed(next) \in {next, "settle", "finalize", "idle"}
           /\ ~Stopped => Proceed(next) = next
           /\ Stopped => Proceed(next) \in {"settle", "finalize", "idle"}
  BY DEF Proceed, Stopped

\* The snapshot with the candidate in it.
LEMMA SavedType ==
    ASSUME Typed, NEW s \in Snap
    PROVE  Saved(s) \in Loaded /\ Saved(s).snap = s /\ Saved(s).cancel = mem.cancel
  BY DEF Typed, Saved, Loaded, Snap

\* With the latest revision the change set makes the rows those of the candidate.
LEMMA WriteRows ==
    ASSUME EngineInv, fresh, pc \in Executing \cup Canceling,
           NEW s, Follows(mem.snap, s), s.err = FALSE
    PROVE  /\ store = insertSnapshot(mem)
           /\ applyChangeSet(store, Change(s)) = insertSnapshot(Saved(s))
           /\ Kept(insertSnapshot(Saved(s)))
  <1>1. store = insertSnapshot(mem) /\ mem \in Loaded /\ Typed
    BY DEF EngineInv, Typed
  <1>2. s \in Snap
    BY DEF Follows
  <1>3. Saved(s) \in Loaded /\ Saved(s).snap = s
    BY <1>1, <1>2, SavedType
  <1>4. applyChangeSet(store, Change(s)) = insertSnapshot(Saved(s))
    BY <1>1, <1>3, ChangeApplied DEF Change
  <1> QED BY <1>1, <1>3, <1>4, InsertedKept

\* Outside the loop no condition on the work or on the Run is left.
LEMMA OutOfLoop ==
    ASSUME Typed', Kept(store)', pc' \notin Executing,
           fresh' /\ pc' \in Canceling => store' = insertSnapshot(mem')
    PROVE  EngineInv'
  BY DEF EngineInv, Executing, InLoop

\* A conflict: the stored Run is read again or the goroutine leaves.
LEMMA ConflictStep ==
    ASSUME EngineInv, pc \in Executing, Conflict
    PROVE  EngineInv' /\ store' = store /\ work' = NoWork
  <1>1. Typed /\ Kept(store) /\ store' = store /\ work' = NoWork
    BY DEF EngineInv, Conflict
  <1>2. pc' \in {"settle", "finalize", "idle", "failed"}
    BY <1>1, ProceedTo DEF Conflict, Typed
  <1>3. persisted \in Loaded /\ persisted.snap.err = FALSE /\ store = insertSnapshot(persisted)
    BY <1>1 DEF Kept, persisted
  <1>4. \/ mem' = persisted /\ fresh' = TRUE
        \/ mem' = mem /\ fresh' = FALSE
    BY <1>1 DEF Conflict, Typed
  <1>5. mem' \in Loaded /\ mem'.snap.err = FALSE /\ fresh' \in BOOLEAN
    BY <1>1, <1>3, <1>4 DEF Typed
  <1>6. work' \in Work /\ stop' = stop /\ faults' = faults /\ pc' \in PC
    BY <1>1, <1>2 DEF Conflict, Work, NoWork, PC
  <1>7. Typed'
    BY <1>1, <1>5, <1>6 DEF Typed
  <1>8. Kept(store)'
    BY <1>1 DEF Kept, loadSnapshot
  <1> QED BY <1>1, <1>2, <1>3, <1>4, <1>7, <1>8, OutOfLoop DEF Executing

\* A storage error: the change may have been written, unseen by the goroutine.
LEMMA ErrorStep ==
    ASSUME EngineInv, pc \in Executing \cup Canceling,
           NEW s, Follows(mem.snap, s), s.err = FALSE,
           mem.snap.status \notin WorkflowTerminal, mem.cancel => Moves(mem.snap, s),
           StorageError(s), pc' \in Canceling \cup {"idle", "down"}
    PROVE  EngineInv' /\ Final /\ work' = NoWork
  <1>1. Typed /\ Kept(store) /\ work' = NoWork /\ mem' = mem /\ stop' = stop
    BY DEF EngineInv, StorageError
  <1>2. \/ store' = store /\ fresh' = fresh
        \/ fresh /\ store' = applyChangeSet(store, Change(s)) /\ fresh' = FALSE
    BY DEF StorageError
  <1>3. faults' \in 0..MaxFaults
    BY <1>1, EngineAssumption DEF StorageError, Typed
  <1>4. work' \in Work /\ pc' \in PC /\ pc' \notin Executing
    BY <1>1 DEF Work, NoWork, PC, Canceling, Executing
  <1>5. Typed'
    BY <1>1, <1>2, <1>3, <1>4 DEF Typed
  <1>6. CASE store' = store /\ fresh' = fresh
    <2>1. Kept(store)'
      BY <1>1, <1>6 DEF Kept, loadSnapshot
    <2>2. fresh' /\ pc' \in Canceling => store' = insertSnapshot(mem')
      BY <1>1, <1>6 DEF EngineInv
    <2> QED BY <1>1, <1>4, <1>5, <1>6, <2>1, <2>2, OutOfLoop, QuietStep
  <1>7. CASE fresh /\ store' = applyChangeSet(store, Change(s)) /\ fresh' = FALSE
    <2>1. /\ store = insertSnapshot(mem) /\ store' = insertSnapshot(Saved(s))
          /\ Kept(insertSnapshot(Saved(s)))
      BY <1>7, WriteRows
    <2>2. Kept(store')
      BY <2>1
    <2>3. Kept(store)'
      BY <2>2 DEF Kept, loadSnapshot
    <2>4. s \in Snap /\ mem \in Loaded
      BY <1>1 DEF Follows, Typed
    <2>5. Saved(s) \in Loaded /\ Saved(s).snap = s /\ Saved(s).cancel = mem.cancel
      BY <1>1, <2>4, SavedType
    <2>6. Final
      BY <2>1, <2>4, <2>5, WriteFinal
    <2> QED BY <1>1, <1>4, <1>5, <1>7, <2>3, <2>6, OutOfLoop
  <1> QED BY <1>2, <1>6, <1>7

\* A save that is answered.
LEMMA CommitStep ==
    ASSUME EngineInv, pc \in Executing \cup Canceling,
           NEW s, Follows(mem.snap, s), s.err = FALSE,
           mem.snap.status \notin WorkflowTerminal, mem.cancel => Moves(mem.snap, s),
           Commit(s)
    PROVE  /\ mem' \in Loaded /\ mem'.snap = s /\ mem'.cancel = mem.cancel
           /\ store = insertSnapshot(mem) /\ store' = insertSnapshot(mem')
           /\ Kept(store)' /\ fresh' = TRUE /\ Final
  <1>1. /\ fresh /\ store' = applyChangeSet(store, Change(s))
        /\ mem' = Saved(s) /\ fresh' = TRUE
    BY DEF Commit
  <1>2. /\ store = insertSnapshot(mem) /\ store' = insertSnapshot(Saved(s))
        /\ Kept(insertSnapshot(Saved(s)))
    BY <1>1, WriteRows
  <1>3. Kept(store')
    BY <1>2
  <1>4. Kept(store)'
    BY <1>3 DEF Kept, loadSnapshot
  <1>5. Typed /\ s \in Snap /\ mem \in Loaded
    BY DEF EngineInv, Follows, Typed
  <1>6. Saved(s) \in Loaded /\ Saved(s).snap = s /\ Saved(s).cancel = mem.cancel
    BY <1>5, SavedType
  <1>7. Final
    BY <1>2, <1>5, <1>6, WriteFinal
  <1> QED BY <1>1, <1>2, <1>4, <1>6, <1>7

\* Every save of the event loop: what the next step needs, and where the work comes from.
LEMMA SaveStep ==
    ASSUME EngineInv, pc \in Executing,
           NEW s, Follows(mem.snap, s), s.err = FALSE,
           mem.snap.status \notin WorkflowTerminal,
           NEW next \in PC, NEW w \in Work, w # NoWork => next \in {"start", "loop"},
           next \in {"prepare", "enter"} => s.status \notin WorkflowTerminal,
           next \in {"start", "loop"} => s.status # "pending" /\ Closed(s),
           Save(s, next, w)
    PROVE  /\ EngineInv' /\ Final
           /\ \/ work' = NoWork
              \/ /\ work' = w
                 /\ store = insertSnapshot(mem)
                 /\ store' = insertSnapshot(Saved(s))
  <1>1. Typed /\ ~mem.cancel
    BY DEF EngineInv
  <1>2. \/ Commit(s) /\ pc' = next /\ work' = w /\ UNCHANGED <<stop, faults>>
        \/ Conflict
        \/ StorageError(s) /\ pc' = Proceed("down")
    BY DEF Save
  <1>3. CASE Commit(s) /\ pc' = next /\ work' = w /\ UNCHANGED <<stop, faults>>
    <2>1. /\ mem' \in Loaded /\ mem'.snap = s /\ mem'.cancel = mem.cancel
          /\ store = insertSnapshot(mem) /\ store' = insertSnapshot(mem')
          /\ Kept(store)' /\ fresh' = TRUE /\ Final
      BY <1>1, <1>3, CommitStep
    <2>2. mem' = Saved(s)
      BY <1>3 DEF Commit
    <2>3. Typed'
      BY <1>1, <1>3, <2>1 DEF Typed, InLoop
    <2>4. EngineInv'
      BY <1>1, <1>3, <2>1, <2>3 DEF EngineInv, InLoop, Executing, Closed
    <2> QED BY <1>3, <2>1, <2>2, <2>4
  <1>4. CASE Conflict
    BY <1>4, ConflictStep, QuietStep
  <1>5. CASE StorageError(s) /\ pc' = Proceed("down")
    <2>1. pc' \in Canceling \cup {"idle", "down"}
      BY <1>1, <1>5, ProceedTo DEF Typed, Canceling
    <2> QED BY <1>1, <1>5, <2>1, ErrorStep
  <1> QED BY <1>2, <1>3, <1>4, <1>5

\* A step that writes nothing and keeps the snapshot: only the place matters.
LEMMA UnsavedStep ==
    ASSUME EngineInv, store' = store, mem' = mem, fresh' = fresh, Typed',
           pc' \in Executing \cup Canceling => pc \in Executing \cup Canceling,
           pc' \in Executing => pc \in Executing,
           pc' \in {"prepare", "enter"} => pc \in {"prepare", "enter"},
           pc' \in {"start", "loop"} => InLoop \/ (pc = "enter" /\ mem.snap.status # "pending")
    PROVE  EngineInv' /\ Final
  <1>1. Kept(store)'
    BY DEF EngineInv, Kept, loadSnapshot
  <1>2. fresh' /\ pc' \in Executing \cup Canceling => store' = insertSnapshot(mem')
    BY DEF EngineInv
  <1>3. pc' \in Executing => ~mem'.cancel
    BY DEF EngineInv
  <1>4. pc' \in {"prepare", "enter"} => mem'.snap.status \notin WorkflowTerminal
    BY DEF EngineInv
  <1>5. pc' \in {"start", "loop"} => mem'.snap.status # "pending" /\ Closed(mem'.snap)
    BY DEF EngineInv, Closed
  <1>6. EngineInv'
    BY <1>1, <1>2, <1>3, <1>4, <1>5 DEF EngineInv, InLoop, Closed
  <1> QED BY <1>6, QuietStep

\* Work that ends starts no executor.
LEMMA NoLaunch ==
    ASSUME Typed, work' = NoWork \/ work' = work \/ work'.executors \subseteq work.executors
    PROVE  Launch
  BY DEF Launch, NoWork

\* Work the goroutine has while it does not execute the Run.
LEMMA NoWorkElsewhere == ASSUME Typed, ~InLoop PROVE work = NoWork /\ work \in Work
  BY DEF Typed

\* The goroutine of a Run that is not executed.
LEMMA NoWorkType == NoWork \in Work /\ NoWork.executors = {}
  BY DEF NoWork, Work

-----------------------------------------------------------------------------
(* One lemma per action.                                                     *)

\* A new Run.
LEMMA InitHolds == ASSUME Init PROVE EngineInv
  <1>1. newRunSnapshot \in Snap /\ newRunSnapshot.err = FALSE
    BY NewRunSound DEF Sound, Snap, SnapshotInv
  <1>2. mem \in Loaded /\ mem.snap = newRunSnapshot
    BY <1>1 DEF Init, Loaded, Snap
  <1>3. Kept(store)
    BY <1>1, <1>2, InsertedKept DEF Init
  <1>4. Typed
    BY <1>1, <1>2, NoWorkType, EngineAssumption DEF Init, Typed, PC
  <1> QED BY <1>3, <1>4 DEF Init, EngineInv, Executing, Canceling, InLoop

\* Execute or Resume registers the Run.
LEMMA BeginStep == ASSUME EngineInv, Begin PROVE EngineInv' /\ Final /\ Launch
  <1>1. Typed /\ store' = store /\ mem' = mem /\ fresh' = fresh /\ work' = work
    BY DEF EngineInv, Begin
  <1>2. pc = "idle" /\ pc' \in {"resume", "execute"} /\ stop' = "none" /\ faults' = faults
    BY DEF Begin
  <1>3. work = NoWork /\ work \in Work
    BY <1>1, <1>2, NoWorkElsewhere DEF InLoop
  <1>4. Typed'
    BY <1>1, <1>2, <1>3 DEF Typed, PC
  <1> QED BY <1>1, <1>2, <1>4, UnsavedStep, NoLaunch DEF Executing, Canceling

\* The Run is loaded; a recorded cancellation is settled first.
LEMMA LoadStep == ASSUME EngineInv, LoadRun PROVE EngineInv' /\ Final /\ Launch
  <1>1. Typed /\ Kept(store) /\ store' = store /\ work' = work /\ stop' = stop
        /\ faults' = faults /\ mem' = persisted /\ fresh' = TRUE
    BY DEF EngineInv, LoadRun
  <1>2. persisted \in Loaded /\ persisted.snap.err = FALSE /\ store = insertSnapshot(persisted)
    BY <1>1 DEF Kept, persisted
  <1>3. store.run.status = persisted.snap.status /\ store.run.cancel = persisted.cancel
    BY DEF persisted, loadSnapshot
  <1>4. Kept(store)' /\ Final
    BY <1>1, QuietStep DEF Kept, loadSnapshot
  <1>5. work = NoWork /\ work \in Work
    BY <1>1, NoWorkElsewhere DEF InLoop, LoadRun
  <1>6. \/ pc' \in {"idle", "settle"}
        \/ pc' \in {"enter", "prepare"} /\ ~Ended /\ ~store.run.cancel
    <2>1. pc' = IF persisted.snap.err THEN "failed"
                ELSE IF Ended THEN "idle"
                ELSE IF store.run.cancel THEN "settle"
                ELSE Proceed(IF pc = "execute" THEN "enter" ELSE "prepare")
      BY DEF LoadRun
    <2>2. \A next : Proceed(next) \in {next, "settle", "idle"}
      BY <1>1 DEF LoadRun, Proceed, Typed
    <2>3. store.run.cancel \in BOOLEAN
      BY <1>2, <1>3 DEF Loaded
    <2> QED BY <1>2, <2>1, <2>2, <2>3 DEF Ended
  <1>7. Typed'
    BY <1>1, <1>2, <1>5, <1>6 DEF Typed, PC
  <1>8. EngineInv'
    BY <1>1, <1>2, <1>3, <1>4, <1>6, <1>7 DEF EngineInv, Ended, Executing, Canceling, InLoop
  <1> QED BY <1>1, <1>4, <1>8, NoLaunch

\* prepareForResume and its save.
LEMMA PrepareStep == ASSUME EngineInv, Prepare PROVE EngineInv' /\ Final /\ Launch
  <1>1. Typed /\ pc = "prepare" /\ mem.snap \in Snap /\ mem.snap.status \notin WorkflowTerminal
    BY DEF EngineInv, Prepare, Typed, Loaded, Snap
  <1>2. PICK failed : failed = interruptRunning(mem.snap)
    OBVIOUS
  <1>3. PICK counted : counted = rebuildDependencies(failed)
    OBVIOUS
  <1>4. PICK s : s = prepareForResume(mem.snap, counted)
    OBVIOUS
  <1>5. Steady(mem.snap, s)
    BY <1>1, <1>2, <1>3, <1>4, PrepareSteady
  <1>6. IF s.err
        THEN pc' = "failed" /\ UNCHANGED <<store, mem, fresh, stop, work, faults>>
        ELSE Save(s, Proceed("enter"), NoWork)
    BY <1>2, <1>3, <1>4 DEF Prepare
  <1>7. s \in Snap /\ s.status \notin WorkflowTerminal /\ Follows(mem.snap, s)
    BY <1>1, <1>5, SteadyType DEF Steady, Moves
  <1>8. CASE pc' = "failed" /\ UNCHANGED <<store, mem, fresh, stop, work, faults>>
    <2>1. work = NoWork
      BY <1>1, NoWorkElsewhere DEF InLoop
    <2>2. Typed'
      BY <1>1, <1>8, <2>1 DEF Typed, PC
    <2> QED BY <1>1, <1>8, <2>2, UnsavedStep, NoLaunch DEF Executing, Canceling
  <1>9. CASE ~s.err /\ Save(s, Proceed("enter"), NoWork)
    <2>1. s.err = FALSE
      BY <1>7, <1>9 DEF Snap, Snapshot
    <2>2. PICK next : next = Proceed("enter")
      OBVIOUS
    <2>3. next \in PC /\ next \notin {"start", "loop"}
      BY <1>1, <2>2, ProceedTo DEF Typed, PC
    <2>4. EngineInv' /\ Final /\ work' = NoWork
      BY <1>1, <1>7, <1>9, <2>1, <2>2, <2>3, NoWorkType, SaveStep DEF Executing
    <2> QED BY <1>1, <2>4, NoLaunch
  <1> QED BY <1>6, <1>8, <1>9

\* The timers of waiting tasks.
LEMMA RetryTimersType ==
    ASSUME NEW s \in Snap, NEW T \in SUBSET Task
    PROVE  RetryTimers(s, T) \in SUBSET (AttemptKey \X Int)
  <1> SUFFICES ASSUME NEW t \in T PROVE RetryTimer(s, t) \in AttemptKey \X Int
    BY DEF RetryTimers
  <1>1. Len(s.attempts[t]) \in Nat
    BY Lengths
  <1>2. s.readyAt[t] \in Int
    BY DEF Snap, Snapshot
  <1> QED BY <1>1, <1>2 DEF RetryTimer, AttemptKey

\* executeSnapshot up to its loop.
LEMMA EnterStep == ASSUME EngineInv, Enter PROVE EngineInv' /\ Final /\ Launch
  <1> DEFINE w == [NoWork EXCEPT !.retries = RetryTimers(mem.snap, Task)]
             s == transitionWorkflow(mem.snap, "running")
  <1>1. Typed /\ pc = "enter" /\ mem.snap \in Snap /\ mem.snap.status \notin WorkflowTerminal
    BY DEF EngineInv, Enter, Typed, Loaded, Snap
  <1>2. w \in Work /\ w.executors = {}
    <2>1. RetryTimers(mem.snap, Task) \in SUBSET (AttemptKey \X Int)
      BY <1>1, RetryTimersType
    <2> QED BY <2>1 DEF Work, NoWork
  <1>3. IF mem.snap.status = "pending"
        THEN Save(s, Proceed("start"), IF Stopped THEN NoWork ELSE w)
        ELSE pc' = "start" /\ work' = w /\ UNCHANGED <<store, mem, fresh, stop, faults>>
    BY DEF Enter
  <1> HIDE DEF w
  <1>4. CASE mem.snap.status = "pending"
    <2>1. s = [mem.snap EXCEPT !.status = "running"]
      BY <1>4 DEF transitionWorkflow, workflowTransitions
    <2>2. s.err = FALSE /\ s.status = "running"
      BY <1>1, <2>1 DEF Snap, Snapshot, Typed
    <2>3. Follows(mem.snap, s)
      BY <1>1, WorkflowMoves DEF Moves, WorkflowStatus
    <2> HIDE DEF s
    <2>4. PICK next : next = Proceed("start")
      OBVIOUS
    <2>5. PICK v : v = IF Stopped THEN NoWork ELSE w
      OBVIOUS
    <2>6. next \in PC /\ next \notin {"prepare", "enter"} /\ (v # NoWork => next = "start")
      BY <1>1, <2>4, <2>5, ProceedTo DEF Typed, PC
    <2>7. v \in Work /\ v.executors = {}
      BY <1>2, <2>5, NoWorkType
    <2>8. Closed(s)
      BY <2>2 DEF Closed, WorkflowTerminal
    <2>9. Save(s, next, v)
      BY <1>3, <1>4, <2>4, <2>5
    <2>10. EngineInv' /\ Final /\ (work' = NoWork \/ work' = v)
      BY <1>1, <2>2, <2>3, <2>6, <2>7, <2>8, <2>9, SaveStep DEF Executing
    <2> QED BY <1>1, <2>7, <2>10, NoLaunch
  <1>5. CASE mem.snap.status # "pending"
    <2>1. pc' = "start" /\ work' = w /\ UNCHANGED <<store, mem, fresh, stop, faults>>
      BY <1>3, <1>5
    <2>2. Typed'
      BY <1>1, <1>2, <2>1 DEF Typed, PC, InLoop
    <2> QED BY <1>1, <1>2, <1>5, <2>1, <2>2, UnsavedStep, NoLaunch DEF Executing, Canceling
  <1> QED BY <1>4, <1>5

\* A task that has not ended belongs to an open Run.
LEMMA LoopOpen ==
    ASSUME EngineInv, InLoop, NEW t \in Task, mem.snap.task[t] \notin TaskTerminal
    PROVE  mem.snap.status \notin WorkflowTerminal
  BY DEF EngineInv, Closed

\* startReadyTasks takes the first ready task.
LEMMA FirstReadyReady == ASSUME Ready # {} PROVE FirstReady \in Ready
  <1> DEFINE R == {ss \in Nat \X Nat : ss[1] < ss[2]}
  <1>1. Ready \subseteq Nat
    BY DefinitionAssumption DEF Ready, Task
  <1>2. R = OpToRel(<, Nat)
    BY DEF OpToRel
  <1>3. IsWellFoundedOn(R, Nat)
    BY <1>2, NatLessThanWellFounded
  <1> HIDE DEF R
  <1>4. PICK S : S = Ready
    OBVIOUS
  <1>5. S \subseteq Nat /\ S # {}
    BY <1>1, <1>4
  <1>6. \E m \in S : \A k \in S : ~(<<k, m>> \in R)
    BY <1>3, <1>5, WFMin
  <1>7. PICK m \in Ready : \A k \in Ready : ~(<<k, m>> \in R)
    BY <1>4, <1>6
  <1>8. \A k \in Ready : m <= k
    <2> SUFFICES ASSUME NEW k \in Ready PROVE m <= k
      OBVIOUS
    <2>1. k \in Nat /\ m \in Nat
      BY <1>1
    <2>2. k < m => <<k, m>> \in R
      BY <2>1 DEF R
    <2> QED BY <1>7, <2>1, <2>2
  <1> QED BY <1>8 DEF FirstReady

\* The attempt of the new executor is the one this step inserts.
LEMMA StartTaskStep == ASSUME EngineInv, StartTask PROVE EngineInv' /\ Final /\ Launch
  <1>1. Typed /\ pc = "start" /\ InLoop /\ mem.snap \in Snap
    BY DEF EngineInv, StartTask, Typed, Loaded, Snap, InLoop
  <1>2. PICK t : t = FirstReady
    OBVIOUS
  <1>3. t \in Task /\ mem.snap.task[t] = "ready"
    BY <1>2, FirstReadyReady DEF StartTask, Ready
  <1>4. mem.snap.status \notin WorkflowTerminal
    BY <1>1, <1>3, LoopOpen DEF TaskTerminal
  <1>5. PICK s : s = prepareTask(mem.snap, t)
    OBVIOUS
  <1>6. /\ Follows(mem.snap, s) /\ s.status = mem.snap.status
        /\ Len(s.attempts[t]) = Len(mem.snap.attempts[t]) + 1
    BY <1>1, <1>3, <1>5, StartFollows
  <1>7. s \in Snap /\ Len(s.attempts[t]) \in Nat /\ Len(mem.snap.attempts[t]) \in Nat
    BY <1>1, <1>3, <1>6, Lengths DEF Follows
  <1>8. PICK key : key = <<t, Len(s.attempts[t])>>
    OBVIOUS
  <1>9. PICK w : w = IF Stopped THEN NoWork
                     ELSE [work EXCEPT !.active = @ \cup {key},
                                       !.executors = @ \cup {key},
                                       !.timers = @ \cup {key}]
    OBVIOUS
  <1>10. \/ pc' = "failed" /\ work' = NoWork /\ UNCHANGED <<store, mem, fresh, stop, faults>>
         \/ ~s.err /\ Save(s, Proceed("start"), w)
    BY <1>2, <1>5, <1>8, <1>9 DEF StartTask
  <1>11. CASE pc' = "failed" /\ work' = NoWork /\ UNCHANGED <<store, mem, fresh, stop, faults>>
    <2>1. Typed'
      BY <1>1, <1>11, NoWorkType DEF Typed, PC
    <2> QED BY <1>1, <1>11, <2>1, UnsavedStep, NoLaunch DEF Executing, Canceling
  <1>12. CASE ~s.err /\ Save(s, Proceed("start"), w)
    <2>1. s.err = FALSE
      BY <1>7, <1>12 DEF Snap, Snapshot
    <2>2. PICK next : next = Proceed("start")
      OBVIOUS
    <2>3. next \in PC /\ next \notin {"prepare", "enter"} /\ (w # NoWork => next = "start")
      BY <1>1, <1>9, <2>2, ProceedTo DEF Typed, PC
    <2>4. key \in AttemptKey
      BY <1>3, <1>7, <1>8 DEF AttemptKey
    <2>5. w \in Work /\ w.executors \subseteq work.executors \cup {key}
      <3>1. CASE Stopped
        BY <3>1, <1>9, NoWorkType
      <3>2. CASE ~Stopped
        <4>1. work \in Work
          BY <1>1 DEF Typed
        <4> QED BY <1>9, <2>4, <3>2, <4>1 DEF Work
      <3> QED BY <3>1, <3>2
    <2>6. s.status # "pending" /\ Closed(s)
      BY <1>1, <1>4, <1>6 DEF EngineInv, Closed
    <2>7. Save(s, next, w)
      BY <1>12, <2>2
    <2>8. /\ EngineInv' /\ Final
          /\ \/ work' = NoWork
             \/ work' = w /\ store = insertSnapshot(mem) /\ store' = insertSnapshot(Saved(s))
      BY <1>1, <1>4, <1>6, <2>1, <2>3, <2>5, <2>6, <2>7, SaveStep DEF Executing
    <2>9. CASE work' = NoWork
      BY <1>1, <2>8, <2>9, NoLaunch
    <2>10. CASE work' = w /\ store = insertSnapshot(mem) /\ store' = insertSnapshot(Saved(s))
      <3>1. Saved(s).snap = s
        BY <1>1, <1>7, SavedType
      <3>2. DOMAIN store.attempts = AttemptsOf(mem.snap) /\ DOMAIN store'.attempts = AttemptsOf(s)
        BY <2>10, <3>1 DEF insertSnapshot
      <3>3. key \in AttemptsOf(s)
        <4>1. Len(s.attempts[t]) \in 1..Len(s.attempts[t])
          BY <1>6, <1>7
        <4> QED BY <1>3, <1>8, <4>1, AttemptKeys
      <3>4. key \notin AttemptsOf(mem.snap)
        <4> SUFFICES ASSUME key \in AttemptsOf(mem.snap) PROVE FALSE
          OBVIOUS
        <4>1. PICK u \in Task : \E j \in 1..Len(mem.snap.attempts[u]) : key = <<u, j>>
          BY AttemptKeys
        <4>2. Len(s.attempts[t]) \in 1..Len(mem.snap.attempts[t])
          BY <1>8, <4>1
        <4> QED BY <1>6, <1>7, <4>2
      <3> QED BY <2>5, <2>8, <2>10, <3>2, <3>3, <3>4 DEF Launch
    <2> QED BY <2>8, <2>9, <2>10
  <1> QED BY <1>10, <1>11, <1>12

\* The loop waits for an event.
LEMMA AllStartedStep == ASSUME EngineInv, AllStarted PROVE EngineInv' /\ Final /\ Launch
  <1>1. /\ Typed /\ pc = "start" /\ pc' = "loop"
        /\ UNCHANGED <<store, mem, fresh, stop, work, faults>>
    BY DEF EngineInv, AllStarted
  <1>2. Typed'
    BY <1>1 DEF Typed, PC, InLoop
  <1> QED BY <1>1, <1>2, UnsavedStep, NoLaunch DEF Executing, Canceling, InLoop

\* A goroutine that leaves its loop without a save.
LEMMA LeaveLoop ==
    ASSUME EngineInv, InLoop, UNCHANGED <<store, mem, fresh, faults>>, work' = NoWork,
           stop' \in {"none", "business", "shutdown"},
           pc' \in Canceling \cup {"idle", "failed", "down"}
    PROVE  EngineInv' /\ Final /\ Launch
  <1>1. Typed /\ pc \in Executing
    BY DEF EngineInv, InLoop, Executing
  <1>2. pc' \in PC /\ pc' \notin Executing
    BY DEF PC, Canceling, Executing
  <1>3. Typed'
    BY <1>1, <1>2, NoWorkType DEF Typed
  <1> QED BY <1>1, <1>2, <1>3, UnsavedStep, NoLaunch DEF Executing

\* The loop sees that it was stopped.
LEMMA StopNoticedStep == ASSUME EngineInv, StopNoticed PROVE EngineInv' /\ Final /\ Launch
  <1>1. Typed
    BY DEF EngineInv
  <1>2. pc' \in Canceling \cup {"idle", "failed", "down"}
    BY <1>1, ProceedTo DEF StopNoticed, Typed, Canceling
  <1>3. stop' \in {"none", "business", "shutdown"}
    BY <1>1 DEF StopNoticed, Typed
  <1> QED BY <1>2, <1>3, LeaveLoop DEF StopNoticed

\* An event that is received in the loop.
LEMMA ApplyStep ==
    ASSUME EngineInv, pc = "loop", NEW w \in Work, w.executors \subseteq work.executors,
           NEW applied, NEW s, NEW t \in Task, Apply(applied, s, t, w),
           applied => /\ mem.snap.status \notin WorkflowTerminal
                      /\ Moves(mem.snap, s) /\ Closed(s)
    PROVE  EngineInv' /\ Final /\ Launch
  <1>1. Typed /\ InLoop /\ mem.snap.status # "pending"
    BY DEF EngineInv, InLoop
  <1>2. CASE ~applied
    <2>1. pc' = "start" /\ work' = w /\ UNCHANGED <<store, mem, fresh, stop, faults>>
      BY <1>2 DEF Apply
    <2>2. Typed'
      BY <1>1, <2>1 DEF Typed, PC, InLoop
    <2> QED BY <1>1, <2>1, <2>2, UnsavedStep, NoLaunch DEF Executing, Canceling
  <1>3. CASE applied /\ s.err
    <2>1. pc' = "failed" /\ work' = NoWork /\ UNCHANGED <<store, mem, fresh, stop, faults>>
      BY <1>3 DEF Apply
    <2> QED BY <1>1, <2>1, LeaveLoop DEF Typed
  <1>4. CASE applied /\ ~s.err
    <2> DEFINE v == [w EXCEPT !.retries = @ \cup RetryTimers(s, {t})]
    <2>1. Save(s, "start", v)
      BY <1>4 DEF Apply
    <2>2. Follows(mem.snap, s) /\ s \in Snap /\ Closed(s) /\ mem.snap.status \notin WorkflowTerminal
      BY <1>4 DEF Moves, Follows
    <2>3. s.err = FALSE /\ s.status # "pending"
      BY <1>1, <1>4, <2>2 DEF Snap, Snapshot, Follows
    <2>4. v \in Work /\ v.executors = w.executors
      <3>1. RetryTimers(s, {t}) \in SUBSET (AttemptKey \X Int)
        BY <2>2, RetryTimersType
      <3> QED BY <3>1 DEF Work
    <2> HIDE DEF v
    <2>5. EngineInv' /\ Final /\ (work' = NoWork \/ work' = v)
      BY <1>1, <2>1, <2>2, <2>3, <2>4, SaveStep DEF Executing, PC
    <2> QED BY <1>1, <2>4, <2>5, NoLaunch
  <1> QED BY <1>2, <1>3, <1>4

\* An executor returns.
LEMMA CompletionStep ==
    ASSUME EngineInv, NEW key \in work.executors, NEW kind \in ExecutionKind,
           Completion(key, kind)
    PROVE  EngineInv' /\ Final /\ Launch
  <1> DEFINE w == [work EXCEPT !.active = @ \ {key}, !.executors = @ \ {key}]
  <1>1. Typed /\ pc = "loop" /\ InLoop /\ mem.snap \in Snap /\ work \in Work
    BY DEF EngineInv, Completion, Receiving, InLoop, Typed, Loaded, Snap
  <1>2. w \in Work /\ w.executors \subseteq work.executors
    BY <1>1 DEF Work
  <1>3. key[1] \in Task
    BY <1>1 DEF Work, AttemptKey
  <1>4. \/ work' = w /\ UNCHANGED <<store, mem, fresh, pc, stop, faults>>
        \/ /\ stop' = "business" /\ pc' = "finalize" /\ work' = NoWork
           /\ UNCHANGED <<store, mem, fresh, faults>>
        \/ /\ kind # "canceled"
           /\ Apply(activeAttempt(mem.snap, key[1], key[2]),
                    ApplyAttemptResult(mem.snap, key[1], kind, Now), key[1], w)
    BY DEF Completion
  <1> HIDE DEF w
  <1>5. CASE work' = w /\ UNCHANGED <<store, mem, fresh, pc, stop, faults>>
    <2>1. Typed'
      BY <1>1, <1>2, <1>5 DEF Typed, InLoop
    <2> QED BY <1>1, <1>2, <1>5, <2>1, UnsavedStep, NoLaunch DEF Executing, Canceling
  <1>6. CASE /\ stop' = "business" /\ pc' = "finalize" /\ work' = NoWork
             /\ UNCHANGED <<store, mem, fresh, faults>>
    BY <1>1, <1>6, LeaveLoop DEF Canceling
  <1>7. CASE /\ kind # "canceled"
             /\ Apply(activeAttempt(mem.snap, key[1], key[2]),
                      ApplyAttemptResult(mem.snap, key[1], kind, Now), key[1], w)
    <2>1. PICK applied : applied = activeAttempt(mem.snap, key[1], key[2])
      OBVIOUS
    <2>2. PICK s : s = ApplyAttemptResult(mem.snap, key[1], kind, Now)
      OBVIOUS
    <2>3. kind \in ResultKind
      BY <1>7 DEF ExecutionKind
    <2>4. applied => /\ mem.snap.status \notin WorkflowTerminal
                     /\ Moves(mem.snap, s) /\ Closed(s)
      <3> SUFFICES ASSUME applied PROVE /\ mem.snap.status \notin WorkflowTerminal
                                        /\ Moves(mem.snap, s) /\ Closed(s)
        OBVIOUS
      <3>1. mem.snap.task[key[1]] \notin TaskTerminal
        BY <2>1 DEF activeAttempt, TaskTerminal
      <3>2. mem.snap.status \notin WorkflowTerminal
        BY <1>1, <1>3, <3>1, LoopOpen
      <3> QED BY <1>1, <1>3, <2>2, <2>3, <3>2, ResultMoves
    <2>5. Apply(applied, s, key[1], w)
      BY <1>7, <2>1, <2>2
    <2> QED BY <1>1, <1>2, <1>3, <2>4, <2>5, ApplyStep
  <1> QED BY <1>4, <1>5, <1>6, <1>7

\* The timer of an attempt fires.
LEMMA TimedOutStep ==
    ASSUME EngineInv, NEW key \in work.timers, TimedOut(key)
    PROVE  EngineInv' /\ Final /\ Launch
  <1> DEFINE w == [work EXCEPT !.active = @ \ {key}, !.timers = @ \ {key}]
             outcome == [x \in {key[1]} |-> "timed_out"]
  <1>1. Typed /\ pc = "loop" /\ InLoop /\ mem.snap \in Snap /\ work \in Work
    BY DEF EngineInv, TimedOut, Receiving, InLoop, Typed, Loaded, Snap
  <1>2. w \in Work /\ w.executors \subseteq work.executors
    BY <1>1 DEF Work
  <1>3. key[1] \in Task
    BY <1>1 DEF Work, AttemptKey
  <1>4. \/ work' = w /\ UNCHANGED <<store, mem, fresh, pc, stop, faults>>
        \/ Apply(activeAttempt(mem.snap, key[1], key[2]),
                 EndAttempts(mem.snap, {key[1]}, outcome, Now), key[1], w)
    BY DEF TimedOut
  <1>5. outcome \in [{key[1]} -> AttemptStatus \ {"running"}] /\ Now \in Int
    BY DEF AttemptStatus, Now
  <1> HIDE DEF w, outcome
  <1>6. CASE work' = w /\ UNCHANGED <<store, mem, fresh, pc, stop, faults>>
    <2>1. Typed'
      BY <1>1, <1>2, <1>6 DEF Typed, InLoop
    <2> QED BY <1>1, <1>2, <1>6, <2>1, UnsavedStep, NoLaunch DEF Executing, Canceling
  <1>7. CASE Apply(activeAttempt(mem.snap, key[1], key[2]),
                   EndAttempts(mem.snap, {key[1]}, outcome, Now), key[1], w)
    <2>1. PICK applied : applied = activeAttempt(mem.snap, key[1], key[2])
      OBVIOUS
    <2>2. PICK s : s = EndAttempts(mem.snap, {key[1]}, outcome, Now)
      OBVIOUS
    <2>3. applied => /\ mem.snap.status \notin WorkflowTerminal
                     /\ Moves(mem.snap, s) /\ Closed(s)
      <3> SUFFICES ASSUME applied PROVE /\ mem.snap.status \notin WorkflowTerminal
                                        /\ Moves(mem.snap, s) /\ Closed(s)
        OBVIOUS
      <3>1. mem.snap.task[key[1]] \notin TaskTerminal
        BY <2>1 DEF activeAttempt, TaskTerminal
      <3>2. mem.snap.status \notin WorkflowTerminal
        BY <1>1, <1>3, <3>1, LoopOpen
      <3> QED BY <1>1, <1>3, <1>5, <2>2, <3>2, EndAttemptsMoves
    <2>4. Apply(applied, s, key[1], w)
      BY <1>7, <2>1, <2>2
    <2> QED BY <1>1, <1>2, <1>3, <2>3, <2>4, ApplyStep
  <1> QED BY <1>4, <1>6, <1>7

\* The timer of a retry fires.
LEMMA RetryFiredStep ==
    ASSUME EngineInv, NEW timer \in work.retries, RetryFired(timer)
    PROVE  EngineInv' /\ Final /\ Launch
  <1> DEFINE w == [work EXCEPT !.retries = @ \ {timer}]
             applied == /\ retryDue(mem.snap, timer[1][1], timer[2])
                        /\ Len(mem.snap.attempts[timer[1][1]]) = timer[1][2]
             s == MakeRetryReady(mem.snap, timer[1][1])
  <1>1. Typed /\ pc = "loop" /\ InLoop /\ mem.snap \in Snap /\ work \in Work
    BY DEF EngineInv, RetryFired, Receiving, InLoop, Typed, Loaded, Snap
  <1>2. w \in Work /\ w.executors \subseteq work.executors
    BY <1>1 DEF Work
  <1>3. timer[1][1] \in Task
    BY <1>1 DEF Work, AttemptKey
  <1>4. Apply(applied, s, timer[1][1], w)
    BY DEF RetryFired
  <1>5. applied => mem.snap.task[timer[1][1]] \notin TaskTerminal
    BY DEF retryDue, TaskTerminal
  <1> HIDE DEF w, applied
  <1>6. applied => mem.snap.status \notin WorkflowTerminal
    BY <1>1, <1>3, <1>5, LoopOpen
  <1>7. Steady(mem.snap, s)
    BY <1>1, <1>3, TasksSteady DEF MakeRetryReady, TaskStatus
  <1> HIDE DEF s
  <1>8. applied => Moves(mem.snap, s) /\ Closed(s)
    BY <1>6, <1>7, SteadyOpen DEF Steady
  <1> QED BY <1>1, <1>2, <1>3, <1>4, <1>6, <1>8, ApplyStep

\* The loop ends.
LEMMA LeaveStep == ASSUME EngineInv, Leave PROVE EngineInv' /\ Final /\ Launch
  <1>1. Typed /\ pc = "loop" /\ InLoop /\ mem.snap \in Snap
    BY DEF EngineInv, Leave, Receiving, InLoop, Typed, Loaded, Snap
  <1>2. PICK status \in {"failed", "succeeded"} :
           \/ /\ pc' \in {"idle", "failed"} /\ work' = NoWork
              /\ UNCHANGED <<store, mem, fresh, stop, faults>>
           \/ /\ ~Terminal(mem)
              /\ status \in {"failed", "succeeded"}
              /\ status \in workflowTransitions(mem.snap.status)
              /\ Save(transitionWorkflow(mem.snap, status), "idle", NoWork)
    <2>1. PICK status : status = IF \E t \in Task : mem.snap.task[t] = "failed" THEN "failed"
                                 ELSE "succeeded"
      OBVIOUS
    <2>2. status \in {"failed", "succeeded"}
      BY <2>1
    <2>3. IF Terminal(mem)
          THEN pc' = "idle" /\ work' = NoWork /\ UNCHANGED <<store, mem, fresh, stop, faults>>
          ELSE IF status = "succeeded" /\ \E t \in Task : mem.snap.task[t] # "succeeded"
          THEN pc' = "failed" /\ work' = NoWork /\ UNCHANGED <<store, mem, fresh, stop, faults>>
          ELSE Save(transitionWorkflow(mem.snap, status), "idle", NoWork)
      BY <2>1 DEF Leave
    <2>4. ~Terminal(mem) => mem.snap.status = "running"
      BY <1>1 DEF Terminal, EngineInv, Snap, Snapshot, WorkflowStatus, WorkflowTerminal
    <2>5. ~Terminal(mem) => status \in workflowTransitions(mem.snap.status)
      BY <2>2, <2>4 DEF workflowTransitions
    <2> QED BY <2>2, <2>3, <2>5
  <1>3. CASE /\ pc' \in {"idle", "failed"} /\ work' = NoWork
             /\ UNCHANGED <<store, mem, fresh, stop, faults>>
    BY <1>1, <1>3, LeaveLoop DEF Typed
  <1>4. CASE /\ ~Terminal(mem)
             /\ status \in workflowTransitions(mem.snap.status)
             /\ Save(transitionWorkflow(mem.snap, status), "idle", NoWork)
    <2>1. PICK s : s = transitionWorkflow(mem.snap, status)
      OBVIOUS
    <2>2. s = [mem.snap EXCEPT !.status = status]
      BY <1>4, <2>1 DEF transitionWorkflow
    <2>3. s.err = FALSE
      BY <1>1, <2>2 DEF Snap, Snapshot, Typed
    <2>4. Follows(mem.snap, s)
      BY <1>1, <2>1, WorkflowMoves DEF WorkflowStatus, Moves
    <2>5. mem.snap.status \notin WorkflowTerminal /\ Save(s, "idle", NoWork)
      BY <1>4, <2>1 DEF Terminal
    <2>6. EngineInv' /\ Final /\ work' = NoWork
      BY <1>1, <2>3, <2>4, <2>5, NoWorkType, SaveStep DEF Executing, PC
    <2> QED BY <1>1, <2>6, NoLaunch
  <1> QED BY <1>2, <1>3, <1>4

\* finalizeCancellation and its retries.
LEMMA FinalizeStep == ASSUME EngineInv, Finalize PROVE EngineInv' /\ Final /\ Launch
  <1>1. /\ Typed /\ Kept(store) /\ pc \in Canceling /\ pc \notin Executing /\ ~InLoop
        /\ mem.snap \in Snap
    BY DEF EngineInv, Finalize, Canceling, Executing, InLoop, Typed, Loaded, Snap
  <1>2. work = NoWork /\ NoWork \in Work
    BY <1>1, NoWorkElsewhere
  <1>3. PICK s : s = CancelRunSnapshot(mem.snap)
    OBVIOUS
  <1>4. Moves(mem.snap, s) /\ Follows(mem.snap, s) /\ s \in Snap
    BY <1>1, <1>3, CancelMoves DEF Moves, Follows
  <1>5. \/ pc' \in {"idle", "failed"} /\ UNCHANGED <<store, mem, fresh, stop, work, faults>>
        \/ /\ ~Terminal(mem) /\ ~s.err /\ Commit(s) /\ pc' = "idle"
           /\ UNCHANGED <<stop, work, faults>>
        \/ /\ ~fresh /\ pc' = "down" /\ UNCHANGED <<store, mem, fresh, stop, work, faults>>
        \/ /\ pc' \in {"finalizeAgain", "settleAgain", "settle"}
           /\ mem' = persisted /\ fresh' = TRUE
           /\ UNCHANGED <<store, stop, work, faults>>
        \/ ~Terminal(mem) /\ ~s.err /\ StorageError(s) /\ pc' = "down"
    BY <1>3 DEF Finalize
  <1>6. s.err = FALSE \/ s.err = TRUE
    BY <1>4 DEF Snap, Snapshot
  <1>7. CASE /\ pc' \in {"idle", "failed", "down"}
             /\ UNCHANGED <<store, mem, fresh, stop, work, faults>>
    <2>1. Typed'
      BY <1>1, <1>2, <1>7 DEF Typed, PC
    <2> QED BY <1>1, <1>7, <2>1, UnsavedStep, NoLaunch DEF Executing, Canceling
  <1>8. CASE /\ ~Terminal(mem) /\ ~s.err /\ Commit(s) /\ pc' = "idle"
             /\ UNCHANGED <<stop, work, faults>>
    <2>1. mem.snap.status \notin WorkflowTerminal
      BY <1>8 DEF Terminal
    <2>2. /\ mem' \in Loaded /\ mem'.snap = s
          /\ Kept(store)' /\ fresh' = TRUE /\ Final
      BY <1>1, <1>4, <1>6, <1>8, <2>1, CommitStep
    <2>3. Typed'
      BY <1>1, <1>2, <1>6, <1>8, <2>2 DEF Typed, PC
    <2> QED BY <1>1, <1>8, <2>2, <2>3, OutOfLoop, NoLaunch DEF Executing, Canceling
  <1>9. CASE /\ pc' \in {"finalizeAgain", "settleAgain", "settle"}
             /\ mem' = persisted /\ fresh' = TRUE
             /\ UNCHANGED <<store, stop, work, faults>>
    <2>1. /\ persisted \in Loaded /\ persisted.snap.err = FALSE
          /\ store = insertSnapshot(persisted)
      BY <1>1 DEF Kept, persisted
    <2>2. Kept(store)' /\ Final
      BY <1>1, <1>9, QuietStep DEF Kept, loadSnapshot
    <2>3. Typed'
      BY <1>1, <1>2, <1>9, <2>1 DEF Typed, PC
    <2>4. store' = insertSnapshot(mem')
      BY <1>9, <2>1
    <2> QED BY <1>1, <1>9, <2>2, <2>3, <2>4, OutOfLoop, NoLaunch DEF Executing
  <1>10. CASE ~Terminal(mem) /\ ~s.err /\ StorageError(s) /\ pc' = "down"
    <2>1. mem.snap.status \notin WorkflowTerminal
      BY <1>10 DEF Terminal
    <2>2. EngineInv' /\ Final /\ work' = NoWork
      BY <1>1, <1>4, <1>6, <1>10, <2>1, ErrorStep
    <2> QED BY <1>1, <2>2, NoLaunch
  <1> QED BY <1>5, <1>7, <1>8, <1>9, <1>10

\* Engine.Cancel of a Run nobody executes.
LEMMA CancelIdleStep == ASSUME EngineInv, CancelIdle PROVE EngineInv' /\ Final /\ Launch
  <1>1. /\ Typed /\ Kept(store) /\ pc = "idle" /\ ~Ended
        /\ UNCHANGED <<mem, fresh, pc, stop, work, faults>>
    BY DEF EngineInv, CancelIdle
  <1>2. PICK x : x = persisted
    OBVIOUS
  <1>3. x \in Loaded /\ store = insertSnapshot(x) /\ x.snap \in Snap
    BY <1>1, <1>2 DEF Kept, persisted, Loaded, Snap
  <1>4. PICK s : s = CancelRunSnapshot(x.snap)
    OBVIOUS
  <1>5. Moves(x.snap, s) /\ Follows(x.snap, s) /\ s \in Snap
    BY <1>3, <1>4, CancelMoves DEF Moves, Follows
  <1>6. PICK y : y = [x EXCEPT !.snap = s]
    OBVIOUS
  <1>7. y \in Loaded /\ y.snap = s /\ y.cancel = x.cancel
    BY <1>3, <1>5, <1>6 DEF Loaded, Snap
  <1>8. y = canceledRun
    BY <1>2, <1>4, <1>6 DEF canceledRun
  <1>9. y.snap.err = FALSE
    BY <1>5, <1>7, <1>8 DEF CancelIdle, Snap, Snapshot
  <1>10. store' = applyChangeSet(store, changeSetFromSnapshots(x, y))
    BY <1>2, <1>8 DEF CancelIdle
  <1>11. store' = insertSnapshot(y)
    BY <1>3, <1>5, <1>7, <1>10, ChangeApplied
  <1>12. Kept(store')
    BY <1>7, <1>9, <1>11, InsertedKept
  <1>13. Kept(store)'
    BY <1>12 DEF Kept, loadSnapshot
  <1>14. x.snap.status \notin WorkflowTerminal
    BY <1>1, <1>2 DEF Ended, persisted, loadSnapshot
  <1>15. Final
    BY <1>3, <1>5, <1>7, <1>11, <1>14, WriteFinal
  <1>16. Typed'
    BY <1>1 DEF Typed, InLoop
  <1> QED BY <1>1, <1>13, <1>15, <1>16, OutOfLoop, NoLaunch DEF Executing, Canceling

\* RequestCancel changes one field of one row, and the copy is no longer the latest.
LEMMA RequestCancelStep ==
    ASSUME EngineInv, RequestCancel PROVE EngineInv' /\ Final /\ Launch
  <1>1. /\ Typed /\ Kept(store) /\ ~Ended /\ ~store.run.cancel
        /\ fresh' = FALSE /\ store' = [store EXCEPT !.run.cancel = TRUE]
        /\ UNCHANGED <<mem, pc, stop, work, faults>>
    BY DEF EngineInv, RequestCancel
  <1>2. PICK x : x = loadSnapshot(store)
    OBVIOUS
  <1>3. x \in Loaded /\ x.snap.err = FALSE /\ store = insertSnapshot(x)
    BY <1>1, <1>2 DEF Kept
  <1>4. PICK y : y = [x EXCEPT !.cancel = TRUE]
    OBVIOUS
  <1>5. y \in Loaded /\ y.snap = x.snap /\ y.cancel = TRUE
    BY <1>3, <1>4 DEF Loaded
  <1>6. store' = insertSnapshot(y)
    BY <1>1, <1>3, <1>5 DEF insertSnapshot, RunRow
  <1>7. Kept(store')
    BY <1>3, <1>5, <1>6, InsertedKept
  <1>8. Kept(store)'
    BY <1>7 DEF Kept, loadSnapshot
  <1>9. Typed'
    BY <1>1 DEF Typed, InLoop
  <1>10. Final
    <2>1. store'.tasks = store.tasks /\ store'.attempts = store.attempts
      BY <1>3, <1>5, <1>6 DEF insertSnapshot
    <2> QED BY <1>1, <2>1 DEF Final
  <1>11. EngineInv'
    BY <1>1, <1>8, <1>9 DEF EngineInv, Executing, InLoop, Closed
  <1> QED BY <1>1, <1>10, <1>11, NoLaunch

\* Signals, crashes and restarts leave the stored Run and the snapshot alone.
LEMMA AroundStep ==
    ASSUME EngineInv, CancelActive \/ Shutdown \/ Crash \/ Restart
    PROVE  EngineInv' /\ Final /\ Launch
  <1>1. Typed /\ UNCHANGED <<store, mem, fresh>>
    BY DEF EngineInv, CancelActive, Shutdown, Crash, Restart
  <1>2. CASE CancelActive \/ Shutdown
    <2>1. pc' = pc /\ work' = work /\ stop' \in {"none", "business", "shutdown"}
      BY <1>2 DEF CancelActive, Shutdown
    <2>2. faults' \in 0..MaxFaults
      BY <1>1, <1>2, EngineAssumption DEF CancelActive, Shutdown, Typed
    <2>3. Typed'
      BY <1>1, <2>1, <2>2 DEF Typed, InLoop
    <2> QED BY <1>1, <2>1, <2>3, UnsavedStep, NoLaunch DEF InLoop
  <1>3. CASE Crash \/ Restart
    <2>1. pc' \in {"down", "idle"} /\ stop' \in {"none", "business", "shutdown"}
      BY <1>1, <1>3 DEF Crash, Restart, Typed
    <2>2. faults' \in 0..MaxFaults
      BY <1>1, <1>3, EngineAssumption DEF Crash, Restart, Typed
    <2>3. work' = NoWork
      BY <1>1, <1>3, NoWorkElsewhere DEF Crash, Restart, InLoop
    <2>4. Typed'
      BY <1>1, <2>1, <2>2, <2>3, NoWorkType DEF Typed, PC
    <2> QED BY <1>1, <2>1, <2>3, <2>4, UnsavedStep, NoLaunch DEF Executing, Canceling
  <1> QED BY <1>2, <1>3

\* Every step.
LEMMA NextStep == ASSUME EngineInv, Next PROVE EngineInv' /\ Final /\ Launch
  <1>1. CASE Begin
    BY <1>1, BeginStep
  <1>2. CASE LoadRun
    BY <1>2, LoadStep
  <1>3. CASE Prepare
    BY <1>3, PrepareStep
  <1>4. CASE Enter
    BY <1>4, EnterStep
  <1>5. CASE StartTask
    BY <1>5, StartTaskStep
  <1>6. CASE AllStarted
    BY <1>6, AllStartedStep
  <1>7. CASE StopNoticed
    BY <1>7, StopNoticedStep
  <1>8. CASE \E key \in work.timers : TimedOut(key)
    BY <1>8, TimedOutStep
  <1>9. CASE \E timer \in work.retries : RetryFired(timer)
    BY <1>9, RetryFiredStep
  <1>10. CASE Leave
    BY <1>10, LeaveStep
  <1>11. CASE Finalize
    BY <1>11, FinalizeStep
  <1>12. CASE \E key \in work.executors, kind \in ExecutionKind : Completion(key, kind)
    BY <1>12, CompletionStep
  <1>13. CASE CancelIdle
    BY <1>13, CancelIdleStep
  <1>14. CASE RequestCancel
    BY <1>14, RequestCancelStep
  <1>15. CASE CancelActive \/ Shutdown \/ Crash \/ Restart
    BY <1>15, AroundStep
  <1> QED BY <1>1, <1>2, <1>3, <1>4, <1>5, <1>6, <1>7, <1>8, <1>9, <1>10, <1>11, <1>12,
             <1>13, <1>14, <1>15 DEF Next, Step

\* Nothing changes in a stuttering step.
LEMMA StutterStep == ASSUME EngineInv, UNCHANGED vars PROVE EngineInv' /\ Final /\ Launch
  <1>1. Typed /\ UNCHANGED <<store, mem, fresh, pc, stop, work, faults>>
    BY DEF EngineInv, vars
  <1>2. Typed'
    BY <1>1 DEF Typed, InLoop
  <1> QED BY <1>1, <1>2, UnsavedStep, NoLaunch DEF InLoop

-----------------------------------------------------------------------------
(* The theorems.                                                             *)

(* The invariant from which the others follow.                               *)
THEOREM EngineSafety == Spec => []EngineInv
  <1>1. Init => EngineInv
    BY InitHolds
  <1>2. EngineInv /\ [Next]_vars => EngineInv'
    BY NextStep, StutterStep
  <1> QED BY <1>1, <1>2, PTL DEF Spec

(* Whatever crashes, conflicts and storage errors came before, a goroutine   *)
(* that holds the latest revision holds the stored Run: the change sets it   *)
(* saved one by one lost no row (changeSetFromSnapshots, applyChangeSetTx).  *)
THEOREM EngineRows == Spec => []RowsMatchMemory
  <1>1. EngineInv => RowsMatchMemory
    <2> SUFFICES ASSUME EngineInv, fresh, pc \in Executing \cup Canceling
                 PROVE  persisted = mem
      BY DEF RowsMatchMemory, Executing, Canceling
    <2>1. store = insertSnapshot(mem) /\ mem \in Loaded /\ mem.snap.err = FALSE
      BY DEF EngineInv, Typed
    <2> QED BY <2>1, LoadInserted DEF persisted
  <1> QED BY <1>1, EngineSafety, PTL

(* A stored verdict, a task or attempt that has ended and a recorded         *)
(* cancellation are never overwritten, also not by a goroutine that works on *)
(* an old copy of the Run.                                                   *)
THEOREM EngineStoreFinal == Spec => StoreFinal
  <1>1. EngineInv /\ [Next]_vars => [Final]_vars
    BY NextStep
  <1> QED BY <1>1, EngineSafety, PTL DEF Spec, StoreFinal, Final

(* An executor is started only by the step that made its attempt durable, so *)
(* no attempt is executed twice, whatever is lost in a crash.                *)
THEOREM EngineLaunchOnce == Spec => LaunchOnce
  <1>1. EngineInv /\ [Next]_vars => [Launch]_vars
    BY NextStep
  <1> QED BY <1>1, EngineSafety, PTL DEF Spec, LaunchOnce, Launch

-----------------------------------------------------------------------------
(* What the event loop knows.                                                *)

(* A running task has a running attempt and a waiting one had one; a Run     *)
(* that has not started runs nothing.                                        *)
Sane(s) ==
    /\ \A t \in Task :
         /\ s.task[t] = "running" =>
               s.attempts[t] # <<>> /\ s.attempts[t][Len(s.attempts[t])].status = "running"
         /\ s.task[t] = "waiting_retry" => s.attempts[t] # <<>>
    /\ s.status = "pending" => \A t \in Task : s.task[t] # "running"

\* The work w is that of the snapshot s.
Tracks(s, w) ==
    /\ w.active = {<<t, Len(s.attempts[t])>> : t \in {u \in Task : s.task[u] = "running"}}
    /\ w.active \subseteq w.executors \cap w.timers
    /\ \A t \in Task : s.task[t] = "waiting_retry" =>
          <<<<t, Len(s.attempts[t])>>, s.readyAt[t]>> \in w.retries
    /\ Cardinality(w.active) <= Concurrency

(* The copy is old only because a cancellation was recorded or because a     *)
(* write was not answered, and then the goroutine is on its way out.         *)
Stale ==
    /\ ~fresh /\ ~store.run.cancel => faults > 0
    /\ ~fresh /\ pc \in Executing \cup {"finalizeAgain", "settleAgain"} => store.run.cancel
    /\ pc = "settleAgain" /\ (~fresh \/ ~store.run.cancel) => faults > 0

LoopKnows ==
    /\ Sane(mem.snap)
    /\ Sane(persisted.snap)
    /\ pc = "execute" => store.run.status = "pending"
    /\ pc = "enter" => \A t \in Task : mem.snap.task[t] # "running"
    /\ InLoop => Tracks(mem.snap, work)
    /\ Stale

-----------------------------------------------------------------------------
(* Operations that start no attempt.                                         *)

\* The operation was not refused.
Accepted(s) == s.err = FALSE

(* If u is not refused, s was not, nothing starts to run or, outside X, to   *)
(* wait, and what runs or waits outside X goes on as it was.                 *)
Calm(s, u, X) ==
    Accepted(u) =>
        /\ Accepted(s)
        /\ \A t \in Task : u.task[t] = "running" => s.task[t] = "running"
        /\ \A t \in Task \ X :
             /\ s.task[t] = "running" => u.task[t] = "running"
             /\ u.task[t] = "waiting_retry" =>
                   s.task[t] = "waiting_retry" /\ u.readyAt[t] = s.readyAt[t]
             /\ u.attempts[t] = s.attempts[t]

\* Such operations can be chained.
LEMMA CalmChain ==
    ASSUME NEW s, NEW u, NEW v, NEW X, Calm(s, u, X), Calm(u, v, X) PROVE Calm(s, v, X)
  BY DEF Calm, Accepted

\* A larger set says less.
LEMMA CalmMore ==
    ASSUME NEW s, NEW u, NEW X, NEW Y, X \subseteq Y, Calm(s, u, X) PROVE Calm(s, u, Y)
  BY DEF Calm, Accepted

\* A refused snapshot is not saved.
LEMMA CalmReject == ASSUME NEW s \in Snap, NEW X PROVE Calm(s, Reject(s), X) /\ ~Accepted(Reject(s))
  BY DEF Calm, Accepted, Reject, Snap, Snapshot

\* Staying.
LEMMA CalmSelf == ASSUME NEW s, NEW X PROVE Calm(s, s, X)
  BY DEF Calm, Accepted

\* The statuses a task gets other than by being scheduled, and those of a waiting task.
NotStarted == TaskStatus \ {"running", "queued"}
OfWaiting == {"ready", "skipped"}

\* transitionTask, of tasks of X or to a status that no running task may get.
LEMMA CalmTasks ==
    ASSUME NEW s \in Snap, NEW T \in SUBSET Task, NEW X, NEW to \in NotStarted,
           to \in OfWaiting \/ \A x \in T : x \in X
    PROVE  /\ Calm(s, transitionTasks(s, T, to), X)
           /\ transitionTasks(s, T, to).attempts = s.attempts
           /\ transitionTasks(s, T, to).status = s.status
  <1>1. CASE ~\A t \in T : to \in taskTransitions(s.task[t])
    <2>1. transitionTasks(s, T, to) = Reject(s)
      BY <1>1 DEF transitionTasks
    <2>2. Reject(s).attempts = s.attempts /\ Reject(s).status = s.status
      BY DEF Reject, Snap, Snapshot
    <2> QED BY <2>1, <2>2, CalmReject
  <1>2. CASE \A t \in T : to \in taskTransitions(s.task[t])
    <2> DEFINE tt == [t \in Task |-> IF t \in T THEN to ELSE s.task[t]]
               rr == [t \in Task |-> IF t \in T THEN 0 ELSE s.readyAt[t]]
               u == [s EXCEPT !.task = tt, !.readyAt = rr]
    <2>1. transitionTasks(s, T, to) = u
      BY <1>2 DEF transitionTasks
    <2>2. /\ u.err = s.err /\ u.attempts = s.attempts /\ u.task = tt /\ u.readyAt = rr
          /\ u.status = s.status
      BY DEF Snap, Snapshot
    <2>3. \A t \in T : to \in OfWaiting => s.task[t] # "running"
      BY <1>2 DEF taskTransitions, OfWaiting
    <2>4. to # "running" /\ (to \in OfWaiting => to # "waiting_retry")
      BY DEF NotStarted, OfWaiting
    <2> HIDE DEF u
    <2>5. \A t \in Task : u.task[t] = IF t \in T THEN to ELSE s.task[t]
      BY <2>2
    <2>6. \A t \in Task : u.readyAt[t] = IF t \in T THEN 0 ELSE s.readyAt[t]
      BY <2>2
    <2>7. Calm(s, u, X)
      BY <2>2, <2>3, <2>4, <2>5, <2>6 DEF Calm, Accepted
    <2> QED BY <2>1, <2>2, <2>7
  <1> QED BY <1>1, <1>2

\* Unless it is refused it moves exactly the tasks of T.
LEMMA TasksGet ==
    ASSUME NEW s \in Snap, NEW T \in SUBSET Task, NEW to,
           Accepted(transitionTasks(s, T, to))
    PROVE  \A t \in Task : transitionTasks(s, T, to).task[t] = IF t \in T THEN to ELSE s.task[t]
  <1>1. \A t \in T : to \in taskTransitions(s.task[t])
    BY CalmReject DEF transitionTasks, Accepted
  <1> DEFINE tt == [t \in Task |-> IF t \in T THEN to ELSE s.task[t]]
             rr == [t \in Task |-> IF t \in T THEN 0 ELSE s.readyAt[t]]
             u == [s EXCEPT !.task = tt, !.readyAt = rr]
  <1>2. transitionTasks(s, T, to) = u
    BY <1>1 DEF transitionTasks
  <1>3. u.task = tt
    BY DEF Snap, Snapshot
  <1> HIDE DEF u
  <1> QED BY <1>2, <1>3

\* transitionAttempt of tasks of X.
LEMMA CalmAttempts ==
    ASSUME NEW s \in Snap, NEW T \in SUBSET Task,
           NEW outcome \in [T -> AttemptStatus \ {"running"}]
    PROVE  LET u == transitionAttempts(s, T, outcome)
           IN  /\ Calm(s, u, T) /\ u.task = s.task
               /\ Accepted(u) => \A t \in T : s.attempts[t] # <<>>
               /\ \A t \in Task : s.attempts[t] # <<>> => u.attempts[t] # <<>>
  <1> DEFINE u == transitionAttempts(s, T, outcome)
  <1>1. CASE \E t \in T : ~ /\ s.attempts[t] # <<>>
                            /\ outcome[t] \in attemptTransitions(
                                 s.attempts[t][Len(s.attempts[t])].status)
    <2>1. transitionAttempts(s, T, outcome) = Reject(s)
      BY <1>1 DEF transitionAttempts
    <2>2. Reject(s).task = s.task /\ Reject(s).attempts = s.attempts
      BY DEF Reject, Snap, Snapshot
    <2> QED BY <2>1, <2>2, CalmReject
  <1>2. CASE \A t \in T : /\ s.attempts[t] # <<>>
                          /\ outcome[t] \in attemptTransitions(
                               s.attempts[t][Len(s.attempts[t])].status)
    <2> DEFINE aa == [t \in Task |->
                        IF t \in T
                        THEN [s.attempts[t] EXCEPT ![Len(s.attempts[t])].status = outcome[t]]
                        ELSE s.attempts[t]]
    <2>1. u = [s EXCEPT !.attempts = aa]
      BY <1>2 DEF transitionAttempts
    <2>2. \A t \in Task \ T : aa[t] = s.attempts[t]
      OBVIOUS
    <2> HIDE DEF aa
    <2>3. /\ u.err = s.err /\ u.task = s.task /\ u.readyAt = s.readyAt /\ u.attempts = aa
      BY <2>1 DEF Snap, Snapshot
    <2>4. Moves(s, u)
      BY AttemptsSteady DEF Steady
    <2> HIDE DEF u
    <2>5. Calm(s, u, T)
      BY <2>2, <2>3 DEF Calm, Accepted
    <2>6. ASSUME NEW t \in Task, s.attempts[t] # <<>> PROVE u.attempts[t] # <<>>
      <3>1. PICK a \in Seq(AttemptOf({Local})) : a = s.attempts[t]
        BY DEF Snap, Snapshot
      <3>2. Len(a) # 0
        BY <2>6, <3>1
      <3>3. Len(u.attempts[t]) = Len(a)
        BY <2>4, <3>1 DEF Moves
      <3> QED BY <3>2, <3>3
    <2> QED BY <1>2, <2>3, <2>5, <2>6 DEF u
  <1> QED BY <1>1, <1>2

\* Counters, and retry times of tasks of X, are written.
LEMMA CalmFields ==
    ASSUME NEW s \in Snap, NEW f \in [Task -> Int], NEW X
    PROVE  /\ LET u == [s EXCEPT !.remaining = f]
              IN  Calm(s, u, X) /\ u.task = s.task /\ u.attempts = s.attempts
           /\ LET u == [s EXCEPT !.readyAt = f]
              IN  /\ u.task = s.task /\ u.attempts = s.attempts
                  /\ (\A t \in Task \ X : f[t] = s.readyAt[t]) => Calm(s, u, X)
  <1> DEFINE u == [s EXCEPT !.remaining = f]
             v == [s EXCEPT !.readyAt = f]
  <1>1. /\ u.task = s.task /\ u.attempts = s.attempts /\ u.readyAt = s.readyAt /\ u.err = s.err
        /\ v.task = s.task /\ v.attempts = s.attempts /\ v.readyAt = f /\ v.err = s.err
    BY DEF Snap, Snapshot
  <1> HIDE DEF u, v
  <1>2. Calm(s, u, X) /\ ((\A t \in Task \ X : f[t] = s.readyAt[t]) => Calm(s, v, X))
    BY <1>1 DEF Calm, Accepted
  <1> QED BY <1>1, <1>2 DEF u, v

\* transitionWorkflow and settleWorkflowIfComplete do not touch the tasks.
LEMMA CalmWorkflow ==
    ASSUME NEW s \in Snap, NEW to \in WorkflowStatus, NEW X
    PROVE  /\ Calm(s, transitionWorkflow(s, to), X)
           /\ transitionWorkflow(s, to).task = s.task
           /\ transitionWorkflow(s, to).attempts = s.attempts
  <1>1. CASE to \notin workflowTransitions(s.status)
    <2>1. transitionWorkflow(s, to) = Reject(s)
      BY <1>1 DEF transitionWorkflow
    <2>2. Reject(s).task = s.task /\ Reject(s).attempts = s.attempts
      BY DEF Reject, Snap, Snapshot
    <2> QED BY <2>1, <2>2, CalmReject
  <1>2. CASE to \in workflowTransitions(s.status)
    <2> DEFINE u == [s EXCEPT !.status = to]
    <2>1. /\ u.task = s.task /\ u.attempts = s.attempts /\ u.readyAt = s.readyAt
          /\ u.err = s.err
      BY DEF Snap, Snapshot
    <2>2. transitionWorkflow(s, to) = u
      BY <1>2 DEF transitionWorkflow
    <2> HIDE DEF u
    <2> QED BY <2>1, <2>2 DEF Calm, Accepted
  <1> QED BY <1>1, <1>2

\* The end of a result.
LEMMA CalmSettle ==
    ASSUME NEW s \in Snap, NEW X
    PROVE  LET u == settleWorkflowIfComplete(s)
           IN  Calm(s, u, X) /\ u.task = s.task /\ u.attempts = s.attempts
  <1>1. \/ settleWorkflowIfComplete(s) = s
        \/ settleWorkflowIfComplete(s) = transitionWorkflow(s, "failed")
        \/ settleWorkflowIfComplete(s) = transitionWorkflow(s, "succeeded")
        \/ settleWorkflowIfComplete(s) = Reject(s)
    BY DEF settleWorkflowIfComplete
  <1>2. Reject(s).task = s.task /\ Reject(s).attempts = s.attempts
    BY DEF Reject, Snap, Snapshot
  <1>3. "failed" \in WorkflowStatus /\ "succeeded" \in WorkflowStatus
    BY DEF WorkflowStatus
  <1> QED BY <1>1, <1>2, <1>3, CalmSelf, CalmReject, CalmWorkflow

\* skipDescendantsFrom skips no running and no waiting task.
LEMMA CalmSkip ==
    ASSUME NEW s \in Snap, NEW F, NEW X
    PROVE  LET u == skipDescendantsFrom(s, F) IN Calm(s, u, X) /\ u.attempts = s.attempts
  <1> DEFINE T == {u \in Task : /\ \E f \in F : u \in Descendants[f]
                               /\ s.task[u] \notin TaskTerminal}
  <1>1. T \in SUBSET Task /\ "skipped" \in NotStarted /\ "skipped" \in OfWaiting
    BY DEF TaskStatus, NotStarted, OfWaiting
  <1>2. skipDescendantsFrom(s, F) = transitionTasks(s, T, "skipped")
    BY DEF skipDescendantsFrom
  <1> HIDE DEF T
  <1> QED BY <1>1, <1>2, CalmTasks

-----------------------------------------------------------------------------
(* Results.                                                                  *)

\* The tasks T, which had an attempt, do not run any more.
EndsBy(s, u, T) ==
    /\ Calm(s, u, T)
    /\ Accepted(u) => \A t \in T : u.task[t] # "running" /\ u.attempts[t] # <<>>

\* Retries and failures.
LEMMA DecidedCalm ==
    ASSUME NEW v \in Snap, NEW T \in SUBSET Task, NEW again \in SUBSET T, NEW at \in [Task -> Int]
    PROVE  LET u == Decided(v, T, again, at)
           IN  /\ Calm(v, u, T) /\ u.attempts = v.attempts
               /\ Accepted(u) => \A t \in T : u.task[t] # "running"
  <1> DEFINE waiting == transitionTasks(v, again, "waiting_retry")
             f == [t \in Task |-> IF t \in again THEN at[t] ELSE waiting.readyAt[t]]
             timed == [waiting EXCEPT !.readyAt = f]
             u == transitionTasks(timed, T \ again, "failed")
  <1>1. /\ again \in SUBSET Task /\ T \ again \in SUBSET Task
        /\ "waiting_retry" \in NotStarted /\ "waiting_retry" \in TaskStatus
        /\ "failed" \in NotStarted
    BY DEF TaskStatus, NotStarted
  <1>2. /\ Calm(v, waiting, T) /\ waiting.attempts = v.attempts
    BY <1>1, CalmTasks
  <1>3. waiting \in Snap
    BY <1>1, TasksSteady, SteadyType
  <1>3a. Accepted(waiting) =>
            \A t \in Task : waiting.task[t] = IF t \in again THEN "waiting_retry" ELSE v.task[t]
    BY <1>1, TasksGet
  <1> HIDE DEF waiting
  <1>4. f \in [Task -> Int] /\ \A t \in Task \ T : f[t] = waiting.readyAt[t]
    BY <1>3 DEF Snap, Snapshot
  <1> HIDE DEF f
  <1>5. Calm(waiting, timed, T) /\ timed.task = waiting.task /\ timed.attempts = waiting.attempts
    BY <1>3, <1>4, CalmFields
  <1>6. timed \in Snap
    BY <1>3, <1>4, FieldsSteady, SteadyType
  <1> HIDE DEF timed
  <1>7. /\ Calm(timed, u, T) /\ u.attempts = timed.attempts
    BY <1>1, <1>6, CalmTasks
  <1>7a. Accepted(u) =>
            \A t \in Task : u.task[t] = IF t \in T \ again THEN "failed" ELSE timed.task[t]
    BY <1>1, <1>6, TasksGet
  <1>8. u = Decided(v, T, again, at)
    BY DEF timed, f, waiting, Decided
  <1> HIDE DEF u
  <1>9. Calm(v, u, T) /\ u.attempts = v.attempts
    BY <1>2, <1>5, <1>7, CalmChain
  <1>10. ASSUME Accepted(u), NEW t \in T PROVE u.task[t] # "running"
    <2>1. Accepted(timed) /\ Accepted(waiting)
      BY <1>5, <1>7, <1>10 DEF Calm, Accepted
    <2>2. u.task[t] = IF t \in T \ again THEN "failed" ELSE timed.task[t]
      BY <1>7a, <1>10
    <2>3. t \in again => timed.task[t] = "waiting_retry"
      BY <1>3a, <1>5, <2>1
    <2> QED BY <2>2, <2>3
  <1> QED BY <1>8, <1>9, <1>10

\* Skipping and settling after it.
LEMMA EndsThenSettles ==
    ASSUME NEW s, NEW v \in Snap, NEW T \in SUBSET Task, EndsBy(s, v, T), NEW F
    PROVE  EndsBy(s, settleWorkflowIfComplete(skipDescendantsFrom(v, F)), T)
  <1> DEFINE w == skipDescendantsFrom(v, F)
             u == settleWorkflowIfComplete(w)
  <1>1. w \in Snap /\ Calm(v, w, T) /\ w.attempts = v.attempts
    BY SkipSteady, SteadyType, CalmSkip
  <1> HIDE DEF w
  <1>2. Calm(w, u, T) /\ u.task = w.task /\ u.attempts = w.attempts
    BY <1>1, CalmSettle
  <1> HIDE DEF u
  <1>3. Calm(v, u, T) /\ u.attempts = v.attempts
    BY <1>1, <1>2, CalmChain
  <1>4. Calm(s, u, T)
    BY <1>3, CalmChain DEF EndsBy
  <1>5. ASSUME Accepted(u), NEW t \in T PROVE u.task[t] # "running" /\ u.attempts[t] # <<>>
    BY <1>3, <1>5 DEF EndsBy, Calm, Accepted
  <1>6. EndsBy(s, u, T)
    BY <1>4, <1>5 DEF EndsBy
  <1> QED BY <1>6 DEF u, w

\* EndAttempts.
LEMMA EndAttemptsEnds ==
    ASSUME NEW s \in Snap, NEW T \in SUBSET Task,
           NEW outcome \in [T -> AttemptStatus \ {"running"}], NEW at \in Int
    PROVE  EndsBy(s, EndAttempts(s, T, outcome, at), T)
  <1> DEFINE v == transitionAttempts(s, T, outcome)
             again == RetriesLeft(v, T)
             due == [t \in Task |-> at + RetryInterval[t]]
             failed == Decided(v, T, again, due)
  <1>1. v \in Snap
    BY AttemptsSteady, SteadyType
  <1>2. /\ Calm(s, v, T)
        /\ Accepted(v) => \A t \in T : v.attempts[t] # <<>>
    BY CalmAttempts
  <1>3. again \in SUBSET T /\ due \in [Task -> Int]
    BY DefinitionAssumption DEF RetriesLeft
  <1>4. EndAttempts(s, T, outcome, at) = settleWorkflowIfComplete(skipDescendantsFrom(failed, T \ again))
    BY DEF EndAttempts, applyRetryDecision, Decided
  <1> HIDE DEF v, again, due
  <1>5. /\ Calm(v, failed, T) /\ failed.attempts = v.attempts
        /\ Accepted(failed) => \A t \in T : failed.task[t] # "running"
    BY <1>1, <1>3, DecidedCalm
  <1>6. failed \in Snap
    BY <1>1, <1>3, SteadySelf, DecideSteady, SteadyType
  <1> HIDE DEF failed
  <1>7. Calm(s, failed, T)
    BY <1>2, <1>5, CalmChain
  <1>8. Accepted(failed) => Accepted(v)
    BY <1>5 DEF Calm, Accepted
  <1>9. EndsBy(s, failed, T)
    BY <1>2, <1>5, <1>7, <1>8 DEF EndsBy
  <1> QED BY <1>4, <1>6, <1>9, EndsThenSettles

\* failPermanently.
LEMMA FailPermanentlyEnds ==
    ASSUME NEW s \in Snap, NEW t \in Task PROVE EndsBy(s, failPermanently(s, t), {t})
  <1> DEFINE outcome == [x \in {t} |-> "failed"]
             v == transitionAttempts(s, {t}, outcome)
             failed == transitionTasks(v, {t}, "failed")
  <1>1. /\ outcome \in [{t} -> AttemptStatus \ {"running"}] /\ {t} \in SUBSET Task
        /\ "failed" \in NotStarted /\ "failed" \in TaskStatus
    BY DEF AttemptStatus, TaskStatus, NotStarted
  <1>2. failPermanently(s, t) = settleWorkflowIfComplete(skipDescendantsFrom(failed, {t}))
    BY DEF failPermanently
  <1> HIDE DEF outcome
  <1>3. v \in Snap
    BY <1>1, AttemptsSteady, SteadyType
  <1>4. /\ Calm(s, v, {t})
        /\ Accepted(v) => v.attempts[t] # <<>>
    BY <1>1, CalmAttempts
  <1> HIDE DEF v
  <1>5. failed \in Snap
    BY <1>1, <1>3, TasksSteady, SteadyType
  <1>6. /\ Calm(v, failed, {t}) /\ failed.attempts = v.attempts
    BY <1>1, <1>3, CalmTasks
  <1>6a. Accepted(failed) => failed.task[t] = "failed"
    BY <1>1, <1>3, TasksGet
  <1> HIDE DEF failed
  <1>7. Calm(s, failed, {t}) /\ (Accepted(failed) => Accepted(v))
    BY <1>4, <1>6, CalmChain DEF Calm, Accepted
  <1>8. EndsBy(s, failed, {t})
    BY <1>4, <1>6, <1>6a, <1>7 DEF EndsBy
  <1> QED BY <1>1, <1>2, <1>5, <1>8, EndsThenSettles

\* The success branch.
LEMMA SucceedEnds ==
    ASSUME NEW s \in Snap, NEW t \in Task PROVE EndsBy(s, succeed(s, t), {t})
  <1> DEFINE outcome == [x \in {t} |-> "succeeded"]
             ended == transitionAttempts(s, {t}, outcome)
             done == transitionTasks(ended, {t}, "succeeded")
             f == [u \in Task |-> IF u \in Successors(t) THEN s.remaining[u] - 1
                                 ELSE s.remaining[u]]
             counted == [done EXCEPT !.remaining = f]
             R == Released(counted, Successors(t))
             released == transitionTasks(counted, R, "ready")
             u == settleWorkflowIfComplete(released)
  <1>1. /\ outcome \in [{t} -> AttemptStatus \ {"running"}] /\ {t} \in SUBSET Task
        /\ "succeeded" \in NotStarted /\ "succeeded" \in TaskStatus /\ "ready" \in TaskStatus
        /\ "ready" \in NotStarted /\ "ready" \in OfWaiting
        /\ R \in SUBSET Task
    BY DEF AttemptStatus, TaskStatus, NotStarted, OfWaiting, Released, Successors
  <1>2. f \in [Task -> Int]
    BY DEF Snap, Snapshot
  <1>3. succeed(s, t) = Reject(counted) \/ succeed(s, t) = u
    BY DEF succeed
  <1> HIDE DEF outcome, f
  <1>4. /\ ended \in Snap /\ Calm(s, ended, {t})
        /\ Accepted(ended) => ended.attempts[t] # <<>>
    BY <1>1, AttemptsSteady, SteadyType, CalmAttempts
  <1> HIDE DEF ended
  <1>5. done \in Snap /\ Calm(ended, done, {t}) /\ done.attempts = ended.attempts
    BY <1>1, <1>4, TasksSteady, SteadyType, CalmTasks
  <1>5a. Accepted(done) => done.task[t] = "succeeded"
    BY <1>1, <1>4, TasksGet
  <1> HIDE DEF done
  <1>6. counted \in Snap
    BY <1>2, <1>5, FieldsSteady, SteadyType
  <1>7. /\ Calm(done, counted, {t}) /\ counted.attempts = done.attempts
        /\ counted.task = done.task
    BY <1>2, <1>5, CalmFields
  <1> HIDE DEF counted, R
  <1>8. /\ released \in Snap /\ Calm(counted, released, {t})
        /\ released.attempts = counted.attempts
    BY <1>1, <1>6, TasksSteady, SteadyType, CalmTasks
  <1> HIDE DEF released
  <1>9. Calm(released, u, {t}) /\ u.attempts = released.attempts
    BY <1>8, CalmSettle
  <1> HIDE DEF u
  <1>10. Calm(done, released, {t}) /\ Calm(s, done, {t})
    BY <1>4, <1>5, <1>7, <1>8, CalmChain
  <1>11. Calm(done, u, {t}) /\ Calm(s, u, {t})
    BY <1>9, <1>10, CalmChain
  <1>12. ASSUME Accepted(u) PROVE u.task[t] # "running" /\ u.attempts[t] # <<>>
    <2>1. Accepted(done) /\ (u.task[t] = "running" => done.task[t] = "running")
      BY <1>11, <1>12 DEF Calm, Accepted
    <2>2. Accepted(ended)
      BY <1>5, <2>1 DEF Calm, Accepted
    <2> QED BY <1>4, <1>5, <1>5a, <1>7, <1>8, <1>9, <2>1, <2>2
  <1>13. EndsBy(s, u, {t})
    BY <1>11, <1>12 DEF EndsBy
  <1>14. EndsBy(s, Reject(counted), {t})
    <2>1. ~Accepted(Reject(counted))
      BY <1>6, CalmReject
    <2> QED BY <2>1 DEF EndsBy, Calm, Accepted
  <1> QED BY <1>3, <1>13, <1>14

\* Every result of an attempt ends it.
LEMMA ResultEnds ==
    ASSUME NEW s \in Snap, NEW t \in Task, NEW kind \in ResultKind
    PROVE  EndsBy(s, ApplyAttemptResult(s, t, kind, Now), {t})
  <1> DEFINE outcome == [x \in {t} |-> "failed"]
  <1>1. outcome \in [{t} -> AttemptStatus \ {"running"}] /\ {t} \in SUBSET Task /\ Now \in Int
    BY DEF AttemptStatus, Now
  <1> HIDE DEF outcome
  <1>2. CASE kind = "success"
    BY <1>2, SucceedEnds DEF ApplyAttemptResult
  <1>3. CASE kind = "permanent_failure"
    BY <1>3, FailPermanentlyEnds DEF ApplyAttemptResult
  <1>4. CASE kind = "temporary_failure"
    <2>1. ApplyAttemptResult(s, t, kind, Now) = EndAttempts(s, {t}, outcome, Now)
      BY <1>4 DEF ApplyAttemptResult, outcome
    <2> QED BY <1>1, <2>1, EndAttemptsEnds
  <1> QED BY <1>2, <1>3, <1>4 DEF ResultKind

\* A retry that is due.
LEMMA RetryEnds ==
    ASSUME NEW s \in Snap, NEW t \in Task, s.attempts[t] # <<>>
    PROVE  EndsBy(s, MakeRetryReady(s, t), {t})
  <1> DEFINE u == transitionTasks(s, {t}, "ready")
  <1>1. {t} \in SUBSET Task /\ "ready" \in NotStarted /\ "ready" \in OfWaiting
    BY DEF TaskStatus, NotStarted, OfWaiting
  <1>2. Calm(s, u, {t}) /\ u.attempts = s.attempts
    BY <1>1, CalmTasks
  <1>3. Accepted(u) => u.task[t] = "ready"
    BY <1>1, TasksGet
  <1>4. MakeRetryReady(s, t) = u
    BY DEF MakeRetryReady
  <1> HIDE DEF u
  <1>5. EndsBy(s, u, {t})
    BY <1>2, <1>3 DEF EndsBy
  <1> QED BY <1>4, <1>5

\* An accepted result leaves a sane Run.
LEMMA EndsSane ==
    ASSUME NEW s, NEW u, Moves(s, u), NEW T, EndsBy(s, u, T), Accepted(u), Sane(s)
    PROVE  Sane(u)
  <1>1. ASSUME NEW t \in Task
        PROVE  /\ u.task[t] = "running" =>
                    /\ u.attempts[t] # <<>>
                    /\ u.attempts[t][Len(u.attempts[t])].status = "running"
               /\ u.task[t] = "waiting_retry" => u.attempts[t] # <<>>
               /\ u.task[t] = "running" => s.task[t] = "running"
    BY DEF EndsBy, Calm, Sane
  <1>2. u.status = "pending" => s.status = "pending"
    BY DEF Moves, Follows
  <1> QED BY <1>1, <1>2 DEF Sane

\* prepareForResume ends what runs.
LEMMA PrepareEnds ==
    ASSUME NEW s \in Snap, NEW failed, failed = interruptRunning(s),
           NEW counted, counted = rebuildDependencies(failed),
           NEW u, u = prepareForResume(s, counted)
    PROVE  /\ EndsBy(s, u, {t \in Task : s.task[t] = "running"})
           /\ Accepted(u) => \A t \in Task : u.task[t] # "running"
  <1> DEFINE running == {t \in Task : s.task[t] = "running"}
  <1>1. failed \in Snap /\ EndsBy(s, failed, running)
    <2> DEFINE outcome == [t \in running |-> "interrupted"]
               again == RetriesLeft(s, running)
               ended == transitionAttempts(s, running, outcome)
               at == [t \in Task |-> Now]
    <2>1. failed = Decided(ended, running, again, at)
      BY DEF interruptRunning, Decided
    <2>2. /\ running \in SUBSET Task /\ again \in SUBSET running
          /\ outcome \in [running -> AttemptStatus \ {"running"}]
          /\ at \in [Task -> Int]
      BY DEF RetriesLeft, AttemptStatus, Now
    <2> HIDE DEF running, outcome, again, at
    <2>3. /\ ended \in Snap /\ Calm(s, ended, running)
          /\ Accepted(ended) => \A t \in running : ended.attempts[t] # <<>>
      BY <2>2, AttemptsSteady, SteadyType, CalmAttempts
    <2> HIDE DEF ended
    <2>4. /\ Calm(ended, failed, running) /\ failed.attempts = ended.attempts
          /\ Accepted(failed) => \A t \in running : failed.task[t] # "running"
      <3> DEFINE v == Decided(ended, running, again, at)
      <3>1. /\ Calm(ended, v, running) /\ v.attempts = ended.attempts
            /\ Accepted(v) => \A t \in running : v.task[t] # "running"
        BY <2>2, <2>3, DecidedCalm
      <3> HIDE DEF v
      <3>2. failed = v
        BY <2>1 DEF v
      <3> QED BY <3>1, <3>2
    <2>5. failed \in Snap
      BY <2>1, <2>2, <2>3, SteadySelf, DecideSteady, SteadyType
    <2>6. Calm(s, failed, running) /\ (Accepted(failed) => Accepted(ended))
      BY <2>3, <2>4, CalmChain DEF Calm
    <2>7. EndsBy(s, failed, running)
      BY <2>3, <2>4, <2>6 DEF EndsBy
    <2> QED BY <2>5, <2>7
  <1>2. /\ counted \in Snap /\ Calm(failed, counted, running)
        /\ counted.attempts = failed.attempts
    <2> DEFINE skipped == skipDescendantsFrom(failed, blockedSources(failed))
               f == [t \in Task |-> Cardinality(Outstanding(skipped, t))]
    <2>1. counted = [skipped EXCEPT !.remaining = f]
      BY DEF rebuildDependencies
    <2>2. /\ skipped \in Snap /\ Calm(failed, skipped, running)
          /\ skipped.attempts = failed.attempts
      BY <1>1, SkipSteady, SteadyType, CalmSkip
    <2> HIDE DEF skipped
    <2>3. ASSUME NEW t \in Task PROVE Cardinality(Outstanding(skipped, t)) \in Int
      <3>1. Outstanding(skipped, t) \subseteq Task
        BY DefinitionAssumption DEF Outstanding
      <3>2. IsFiniteSet(Task)
        BY DefinitionAssumption, FS_Interval DEF Task
      <3> QED BY <3>1, <3>2, FS_Subset, FS_CardinalityType
    <2>4. f \in [Task -> Int]
      BY <2>3
    <2> HIDE DEF f
    <2>5. counted \in Snap
      BY <2>1, <2>2, <2>4, FieldsSteady, SteadyType
    <2>6. Calm(skipped, counted, running) /\ counted.attempts = skipped.attempts
      <3> DEFINE v == [skipped EXCEPT !.remaining = f]
      <3>1. Calm(skipped, v, running) /\ v.attempts = skipped.attempts
        BY <2>2, <2>4, CalmFields
      <3> HIDE DEF v
      <3>2. counted = v
        BY <2>1 DEF v
      <3> QED BY <3>1, <3>2
    <2> QED BY <2>2, <2>5, <2>6, CalmChain
  <1> DEFINE behind == {t \in Task : /\ counted.task[t] \notin TaskTerminal
                                     /\ \E x \in Deps[t] : counted.task[x] \in Blocked}
             closed == transitionTasks(counted, behind, "skipped")
             released == {t \in Task : /\ closed.task[t] = "waiting_dependencies"
                                       /\ closed.remaining[t] = 0}
  <1>3. u = transitionTasks(closed, released, "ready") \/ u = Reject(closed)
    BY DEF prepareForResume
  <1>4. /\ behind \in SUBSET Task /\ released \in SUBSET Task
        /\ "skipped" \in NotStarted /\ "skipped" \in OfWaiting /\ "skipped" \in TaskStatus
        /\ "ready" \in NotStarted /\ "ready" \in OfWaiting
    BY DEF TaskStatus, NotStarted, OfWaiting
  <1> HIDE DEF behind, released
  <1>5. /\ closed \in Snap /\ Calm(counted, closed, running)
        /\ closed.attempts = counted.attempts
    BY <1>2, <1>4, TasksSteady, SteadyType, CalmTasks
  <1> HIDE DEF closed
  <1>6. /\ Calm(closed, transitionTasks(closed, released, "ready"), running)
        /\ transitionTasks(closed, released, "ready").attempts = closed.attempts
    BY <1>4, <1>5, CalmTasks
  <1>7. CASE u = transitionTasks(closed, released, "ready")
    <2>1. Calm(closed, u, running) /\ u.attempts = failed.attempts
      BY <1>2, <1>5, <1>6, <1>7
    <2>2. Calm(failed, closed, running)
      BY <1>2, <1>5, CalmChain
    <2>3. Calm(failed, u, running)
      BY <2>1, <2>2, CalmChain
    <2>4. Calm(s, u, running)
      BY <1>1, <2>3, CalmChain DEF EndsBy
    <2> HIDE DEF running
    <2>5. ASSUME Accepted(u), NEW t \in running
          PROVE  u.task[t] # "running" /\ u.attempts[t] # <<>>
      <3>1. Accepted(failed) /\ (t \in Task /\ u.task[t] = "running" => failed.task[t] = "running")
        BY <2>3, <2>5 DEF Calm
      <3>2. failed.task[t] # "running" /\ failed.attempts[t] # <<>> /\ t \in Task
        BY <1>1, <2>5, <3>1 DEF EndsBy, running
      <3> QED BY <2>1, <3>1, <3>2
    <2>6. EndsBy(s, u, running)
      BY <2>4, <2>5 DEF EndsBy
    <2>7. ASSUME Accepted(u), NEW t \in Task PROVE u.task[t] # "running"
      <3>1. u.task[t] = "running" => s.task[t] = "running"
        BY <2>4, <2>7 DEF Calm
      <3> QED BY <2>5, <2>7, <3>1 DEF running
    <2> QED BY <2>6, <2>7 DEF running
  <1>8. CASE u = Reject(closed)
    <2>1. ~Accepted(u)
      BY <1>5, <1>8, CalmReject
    <2> QED BY <2>1 DEF EndsBy, Calm
  <1> QED BY <1>3, <1>7, <1>8

\* CancelRunSnapshot leaves no task running or waiting.
LEMMA CancelSane ==
    ASSUME NEW s \in Snap, NEW u, u = CancelRunSnapshot(s), Accepted(u) PROVE Sane(u)
  <1> DEFINE open == {t \in Task : s.task[t] \notin TaskTerminal}
             running == {t \in open : /\ s.task[t] = "running"
                                      /\ s.attempts[t] # <<>>
                                      /\ s.attempts[t][Len(s.attempts[t])].status = "running"}
             outcome == [t \in running |-> "canceled"]
             ended == transitionAttempts(s, running, outcome)
             closed == transitionTasks(ended, open, "canceled")
  <1>1. /\ open \in SUBSET Task /\ running \in SUBSET Task
        /\ outcome \in [running -> AttemptStatus \ {"running"}]
        /\ "canceled" \in TaskStatus /\ "canceled" \in WorkflowStatus
    BY DEF AttemptStatus, TaskStatus, WorkflowStatus
  <1>2. u = transitionWorkflow(closed, "canceled")
    BY DEF CancelRunSnapshot
  <1>3. \A t \in Task : t \notin open => s.task[t] \notin {"running", "waiting_retry"}
    BY DEF TaskTerminal
  <1> HIDE DEF open, running, outcome
  <1>4. ended \in Snap /\ ended.task = s.task
    BY <1>1, AttemptsSteady, SteadyType, CalmAttempts
  <1> HIDE DEF ended
  <1>5. closed \in Snap
    BY <1>1, <1>4, TasksSteady, SteadyType
  <1>6. Accepted(closed) =>
           \A t \in Task : closed.task[t] = IF t \in open THEN "canceled" ELSE ended.task[t]
    BY <1>1, <1>4, TasksGet
  <1> HIDE DEF closed
  <1>7. Calm(closed, u, {}) /\ u.task = closed.task
    BY <1>1, <1>2, <1>5, CalmWorkflow
  <1>8. Accepted(closed)
    BY <1>7 DEF Calm
  <1>9. \A t \in Task : u.task[t] \notin {"running", "waiting_retry"}
    BY <1>3, <1>4, <1>6, <1>7, <1>8
  <1> QED BY <1>9 DEF Sane

-----------------------------------------------------------------------------
(* The work of the loop.                                                     *)

\* The active attempts of a snapshot.
Running(s) == {u \in Task : s.task[u] = "running"}
ActiveOf(s) == {<<t, Len(s.attempts[t])>> : t \in Running(s)}

\* There is one for each running task.
LEMMA ActiveFinite == ASSUME NEW s PROVE IsFiniteSet(ActiveOf(s))
  <1> DEFINE S == Running(s)
             f == [t \in S |-> <<t, Len(s.attempts[t])>>]
  <1>1. IsFiniteSet(S)
    <2>1. IsFiniteSet(Task)
      BY DefinitionAssumption, FS_Interval DEF Task
    <2>2. S \in SUBSET Task
      BY DEF Running
    <2> QED BY <2>1, <2>2, FS_Subset
  <1>2. f \in Surjection(S, ActiveOf(s))
    BY DEF ActiveOf, Surjection
  <1> HIDE DEF f, S
  <1> QED BY <1>1, <1>2, FS_Surjection

\* What runs, by task.
LEMMA ActiveKeys ==
    ASSUME NEW s, NEW k
    PROVE  k \in ActiveOf(s) <=> \E t \in Task : s.task[t] = "running" /\ k = <<t, Len(s.attempts[t])>>
  BY DEF ActiveOf, Running

\* After a result of t its attempt is gone, its retry timer is set, the others go on.
LEMMA TracksEnd ==
    ASSUME NEW s, NEW u, Moves(s, u), NEW t \in Task, EndsBy(s, u, {t}), Accepted(u),
           NEW w, Tracks(s, w), NEW v,
           v.active = w.active \ {<<t, Len(s.attempts[t])>>},
           w.executors \ {<<t, Len(s.attempts[t])>>} \subseteq v.executors,
           w.timers \ {<<t, Len(s.attempts[t])>>} \subseteq v.timers,
           \A x \in Task \ {t} : \A n, at :
              <<<<x, n>>, at>> \in w.retries => <<<<x, n>>, at>> \in v.retries,
           RetryTimers(u, {t}) \subseteq v.retries
    PROVE  Tracks(u, v)
  <1>1. w.active = ActiveOf(s)
    BY DEF Tracks, ActiveOf, Running
  <1>2. \A x \in Task : Len(u.attempts[x]) = Len(s.attempts[x])
    BY DEF Moves
  <1>3. \A x \in Task : u.task[x] = "running" <=> (s.task[x] = "running" /\ x # t)
    BY DEF EndsBy, Calm
  <1>4. ASSUME NEW k PROVE k \in v.active <=> k \in ActiveOf(u)
    <2>1. k \in v.active <=> k \in ActiveOf(s) /\ k # <<t, Len(s.attempts[t])>>
      BY <1>1
    <2>2. ASSUME k \in ActiveOf(s), k # <<t, Len(s.attempts[t])>> PROVE k \in ActiveOf(u)
      <3>1. PICK x \in Task : s.task[x] = "running" /\ k = <<x, Len(s.attempts[x])>>
        BY <2>2, ActiveKeys
      <3>2. x # t
        BY <2>2, <3>1
      <3>3. u.task[x] = "running" /\ k = <<x, Len(u.attempts[x])>>
        BY <1>2, <1>3, <3>1, <3>2
      <3> QED BY <3>3, ActiveKeys
    <2>3. ASSUME k \in ActiveOf(u) PROVE k \in ActiveOf(s) /\ k # <<t, Len(s.attempts[t])>>
      <3>1. PICK x \in Task : u.task[x] = "running" /\ k = <<x, Len(u.attempts[x])>>
        BY <2>3, ActiveKeys
      <3>2. s.task[x] = "running" /\ x # t /\ k = <<x, Len(s.attempts[x])>>
        BY <1>2, <1>3, <3>1
      <3> QED BY <3>2, ActiveKeys
    <2> QED BY <2>1, <2>2, <2>3
  <1>5. v.active = ActiveOf(u)
    BY <1>4, ActiveKeys
  <1>6. v.active \subseteq v.executors \cap v.timers
    BY DEF Tracks
  <1>7. ASSUME NEW x \in Task, u.task[x] = "waiting_retry"
        PROVE  <<<<x, Len(u.attempts[x])>>, u.readyAt[x]>> \in v.retries
    <2>1. CASE x = t
      BY <1>7, <2>1 DEF RetryTimers, RetryTimer
    <2>2. CASE x # t
      <3>1. s.task[x] = "waiting_retry" /\ u.readyAt[x] = s.readyAt[x]
        BY <1>7, <2>2 DEF EndsBy, Calm
      <3>2. <<<<x, Len(s.attempts[x])>>, s.readyAt[x]>> \in w.retries
        BY <3>1 DEF Tracks
      <3> QED BY <1>2, <2>2, <3>1, <3>2
    <2> QED BY <2>1, <2>2
  <1>8. Cardinality(v.active) <= Concurrency
    <2>1. IsFiniteSet(w.active) /\ v.active \in SUBSET w.active
      BY <1>1, ActiveFinite
    <2>2. /\ Cardinality(v.active) <= Cardinality(w.active)
          /\ Cardinality(w.active) \in Nat /\ Cardinality(v.active) \in Nat
      BY <2>1, FS_Subset, FS_CardinalityType
    <2> QED BY <2>2, EngineAssumption DEF Tracks
  <1> QED BY <1>5, <1>6, <1>7, <1>8 DEF Tracks, ActiveOf, Running

\* A snapshot in which nothing runs, with the timers of a resumed Run.
LEMMA TracksEnter ==
    ASSUME NEW s, \A t \in Task : s.task[t] # "running", NEW v,
           v.active = {}, RetryTimers(s, Task) \subseteq v.retries
    PROVE  Tracks(s, v)
  <1>1. {<<t, Len(s.attempts[t])>> : t \in {u \in Task : s.task[u] = "running"}} = {}
    OBVIOUS
  <1>2. Cardinality({}) = 0
    BY FS_EmptySet
  <1>3. \A t \in Task : s.task[t] = "waiting_retry" =>
           <<<<t, Len(s.attempts[t])>>, s.readyAt[t]>> \in v.retries
    BY DEF RetryTimers, RetryTimer
  <1> QED BY <1>1, <1>2, <1>3, EngineAssumption DEF Tracks

\* What prepareTask changes.
LEMMA StartShape ==
    ASSUME NEW s \in Snap, NEW t \in Task, NEW u, u = prepareTask(s, t), Accepted(u)
    PROVE  /\ u.status = s.status
           /\ u.task[t] = "running" /\ u.attempts[t] # <<>>
           /\ Len(u.attempts[t]) = Len(s.attempts[t]) + 1
           /\ u.attempts[t][Len(u.attempts[t])].status = "running"
           /\ \A x \in Task \ {t} : /\ u.task[x] = s.task[x]
                                    /\ u.attempts[x] = s.attempts[x]
                                    /\ u.readyAt[x] = s.readyAt[x]
  <1> DEFINE moved == transitionTasks(s, {t}, "running")
             attempt == [status |-> "running", owner |-> Local]
             aa == [x \in Task |-> IF x \in {t} THEN Append(s.attempts[x], attempt) ELSE s.attempts[x]]
             tt == [x \in Task |-> IF x \in {t} THEN "running" ELSE s.task[x]]
             rr == [x \in Task |-> IF x \in {t} THEN 0 ELSE s.readyAt[x]]
  <1>1. u = [moved EXCEPT !.attempts = aa]
    BY DEF prepareTask, StartQueuedAttempts
  <1>2. moved \in Snap
    BY TasksSteady, SteadyType DEF TaskStatus
  <1>3. \A x \in {t} : "running" \in taskTransitions(s.task[x])
    <2> SUFFICES ASSUME ~\A x \in {t} : "running" \in taskTransitions(s.task[x]) PROVE FALSE
      OBVIOUS
    <2>1. moved = Reject(s)
      BY DEF transitionTasks
    <2>2. moved.err = TRUE
      BY <2>1 DEF Reject, Snap, Snapshot
    <2> HIDE DEF moved, aa
    <2>3. u.err = TRUE
      BY <1>1, <1>2, <2>2 DEF Snap, Snapshot
    <2> QED BY <2>3 DEF Accepted
  <1>4. moved = [s EXCEPT !.task = tt, !.readyAt = rr]
    BY <1>3 DEF transitionTasks
  <1> HIDE DEF moved
  <1>5. aa[t] = Append(s.attempts[t], attempt) /\ \A x \in Task \ {t} : aa[x] = s.attempts[x]
    OBVIOUS
  <1>6. tt[t] = "running" /\ \A x \in Task \ {t} : tt[x] = s.task[x] /\ rr[x] = s.readyAt[x]
    OBVIOUS
  <1> HIDE DEF aa, tt, rr
  <1>7. /\ moved.status = s.status /\ moved.task = tt /\ moved.readyAt = rr
    BY <1>4 DEF Snap, Snapshot
  <1>8. /\ u.status = s.status /\ u.task = tt /\ u.readyAt = rr /\ u.attempts = aa
    BY <1>1, <1>2, <1>7 DEF Snap, Snapshot
  <1>9. PICK a \in Seq(AttemptOf({Local})) : a = s.attempts[t]
    BY DEF Snap, Snapshot
  <1>9a. attempt \in AttemptOf({Local}) /\ attempt.status = "running"
    BY DEF AttemptOf, AttemptStatus
  <1> HIDE DEF attempt
  <1>10. PICK e \in AttemptOf({Local}) : e = attempt /\ e.status = "running"
    BY <1>9a
  <1>11. /\ Len(a) \in Nat /\ Append(a, e) \in Seq(AttemptOf({Local}))
         /\ Len(Append(a, e)) = Len(a) + 1
         /\ Append(a, e)[Len(a) + 1] = e
    OBVIOUS
  <1>12. Append(a, e) # <<>>
    BY <1>11
  <1>13. u.attempts[t] = Append(a, e)
    BY <1>5, <1>8, <1>9, <1>10
  <1>14. /\ u.attempts[t] # <<>> /\ Len(u.attempts[t]) = Len(s.attempts[t]) + 1
         /\ u.attempts[t][Len(u.attempts[t])].status = "running"
    BY <1>9, <1>10, <1>11, <1>12, <1>13
  <1> QED BY <1>5, <1>6, <1>8, <1>14

\* A new attempt is active; there was a slot.
LEMMA TracksStart ==
    ASSUME NEW s \in Snap, Sane(s), NEW t \in Task, s.task[t] = "ready", s.status # "pending",
           NEW u, u = prepareTask(s, t), Accepted(u),
           NEW w, Tracks(s, w), Cardinality(w.active) < Concurrency, NEW v,
           v.active = w.active \cup {<<t, Len(u.attempts[t])>>},
           v.executors = w.executors \cup {<<t, Len(u.attempts[t])>>},
           v.timers = w.timers \cup {<<t, Len(u.attempts[t])>>},
           v.retries = w.retries
    PROVE  Tracks(u, v) /\ Sane(u)
  <1>1. w.active = ActiveOf(s)
    BY DEF Tracks, ActiveOf, Running
  <1>2. /\ u.status = s.status
        /\ u.task[t] = "running" /\ u.attempts[t] # <<>>
        /\ u.attempts[t][Len(u.attempts[t])].status = "running"
        /\ \A x \in Task \ {t} : /\ u.task[x] = s.task[x]
                                 /\ u.attempts[x] = s.attempts[x]
                                 /\ u.readyAt[x] = s.readyAt[x]
    BY StartShape
  <1>3. ASSUME NEW k PROVE k \in v.active <=> k \in ActiveOf(u)
    <2>1. k \in v.active <=> k \in ActiveOf(s) \/ k = <<t, Len(u.attempts[t])>>
      BY <1>1
    <2>2. ASSUME k \in ActiveOf(s) PROVE k \in ActiveOf(u)
      <3>1. PICK x \in Task : s.task[x] = "running" /\ k = <<x, Len(s.attempts[x])>>
        BY <2>2, ActiveKeys
      <3>2. u.task[x] = "running" /\ k = <<x, Len(u.attempts[x])>>
        BY <1>2, <3>1
      <3> QED BY <3>2, ActiveKeys
    <2>3. k = <<t, Len(u.attempts[t])>> => k \in ActiveOf(u)
      BY <1>2, ActiveKeys
    <2>4. ASSUME k \in ActiveOf(u), k # <<t, Len(u.attempts[t])>> PROVE k \in ActiveOf(s)
      <3>1. PICK x \in Task : u.task[x] = "running" /\ k = <<x, Len(u.attempts[x])>>
        BY <2>4, ActiveKeys
      <3>2. x # t
        BY <2>4, <3>1
      <3>3. s.task[x] = "running" /\ k = <<x, Len(s.attempts[x])>>
        BY <1>2, <3>1, <3>2
      <3> QED BY <3>3, ActiveKeys
    <2> QED BY <2>1, <2>2, <2>3, <2>4
  <1>4. v.active = ActiveOf(u)
    BY <1>3, ActiveKeys
  <1>5. v.active \subseteq v.executors \cap v.timers
    BY DEF Tracks
  <1>6. \A x \in Task : u.task[x] = "waiting_retry" =>
           <<<<x, Len(u.attempts[x])>>, u.readyAt[x]>> \in v.retries
    BY <1>2 DEF Tracks
  <1>7. Cardinality(v.active) <= Concurrency
    <2>1. IsFiniteSet(w.active)
      BY <1>1, ActiveFinite
    <2>2. /\ Cardinality(v.active) \in {Cardinality(w.active), Cardinality(w.active) + 1}
          /\ Cardinality(w.active) \in Nat
      BY <2>1, FS_AddElement, FS_CardinalityType
    <2> QED BY <2>2, EngineAssumption
  <1>8. Tracks(u, v)
    <2>1. v.active = {<<x, Len(u.attempts[x])>> : x \in {y \in Task : u.task[y] = "running"}}
      BY <1>4, Zenon DEF ActiveOf, Running
    <2> QED BY <1>5, <1>6, <1>7, <2>1, Zenon DEF Tracks
  <1>9. Sane(u)
    BY <1>2 DEF Sane
  <1> QED BY <1>8, <1>9

-----------------------------------------------------------------------------
(* Every step keeps what the loop knows.                                     *)

\* The next state, part by part.
LEMMA KnowsNext ==
    ASSUME Sane(mem'.snap), Sane(loadSnapshot(store').snap), Stale',
           pc' = "execute" => store'.run.status = "pending",
           pc' = "enter" => \A t \in Task : mem'.snap.task[t] # "running",
           pc' \in {"start", "loop"} => Tracks(mem'.snap, work')
    PROVE  LoopKnows'
  <1>1. Sane(mem.snap)'
    BY DEF Sane
  <1>2. Sane(persisted.snap)'
    BY DEF Sane, persisted, loadSnapshot
  <1>3. (InLoop => Tracks(mem.snap, work))'
    BY Zenon DEF InLoop, Tracks
  <1> QED BY <1>1, <1>2, <1>3 DEF LoopKnows

\* A step that changes neither the rows nor the copy.
LEMMA KnowsQuiet ==
    ASSUME LoopKnows, store' = store, mem' = mem, Stale',
           pc' = "execute" => store.run.status = "pending",
           pc' = "enter" => pc = "enter",
           pc' \in {"start", "loop"} => Tracks(mem.snap, work')
    PROVE  LoopKnows'
  <1>1. Sane(mem.snap) /\ Sane(loadSnapshot(store).snap)
    BY DEF LoopKnows, persisted
  <1>2. pc = "enter" => \A t \in Task : mem.snap.task[t] # "running"
    BY DEF LoopKnows
  <1> QED BY <1>1, <1>2, KnowsNext

\* The copy gets no older while the goroutine moves on.
LEMMA StaleQuiet ==
    ASSUME LoopKnows, Typed, store' = store, fresh' = fresh, faults' \in Nat, faults' >= faults,
           pc' \in Executing \cup {"finalizeAgain", "settleAgain"} =>
               pc \in Executing \cup {"finalizeAgain", "settleAgain"},
           pc' = "settleAgain" => pc = "settleAgain"
    PROVE  Stale'
  <1>1. faults \in Nat
    BY DEF Typed
  <1> QED BY <1>1 DEF LoopKnows, Stale, Executing

\* Every save.
LEMMA SaveKnows ==
    ASSUME EngineInv, LoopKnows, pc \in Executing,
           NEW s, Follows(mem.snap, s), s.err = FALSE, Sane(s),
           NEW next, next \in {"enter", "start", "settle", "finalize", "idle"}, NEW w,
           next = "enter" => \A t \in Task : s.task[t] # "running",
           next = "start" => Tracks(s, w),
           Save(s, next, w)
    PROVE  LoopKnows'
  <1>1. Typed /\ Kept(store) /\ faults \in Nat /\ s \in Snap
    BY DEF EngineInv, Typed, Follows
  <1>2. Sane(mem.snap) /\ Sane(loadSnapshot(store).snap) /\ Stale
    BY DEF LoopKnows, persisted
  <1>3. Saved(s) \in Loaded /\ Saved(s).snap = s
    BY <1>1, SavedType
  <1>4. fresh => /\ applyChangeSet(store, Change(s)) = insertSnapshot(Saved(s))
                 /\ loadSnapshot(insertSnapshot(Saved(s))) = Saved(s)
    BY <1>3, WriteRows, LoadInserted
  <1>5. \/ Commit(s) /\ pc' = next /\ work' = w /\ UNCHANGED <<stop, faults>>
        \/ Conflict
        \/ StorageError(s) /\ pc' = Proceed("down")
    BY DEF Save
  <1>6. CASE Commit(s) /\ pc' = next /\ work' = w /\ UNCHANGED <<stop, faults>>
    <2>1. fresh' = TRUE /\ mem'.snap = s /\ loadSnapshot(store') = Saved(s)
      BY <1>3, <1>4, <1>6 DEF Commit
    <2>2. Sane(mem'.snap) /\ Sane(loadSnapshot(store').snap)
      BY <1>3, <2>1
    <2>3. Stale'
      BY <1>6, <2>1 DEF Stale
    <2> QED BY <1>6, <2>1, <2>2, <2>3, KnowsNext
  <1>7. CASE Conflict
    <2>1. pc' \in {"settle", "finalize", "idle", "failed"}
      BY <1>1, <1>7, ProceedTo DEF Conflict, Typed
    <2>2. store' = store /\ faults' = faults
      BY <1>7 DEF Conflict
    <2>3. \/ mem' = loadSnapshot(store) /\ fresh' = TRUE
          \/ mem' = mem /\ fresh' = fresh
      BY <1>7 DEF Conflict, persisted
    <2>4. Sane(mem'.snap) /\ Sane(loadSnapshot(store').snap)
      BY <1>2, <2>2, <2>3
    <2>5. Stale'
      BY <1>2, <2>1, <2>2, <2>3 DEF Stale, Executing
    <2> QED BY <2>1, <2>4, <2>5, KnowsNext
  <1>8. CASE StorageError(s) /\ pc' = Proceed("down")
    <2>1. pc' \in {"settle", "finalize", "idle", "down"}
      BY <1>1, <1>8, ProceedTo DEF Typed
    <2>2. /\ mem' = mem
          /\ \/ store' = store /\ fresh' = fresh /\ faults' \in {faults, faults + 1}
             \/ /\ fresh /\ fresh' = FALSE /\ faults' = faults + 1
                /\ store' = insertSnapshot(Saved(s))
      BY <1>4, <1>8 DEF StorageError
    <2>3. Sane(mem'.snap) /\ Sane(loadSnapshot(store').snap)
      BY <1>2, <1>3, <1>4, <2>2
    <2>4. Stale'
      BY <1>1, <1>2, <2>1, <2>2 DEF Stale, Executing
    <2> QED BY <2>1, <2>3, <2>4, KnowsNext
  <1> QED BY <1>5, <1>6, <1>7, <1>8

\* A new Run runs nothing.
LEMMA KnowsInit == ASSUME Init PROVE LoopKnows
  <1>1. newRunSnapshot.err = FALSE /\ newRunSnapshot \in Snap
    BY NewRunSound DEF Sound, Snap, SnapshotInv
  <1>2. \A t \in Task : newRunSnapshot.task[t] \notin {"running", "waiting_retry"}
    BY DEF newRunSnapshot
  <1>3. Sane(newRunSnapshot)
    BY <1>2 DEF Sane
  <1>4. mem \in Loaded /\ mem.snap = newRunSnapshot /\ store = insertSnapshot(mem)
    BY <1>1 DEF Init, Loaded, Snap
  <1>5. persisted = mem
    BY <1>1, <1>4, LoadInserted DEF persisted
  <1>6. Sane(mem.snap) /\ Sane(persisted.snap)
    BY <1>3, <1>4, <1>5
  <1> QED BY <1>6 DEF Init, LoopKnows, InLoop, Stale, Executing

\* Execute is used for a Run that has never run.
LEMMA KnowsBegin == ASSUME EngineInv, LoopKnows, Begin PROVE LoopKnows'
  <1>1. /\ Typed /\ store' = store /\ mem' = mem /\ fresh' = fresh /\ faults' = faults
        /\ pc' \in {"resume", "execute"} /\ faults \in Nat
    BY DEF EngineInv, Begin, Typed
  <1>2. pc' = "execute" => store.run.status = "pending"
    BY DEF Begin
  <1>3. Stale'
    BY <1>1, StaleQuiet DEF Executing
  <1> QED BY <1>1, <1>2, <1>3, KnowsQuiet

\* What is loaded is the latest; Execute finds nothing running.
LEMMA KnowsLoad == ASSUME EngineInv, LoopKnows, LoadRun PROVE LoopKnows'
  <1>1. /\ Typed /\ Kept(store) /\ store' = store /\ mem' = loadSnapshot(store)
        /\ fresh' = TRUE /\ pc \in {"execute", "resume"}
    BY DEF EngineInv, LoadRun, persisted
  <1>2. Sane(loadSnapshot(store).snap) /\ (pc = "execute" => store.run.status = "pending")
    BY DEF LoopKnows, persisted
  <1>3. loadSnapshot(store).snap.err = FALSE /\ loadSnapshot(store).snap.status = store.run.status
    BY <1>1 DEF Kept, loadSnapshot
  <1>4. \A next : Proceed(next) \in {next, "settle", "idle"}
    BY <1>1 DEF Proceed, Typed
  <1>5. pc' \in {"idle", "settle", "failed"} \/ pc' \in {"enter", "prepare"}
    BY <1>1, <1>4 DEF LoadRun
  <1>6. pc' = "enter" => pc = "execute"
    BY <1>1, <1>4 DEF LoadRun
  <1>7. pc' = "enter" => \A t \in Task : mem'.snap.task[t] # "running"
    BY <1>1, <1>2, <1>3, <1>6 DEF Sane
  <1>8. Stale'
    BY <1>1, <1>5 DEF Stale
  <1> QED BY <1>1, <1>2, <1>5, <1>7, <1>8, KnowsNext

\* Resume ends what ran before.
LEMMA KnowsPrepare == ASSUME EngineInv, LoopKnows, Prepare PROVE LoopKnows'
  <1>1. Typed /\ pc = "prepare" /\ mem.snap \in Snap /\ Sane(mem.snap) /\ faults \in Nat
    BY DEF EngineInv, Prepare, Typed, Loaded, Snap, LoopKnows
  <1>2. PICK failed : failed = interruptRunning(mem.snap)
    OBVIOUS
  <1>3. PICK counted : counted = rebuildDependencies(failed)
    OBVIOUS
  <1>4. PICK s : s = prepareForResume(mem.snap, counted)
    OBVIOUS
  <1>5. Moves(mem.snap, s) /\ Follows(mem.snap, s) /\ s \in Snap
    BY <1>1, <1>2, <1>3, <1>4, PrepareSteady, SteadyType DEF Steady, Moves
  <1>6. /\ EndsBy(mem.snap, s, {t \in Task : mem.snap.task[t] = "running"})
        /\ Accepted(s) => \A t \in Task : s.task[t] # "running"
    BY <1>1, <1>2, <1>3, <1>4, PrepareEnds
  <1>7. \/ pc' = "failed" /\ UNCHANGED <<store, mem, fresh, stop, work, faults>>
        \/ ~s.err /\ Save(s, Proceed("enter"), NoWork)
    BY <1>2, <1>3, <1>4 DEF Prepare
  <1>8. CASE pc' = "failed" /\ UNCHANGED <<store, mem, fresh, stop, work, faults>>
    <2>1. Stale'
      BY <1>1, <1>8, StaleQuiet DEF Executing
    <2> QED BY <1>8, <2>1, KnowsQuiet
  <1>9. CASE ~s.err /\ Save(s, Proceed("enter"), NoWork)
    <2>1. s.err = FALSE /\ Accepted(s)
      BY <1>5, <1>9 DEF Snap, Snapshot, Accepted
    <2>2. Sane(s)
      BY <1>1, <1>5, <1>6, <2>1, EndsSane
    <2>3. PICK next : next = Proceed("enter")
      OBVIOUS
    <2>4. next \in {"enter", "settle", "finalize", "idle"}
      BY <1>1, <2>3, ProceedTo DEF Typed
    <2>5. Save(s, next, NoWork) /\ \A t \in Task : s.task[t] # "running"
      BY <1>6, <1>9, <2>1, <2>3
    <2> QED BY <1>1, <1>5, <2>1, <2>2, <2>4, <2>5, SaveKnows DEF Executing
  <1> QED BY <1>7, <1>8, <1>9

\* The loop is entered with a timer for each task that waits.
LEMMA KnowsEnter == ASSUME EngineInv, LoopKnows, Enter PROVE LoopKnows'
  <1>1. /\ Typed /\ pc = "enter" /\ mem.snap \in Snap /\ Sane(mem.snap) /\ faults \in Nat
        /\ \A t \in Task : mem.snap.task[t] # "running"
    BY DEF EngineInv, Enter, Typed, Loaded, Snap, LoopKnows
  <1>2. PICK w : w = [NoWork EXCEPT !.retries = RetryTimers(mem.snap, Task)]
    OBVIOUS
  <1>3. w.active = {} /\ w.retries = RetryTimers(mem.snap, Task)
    BY <1>2 DEF NoWork
  <1>4. IF mem.snap.status = "pending"
        THEN Save(transitionWorkflow(mem.snap, "running"), Proceed("start"),
                  IF Stopped THEN NoWork ELSE w)
        ELSE pc' = "start" /\ work' = w /\ UNCHANGED <<store, mem, fresh, stop, faults>>
    BY <1>2 DEF Enter
  <1>5. CASE mem.snap.status = "pending"
    <2>1. PICK s : s = transitionWorkflow(mem.snap, "running")
      OBVIOUS
    <2>2. s = [mem.snap EXCEPT !.status = "running"]
      BY <1>5, <2>1 DEF transitionWorkflow, workflowTransitions
    <2>3. /\ s.err = FALSE /\ s.status = "running"
          /\ s.task = mem.snap.task /\ s.attempts = mem.snap.attempts
          /\ s.readyAt = mem.snap.readyAt
      BY <1>1, <2>2 DEF Snap, Snapshot, Typed
    <2>4. Follows(mem.snap, s)
      BY <1>1, <2>1, WorkflowMoves DEF Moves, WorkflowStatus
    <2>5. Sane(s)
      BY <1>1, <2>3 DEF Sane
    <2>6. PICK next : next = Proceed("start")
      OBVIOUS
    <2>7. PICK v : v = IF Stopped THEN NoWork ELSE w
      OBVIOUS
    <2>8. next \in {"start", "settle", "finalize", "idle"} /\ (next = "start" => v = w)
      BY <1>1, <2>6, <2>7, ProceedTo DEF Typed
    <2>9. RetryTimers(s, Task) = RetryTimers(mem.snap, Task)
      BY <2>3 DEF RetryTimers, RetryTimer
    <2>10. next = "start" => Tracks(s, v)
      BY <1>1, <1>3, <2>3, <2>8, <2>9, TracksEnter
    <2>11. Save(s, next, v)
      BY <1>4, <1>5, <2>1, <2>6, <2>7
    <2> QED BY <1>1, <2>3, <2>4, <2>5, <2>8, <2>10, <2>11, SaveKnows DEF Executing
  <1>6. CASE mem.snap.status # "pending"
    <2>1. pc' = "start" /\ work' = w /\ UNCHANGED <<store, mem, fresh, stop, faults>>
      BY <1>4, <1>6
    <2>2. Tracks(mem.snap, work')
      BY <1>1, <1>3, <2>1, TracksEnter
    <2>3. Stale'
      BY <1>1, <2>1, StaleQuiet DEF Executing
    <2> QED BY <2>1, <2>2, <2>3, KnowsQuiet
  <1> QED BY <1>5, <1>6

\* A step that leaves the loop, or fails in it, without a save.
LEMMA KnowsLeft ==
    ASSUME EngineInv, LoopKnows, InLoop, UNCHANGED <<store, mem, fresh, faults>>,
           pc' \in {"settle", "finalize", "idle", "failed"}
    PROVE  LoopKnows'
  <1>1. Typed /\ faults \in Nat
    BY DEF EngineInv, Typed
  <1>2. Stale'
    BY <1>1, StaleQuiet DEF Executing
  <1> QED BY <1>2, KnowsQuiet

\* A step that stays in the loop without a save.
LEMMA KnowsStays ==
    ASSUME EngineInv, LoopKnows, InLoop, UNCHANGED <<store, mem, fresh, faults>>,
           pc' \in {"start", "loop"}, Tracks(mem.snap, work')
    PROVE  LoopKnows'
  <1>1. Typed /\ faults \in Nat
    BY DEF EngineInv, Typed
  <1>2. Stale'
    BY <1>1, StaleQuiet DEF Executing, InLoop
  <1> QED BY <1>2, KnowsQuiet

\* A task is started while a slot is free.
LEMMA KnowsStartTask == ASSUME EngineInv, LoopKnows, StartTask PROVE LoopKnows'
  <1>1. /\ Typed /\ pc = "start" /\ InLoop /\ mem.snap \in Snap
        /\ Sane(mem.snap) /\ Tracks(mem.snap, work) /\ mem.snap.status # "pending"
    BY DEF EngineInv, StartTask, Typed, Loaded, Snap, InLoop, LoopKnows
  <1>2. PICK t : t = FirstReady
    OBVIOUS
  <1>3. t \in Task /\ mem.snap.task[t] = "ready"
    BY <1>2, FirstReadyReady DEF StartTask, Ready
  <1>4. PICK s : s = prepareTask(mem.snap, t)
    OBVIOUS
  <1>5. Follows(mem.snap, s) /\ s \in Snap
    BY <1>1, <1>3, <1>4, StartFollows DEF Follows
  <1>6. PICK key : key = <<t, Len(s.attempts[t])>>
    OBVIOUS
  <1>7. PICK w : w = IF Stopped THEN NoWork
                     ELSE [work EXCEPT !.active = @ \cup {key},
                                       !.executors = @ \cup {key},
                                       !.timers = @ \cup {key}]
    OBVIOUS
  <1>8. \/ pc' = "failed" /\ work' = NoWork /\ UNCHANGED <<store, mem, fresh, stop, faults>>
        \/ ~s.err /\ Save(s, Proceed("start"), w)
    BY <1>2, <1>4, <1>6, <1>7 DEF StartTask
  <1>9. CASE pc' = "failed" /\ work' = NoWork /\ UNCHANGED <<store, mem, fresh, stop, faults>>
    BY <1>1, <1>9, KnowsLeft
  <1>10. CASE ~s.err /\ Save(s, Proceed("start"), w)
    <2>1. s.err = FALSE /\ Accepted(s)
      BY <1>5, <1>10 DEF Snap, Snapshot, Accepted
    <2>2. PICK next : next = Proceed("start")
      OBVIOUS
    <2>3. next \in {"start", "settle", "finalize", "idle"} /\ (next = "start" => ~Stopped)
      BY <1>1, <2>2, ProceedTo DEF Typed
    <2>4. Cardinality(work.active) < Concurrency
      BY DEF StartTask, SlotFree
    <2>5. PICK v : v = [work EXCEPT !.active = @ \cup {key},
                                    !.executors = @ \cup {key},
                                    !.timers = @ \cup {key}]
      OBVIOUS
    <2>6. /\ v.active = work.active \cup {<<t, Len(s.attempts[t])>>}
          /\ v.executors = work.executors \cup {<<t, Len(s.attempts[t])>>}
          /\ v.timers = work.timers \cup {<<t, Len(s.attempts[t])>>}
          /\ v.retries = work.retries
      BY <1>1, <1>6, <2>5 DEF Typed, Work
    <2>7. Tracks(s, v) /\ Sane(s)
      BY <1>1, <1>3, <1>4, <2>1, <2>4, <2>6, TracksStart
    <2>8. next = "start" => Tracks(s, w)
      BY <1>7, <2>3, <2>5, <2>7
    <2>9. Save(s, next, w)
      BY <1>10, <2>2
    <2> QED BY <1>1, <1>5, <2>1, <2>3, <2>7, <2>8, <2>9, SaveKnows DEF Executing
  <1> QED BY <1>8, <1>9, <1>10

\* The loop waits for an event.
LEMMA KnowsAllStarted == ASSUME EngineInv, LoopKnows, AllStarted PROVE LoopKnows'
  <1>1. InLoop /\ pc' = "loop" /\ UNCHANGED <<store, mem, fresh, work, faults>>
    BY DEF AllStarted, InLoop
  <1>2. Tracks(mem.snap, work')
    BY <1>1 DEF LoopKnows
  <1> QED BY <1>1, <1>2, KnowsStays

\* The loop sees that it was stopped.
LEMMA KnowsStopNoticed == ASSUME EngineInv, LoopKnows, StopNoticed PROVE LoopKnows'
  <1>1. Typed
    BY DEF EngineInv
  <1>2. pc' \in {"settle", "finalize", "idle"}
    BY <1>1, ProceedTo DEF StopNoticed, Typed
  <1> QED BY <1>2, KnowsLeft DEF StopNoticed

\* An event that applies: the attempt has ended and a retry has its timer.
LEMMA KnowsApplied ==
    ASSUME EngineInv, LoopKnows, pc = "loop", NEW t \in Task, NEW s,
           Moves(mem.snap, s), EndsBy(mem.snap, s, {t}), NEW w \in Work,
           w.active = work.active \ {<<t, Len(mem.snap.attempts[t])>>},
           work.executors \ {<<t, Len(mem.snap.attempts[t])>>} \subseteq w.executors,
           work.timers \ {<<t, Len(mem.snap.attempts[t])>>} \subseteq w.timers,
           \A x \in Task \ {t} : \A n, at :
              <<<<x, n>>, at>> \in work.retries => <<<<x, n>>, at>> \in w.retries,
           NEW applied, applied, Apply(applied, s, t, w)
    PROVE  LoopKnows'
  <1>1. Typed /\ InLoop /\ Sane(mem.snap) /\ Tracks(mem.snap, work)
    BY DEF EngineInv, InLoop, LoopKnows
  <1>2. s \in Snap /\ Follows(mem.snap, s)
    BY DEF Moves, Follows
  <1>3. CASE s.err
    <2>1. pc' = "failed" /\ UNCHANGED <<store, mem, fresh, stop, faults>>
      BY <1>3 DEF Apply
    <2> QED BY <1>1, <2>1, KnowsLeft
  <1>4. CASE ~s.err
    <2>1. s.err = FALSE /\ Accepted(s)
      BY <1>2, <1>4 DEF Snap, Snapshot, Accepted
    <2>2. PICK v : v = [w EXCEPT !.retries = @ \cup RetryTimers(s, {t})]
      OBVIOUS
    <2>3. Save(s, "start", v)
      BY <1>4, <2>2 DEF Apply
    <2>4. /\ v.active = w.active /\ v.executors = w.executors /\ v.timers = w.timers
          /\ v.retries = w.retries \cup RetryTimers(s, {t})
      BY <2>2 DEF Work
    <2>5. \A x \in Task \ {t} : \A n, at :
             <<<<x, n>>, at>> \in work.retries => <<<<x, n>>, at>> \in v.retries
      BY <2>4
    <2>6. RetryTimers(s, {t}) \subseteq v.retries
      BY <2>4
    <2>7. /\ v.active = work.active \ {<<t, Len(mem.snap.attempts[t])>>}
          /\ work.executors \ {<<t, Len(mem.snap.attempts[t])>>} \subseteq v.executors
          /\ work.timers \ {<<t, Len(mem.snap.attempts[t])>>} \subseteq v.timers
      BY <2>4
    <2>8. Tracks(s, v)
      BY <1>1, <2>1, <2>5, <2>6, <2>7, TracksEnd
    <2>9. Sane(s)
      BY <1>1, <2>1, EndsSane
    <2> QED BY <1>2, <2>1, <2>3, <2>8, <2>9, SaveKnows DEF Executing
  <1> QED BY <1>3, <1>4

\* An active key is that of the running attempt of its task, which the event ends.
LEMMA ActiveApplies ==
    ASSUME EngineInv, LoopKnows, pc = "loop", NEW key \in work.active
    PROVE  /\ key[1] \in Task
           /\ key = <<key[1], Len(mem.snap.attempts[key[1]])>>
           /\ activeAttempt(mem.snap, key[1], key[2])
           /\ mem.snap.status \notin WorkflowTerminal
  <1>1. Sane(mem.snap) /\ Tracks(mem.snap, work) /\ InLoop
    BY DEF LoopKnows, InLoop
  <1>2. PICK t \in Task : mem.snap.task[t] = "running" /\ key = <<t, Len(mem.snap.attempts[t])>>
    BY <1>1 DEF Tracks
  <1>3. activeAttempt(mem.snap, t, Len(mem.snap.attempts[t]))
    BY <1>1, <1>2 DEF activeAttempt, Sane
  <1>4. mem.snap.status \notin WorkflowTerminal
    BY <1>1, <1>2, LoopOpen DEF TaskTerminal
  <1> QED BY <1>2, <1>3, <1>4

\* An executor returns.
LEMMA KnowsCompletion ==
    ASSUME EngineInv, LoopKnows, NEW key \in work.executors, NEW kind \in ExecutionKind,
           Completion(key, kind)
    PROVE  LoopKnows'
  <1>1. /\ Typed /\ pc = "loop" /\ InLoop /\ mem.snap \in Snap /\ work \in Work
        /\ Tracks(mem.snap, work)
    BY DEF EngineInv, Completion, Receiving, InLoop, Typed, Loaded, Snap, LoopKnows
  <1>2. PICK w : w = [work EXCEPT !.active = @ \ {key}, !.executors = @ \ {key}]
    OBVIOUS
  <1>3. /\ w \in Work /\ w.active = work.active \ {key}
        /\ w.executors = work.executors \ {key}
        /\ w.timers = work.timers /\ w.retries = work.retries
    BY <1>1, <1>2 DEF Work
  <1>4. CASE key \notin work.active
    <2>1. work' = w /\ UNCHANGED <<store, mem, fresh, pc, stop, faults>>
      BY <1>2, <1>4 DEF Completion, IsActive
    <2>2. Tracks(mem.snap, w)
      <3>1. w.active = work.active /\ w.active \subseteq w.executors \cap w.timers
        BY <1>1, <1>3, <1>4 DEF Tracks
      <3> QED BY <1>1, <1>3, <3>1 DEF Tracks
    <2> QED BY <1>1, <2>1, <2>2, KnowsStays
  <1>5. CASE key \in work.active /\ kind = "canceled"
    <2>1. pc' = "finalize" /\ UNCHANGED <<store, mem, fresh, faults>>
      BY <1>5 DEF Completion, IsActive
    <2> QED BY <1>1, <2>1, KnowsLeft
  <1>6. CASE key \in work.active /\ kind # "canceled"
    <2>1. PICK t : t = key[1]
      OBVIOUS
    <2>2. /\ t \in Task /\ key = <<t, Len(mem.snap.attempts[t])>>
          /\ activeAttempt(mem.snap, key[1], key[2]) /\ mem.snap.status \notin WorkflowTerminal
      BY <1>1, <1>6, <2>1, ActiveApplies
    <2>3. kind \in ResultKind
      BY <1>6 DEF ExecutionKind
    <2>4. PICK s : s = ApplyAttemptResult(mem.snap, t, kind, Now)
      OBVIOUS
    <2>5. Moves(mem.snap, s)
      BY <1>1, <2>2, <2>3, <2>4, ResultMoves
    <2>6. EndsBy(mem.snap, s, {t})
      BY <1>1, <2>2, <2>3, <2>4, ResultEnds
    <2>7. PICK applied : applied = activeAttempt(mem.snap, key[1], key[2])
      OBVIOUS
    <2>8. applied /\ Apply(applied, s, t, w)
      BY <1>2, <1>6, <2>1, <2>2, <2>4, <2>7 DEF Completion, IsActive
    <2>9. /\ w.active = work.active \ {<<t, Len(mem.snap.attempts[t])>>}
          /\ work.executors \ {<<t, Len(mem.snap.attempts[t])>>} \subseteq w.executors
          /\ work.timers \ {<<t, Len(mem.snap.attempts[t])>>} \subseteq w.timers
      BY <1>3, <2>2
    <2>10. \A x \in Task \ {t} : \A n, at :
              <<<<x, n>>, at>> \in work.retries => <<<<x, n>>, at>> \in w.retries
      BY <1>3
    <2> QED BY <1>1, <1>3, <2>2, <2>5, <2>6, <2>8, <2>9, <2>10, KnowsApplied
  <1> QED BY <1>4, <1>5, <1>6

\* The timer of an attempt fires.
LEMMA KnowsTimedOut ==
    ASSUME EngineInv, LoopKnows, NEW key \in work.timers, TimedOut(key) PROVE LoopKnows'
  <1>1. /\ Typed /\ pc = "loop" /\ InLoop /\ mem.snap \in Snap /\ work \in Work
        /\ Tracks(mem.snap, work)
    BY DEF EngineInv, TimedOut, Receiving, InLoop, Typed, Loaded, Snap, LoopKnows
  <1>2. PICK w : w = [work EXCEPT !.active = @ \ {key}, !.timers = @ \ {key}]
    OBVIOUS
  <1>3. /\ w \in Work /\ w.active = work.active \ {key}
        /\ w.timers = work.timers \ {key}
        /\ w.executors = work.executors /\ w.retries = work.retries
    BY <1>1, <1>2 DEF Work
  <1>4. CASE key \notin work.active
    <2>1. work' = w /\ UNCHANGED <<store, mem, fresh, pc, stop, faults>>
      BY <1>2, <1>4 DEF TimedOut, IsActive
    <2>2. Tracks(mem.snap, w)
      <3>1. w.active = work.active /\ w.active \subseteq w.executors \cap w.timers
        BY <1>1, <1>3, <1>4 DEF Tracks
      <3> QED BY <1>1, <1>3, <3>1 DEF Tracks
    <2> QED BY <1>1, <2>1, <2>2, KnowsStays
  <1>5. CASE key \in work.active
    <2>1. PICK t : t = key[1]
      OBVIOUS
    <2>2. /\ t \in Task /\ key = <<t, Len(mem.snap.attempts[t])>>
          /\ activeAttempt(mem.snap, key[1], key[2]) /\ mem.snap.status \notin WorkflowTerminal
      BY <1>1, <1>5, <2>1, ActiveApplies
    <2>3. PICK outcome : outcome = [x \in {t} |-> "timed_out"]
      OBVIOUS
    <2>4. outcome \in [{t} -> AttemptStatus \ {"running"}] /\ Now \in Int
      BY <2>3 DEF AttemptStatus, Now
    <2>5. PICK s : s = EndAttempts(mem.snap, {t}, outcome, Now)
      OBVIOUS
    <2>6. Moves(mem.snap, s)
      BY <1>1, <2>2, <2>4, <2>5, EndAttemptsMoves
    <2>7. EndsBy(mem.snap, s, {t})
      BY <1>1, <2>2, <2>4, <2>5, EndAttemptsEnds
    <2>8. PICK applied : applied = activeAttempt(mem.snap, key[1], key[2])
      OBVIOUS
    <2>9. applied /\ Apply(applied, s, t, w)
      BY <1>2, <1>5, <2>1, <2>2, <2>3, <2>5, <2>8 DEF TimedOut, IsActive
    <2>10. /\ w.active = work.active \ {<<t, Len(mem.snap.attempts[t])>>}
           /\ work.executors \ {<<t, Len(mem.snap.attempts[t])>>} \subseteq w.executors
           /\ work.timers \ {<<t, Len(mem.snap.attempts[t])>>} \subseteq w.timers
      BY <1>3, <2>2
    <2>11. \A x \in Task \ {t} : \A n, at :
              <<<<x, n>>, at>> \in work.retries => <<<<x, n>>, at>> \in w.retries
      BY <1>3
    <2> QED BY <1>1, <1>3, <2>2, <2>6, <2>7, <2>9, <2>10, <2>11, KnowsApplied
  <1> QED BY <1>4, <1>5

\* A retry timer fires: one that is not due is not the one a waiting task needs.
LEMMA KnowsRetryFired ==
    ASSUME EngineInv, LoopKnows, NEW timer \in work.retries, RetryFired(timer) PROVE LoopKnows'
  <1>1. /\ Typed /\ pc = "loop" /\ InLoop /\ mem.snap \in Snap /\ work \in Work
        /\ Tracks(mem.snap, work) /\ Sane(mem.snap)
    BY DEF EngineInv, RetryFired, Receiving, InLoop, Typed, Loaded, Snap, LoopKnows
  <1>2. PICK w : w = [work EXCEPT !.retries = @ \ {timer}]
    OBVIOUS
  <1>3. /\ w \in Work /\ w.active = work.active /\ w.executors = work.executors
        /\ w.timers = work.timers /\ w.retries = work.retries \ {timer}
    BY <1>1, <1>2 DEF Work
  <1>4. PICK t \in Task, n \in Nat, at \in Int : timer = <<<<t, n>>, at>>
    BY <1>1 DEF Work, AttemptKey
  <1>5. PICK applied : applied = (/\ retryDue(mem.snap, t, at)
                                  /\ Len(mem.snap.attempts[t]) = n)
    OBVIOUS
  <1>6. Apply(applied, MakeRetryReady(mem.snap, t), t, w)
    BY <1>2, <1>4, <1>5 DEF RetryFired
  <1>7. CASE ~applied
    <2>1. pc' = "start" /\ work' = w /\ UNCHANGED <<store, mem, fresh, stop, faults>>
      BY <1>6, <1>7 DEF Apply
    <2>2. ASSUME NEW x \in Task, mem.snap.task[x] = "waiting_retry"
          PROVE  <<<<x, Len(mem.snap.attempts[x])>>, mem.snap.readyAt[x]>> \in w.retries
      <3>1. <<<<x, Len(mem.snap.attempts[x])>>, mem.snap.readyAt[x]>> \in work.retries
        BY <1>1, <2>2 DEF Tracks
      <3>2. mem.snap.readyAt[x] <= mem.snap.readyAt[x] /\ mem.snap.attempts[x] # <<>>
        BY <1>1, <2>2 DEF Sane, Snap, Snapshot
      <3>3. <<<<x, Len(mem.snap.attempts[x])>>, mem.snap.readyAt[x]>> # timer
        BY <1>4, <1>5, <1>7, <2>2, <3>2 DEF retryDue
      <3> QED BY <1>3, <3>1, <3>3
    <2>3. Tracks(mem.snap, w)
      BY <1>1, <1>3, <2>2 DEF Tracks
    <2> QED BY <1>1, <2>1, <2>3, KnowsStays
  <1>8. CASE applied
    <2>1. mem.snap.task[t] = "waiting_retry" /\ mem.snap.attempts[t] # <<>>
      BY <1>5, <1>8 DEF retryDue
    <2>2. PICK s : s = MakeRetryReady(mem.snap, t)
      OBVIOUS
    <2>3. Moves(mem.snap, s)
      BY <1>1, <2>2, TasksSteady DEF MakeRetryReady, TaskStatus, Steady
    <2>4. EndsBy(mem.snap, s, {t})
      BY <1>1, <2>1, <2>2, RetryEnds
    <2>5. <<t, Len(mem.snap.attempts[t])>> \notin work.active
      BY <1>1, <2>1 DEF Tracks
    <2>6. /\ w.active = work.active \ {<<t, Len(mem.snap.attempts[t])>>}
          /\ work.executors \ {<<t, Len(mem.snap.attempts[t])>>} \subseteq w.executors
          /\ work.timers \ {<<t, Len(mem.snap.attempts[t])>>} \subseteq w.timers
      BY <1>3, <2>5
    <2>7. \A x \in Task \ {t} : \A m, due :
             <<<<x, m>>, due>> \in work.retries => <<<<x, m>>, due>> \in w.retries
      BY <1>3, <1>4
    <2>8. Apply(applied, s, t, w)
      BY <1>6, <2>2
    <2> QED BY <1>1, <1>3, <1>8, <2>3, <2>4, <2>6, <2>7, <2>8, KnowsApplied
  <1> QED BY <1>7, <1>8

\* The loop ends.
LEMMA KnowsLeave == ASSUME EngineInv, LoopKnows, Leave PROVE LoopKnows'
  <1>1. /\ Typed /\ pc = "loop" /\ InLoop /\ mem.snap \in Snap /\ Sane(mem.snap)
    BY DEF EngineInv, Leave, Receiving, InLoop, Typed, Loaded, Snap, LoopKnows
  <1>2. PICK status : status = IF \E t \in Task : mem.snap.task[t] = "failed" THEN "failed"
                               ELSE "succeeded"
    OBVIOUS
  <1>3. status \in {"failed", "succeeded"}
    BY <1>2
  <1>4. \/ /\ pc' \in {"idle", "failed"} /\ work' = NoWork
           /\ UNCHANGED <<store, mem, fresh, stop, faults>>
        \/ ~Terminal(mem) /\ Save(transitionWorkflow(mem.snap, status), "idle", NoWork)
    BY <1>2 DEF Leave
  <1>5. CASE /\ pc' \in {"idle", "failed"} /\ work' = NoWork
             /\ UNCHANGED <<store, mem, fresh, stop, faults>>
    BY <1>1, <1>5, KnowsLeft
  <1>6. CASE ~Terminal(mem) /\ Save(transitionWorkflow(mem.snap, status), "idle", NoWork)
    <2>1. PICK s : s = transitionWorkflow(mem.snap, status)
      OBVIOUS
    <2>2. mem.snap.status = "running"
      BY <1>1, <1>6 DEF Terminal, EngineInv, Snap, Snapshot, WorkflowStatus, WorkflowTerminal
    <2>3. s = [mem.snap EXCEPT !.status = status]
      BY <1>3, <2>1, <2>2 DEF transitionWorkflow, workflowTransitions
    <2>4. /\ s.err = FALSE /\ s.status = status
          /\ s.task = mem.snap.task /\ s.attempts = mem.snap.attempts
      BY <1>1, <2>3 DEF Snap, Snapshot, Typed
    <2>5. Follows(mem.snap, s)
      BY <1>1, <1>3, <2>1, WorkflowMoves DEF WorkflowStatus, Moves
    <2>6. Sane(s)
      BY <1>1, <1>3, <2>4 DEF Sane
    <2>7. Save(s, "idle", NoWork)
      BY <1>6, <2>1
    <2> QED BY <1>1, <2>4, <2>5, <2>6, <2>7, SaveKnows DEF Executing
  <1> QED BY <1>4, <1>5, <1>6

\* finalizeCancellation: its second try of the last round fails only after an error.
LEMMA KnowsFinalize == ASSUME EngineInv, LoopKnows, Finalize PROVE LoopKnows'
  <1>1. /\ Typed /\ pc \in Canceling /\ mem.snap \in Snap /\ faults \in Nat
        /\ Sane(mem.snap) /\ Sane(loadSnapshot(store).snap) /\ Stale
    BY DEF EngineInv, Finalize, Canceling, Typed, Loaded, Snap, LoopKnows, persisted
  <1>2. PICK s : s = CancelRunSnapshot(mem.snap)
    OBVIOUS
  <1>3. Moves(mem.snap, s) /\ Follows(mem.snap, s) /\ s \in Snap
    BY <1>1, <1>2, CancelMoves DEF Moves, Follows
  <1>4. \/ pc' \in {"idle", "failed", "down"} /\ UNCHANGED <<store, mem, fresh, faults>>
        \/ ~s.err /\ Commit(s) /\ pc' = "idle" /\ UNCHANGED faults
        \/ /\ pc' \in {"finalizeAgain", "settleAgain", "settle"} /\ ~fresh
           /\ mem' = loadSnapshot(store) /\ fresh' = TRUE /\ UNCHANGED <<store, faults>>
        \/ ~s.err /\ StorageError(s) /\ pc' = "down"
    BY <1>2 DEF Finalize, persisted
  <1>5. ~s.err => s.err = FALSE /\ Accepted(s)
    BY <1>3 DEF Snap, Snapshot, Accepted
  <1>6. ~s.err => Sane(s)
    BY <1>1, <1>2, <1>5, CancelSane
  <1>7. Saved(s) \in Loaded /\ Saved(s).snap = s
    BY <1>1, <1>3, SavedType
  <1>8. ~s.err /\ fresh => /\ applyChangeSet(store, Change(s)) = insertSnapshot(Saved(s))
                           /\ loadSnapshot(insertSnapshot(Saved(s))) = Saved(s)
    BY <1>1, <1>3, <1>5, <1>7, WriteRows, LoadInserted
  <1>9. CASE pc' \in {"idle", "failed", "down"} /\ UNCHANGED <<store, mem, fresh, faults>>
    <2>1. Stale'
      BY <1>1, <1>9, StaleQuiet DEF Executing
    <2> QED BY <1>9, <2>1, KnowsQuiet
  <1>10. CASE ~s.err /\ Commit(s) /\ pc' = "idle" /\ UNCHANGED faults
    <2>1. fresh' = TRUE /\ mem'.snap = s /\ loadSnapshot(store').snap = s
      BY <1>7, <1>8, <1>10 DEF Commit
    <2>2. Sane(mem'.snap) /\ Sane(loadSnapshot(store').snap)
      BY <1>6, <1>10, <2>1
    <2>3. Stale'
      BY <1>10, <2>1 DEF Stale
    <2> QED BY <1>10, <2>2, <2>3, KnowsNext
  <1>11. CASE /\ pc' \in {"finalizeAgain", "settleAgain", "settle"} /\ ~fresh
              /\ mem' = loadSnapshot(store) /\ fresh' = TRUE /\ UNCHANGED <<store, faults>>
    <2>1. Stale'
      BY <1>1, <1>11 DEF Stale
    <2> QED BY <1>1, <1>11, <2>1, KnowsNext
  <1>12. CASE ~s.err /\ StorageError(s) /\ pc' = "down"
    <2>1. /\ mem' = mem
          /\ \/ store' = store /\ fresh' = fresh /\ faults' \in {faults, faults + 1}
             \/ /\ fresh' = FALSE /\ faults' = faults + 1 /\ loadSnapshot(store').snap = s
      BY <1>7, <1>8, <1>12 DEF StorageError
    <2>2. Sane(mem'.snap) /\ Sane(loadSnapshot(store').snap)
      BY <1>1, <1>6, <1>12, <2>1
    <2>3. Stale'
      BY <1>1, <1>12, <2>1 DEF Stale, Executing
    <2> QED BY <1>12, <2>2, <2>3, KnowsNext
  <1> QED BY <1>4, <1>9, <1>10, <1>11, <1>12

\* Engine.Cancel of a Run nobody executes.
LEMMA KnowsCancelIdle == ASSUME EngineInv, LoopKnows, CancelIdle PROVE LoopKnows'
  <1>1. /\ Kept(store) /\ pc = "idle" /\ UNCHANGED <<mem, fresh, pc, stop, work, faults>>
        /\ Sane(mem.snap) /\ Stale
    BY DEF EngineInv, CancelIdle, LoopKnows
  <1>2. PICK x : x = persisted
    OBVIOUS
  <1>3. x \in Loaded /\ store = insertSnapshot(x) /\ x.snap \in Snap
    BY <1>1, <1>2 DEF Kept, persisted, Loaded, Snap
  <1>4. PICK s : s = CancelRunSnapshot(x.snap)
    OBVIOUS
  <1>5. Follows(x.snap, s) /\ s \in Snap
    BY <1>3, <1>4, CancelMoves DEF Moves, Follows
  <1>6. PICK y : y = [x EXCEPT !.snap = s]
    OBVIOUS
  <1>7. y \in Loaded /\ y.snap = s /\ y.cancel = x.cancel
    BY <1>3, <1>5, <1>6 DEF Loaded, Snap
  <1>8. y = canceledRun
    BY <1>2, <1>4, <1>6 DEF canceledRun
  <1>9. s.err = FALSE /\ Accepted(s)
    BY <1>5, <1>7, <1>8 DEF CancelIdle, Snap, Snapshot, Accepted
  <1>10. store' = applyChangeSet(store, changeSetFromSnapshots(x, y))
    BY <1>2, <1>8 DEF CancelIdle
  <1>11. store' = insertSnapshot(y)
    BY <1>3, <1>5, <1>7, <1>10, ChangeApplied
  <1>12. loadSnapshot(store').snap = s
    BY <1>7, <1>9, <1>11, LoadInserted
  <1>13. Sane(s)
    BY <1>3, <1>4, <1>9, CancelSane
  <1>14. store'.run.cancel = store.run.cancel
    BY <1>3, <1>7, <1>11 DEF insertSnapshot, RunRow
  <1>15. Stale'
    BY <1>1, <1>14 DEF Stale, Executing
  <1> QED BY <1>1, <1>12, <1>13, <1>15, KnowsNext

\* RequestCancel of the store.
LEMMA KnowsRequestCancel == ASSUME EngineInv, LoopKnows, RequestCancel PROVE LoopKnows'
  <1>1. /\ Typed /\ Kept(store) /\ ~store.run.cancel
        /\ fresh' = FALSE /\ store' = [store EXCEPT !.run.cancel = TRUE]
        /\ UNCHANGED <<mem, pc, stop, work, faults>>
        /\ Sane(mem.snap) /\ Sane(loadSnapshot(store).snap) /\ Stale
    BY DEF EngineInv, RequestCancel, LoopKnows, persisted
  <1>2. PICK x : x = loadSnapshot(store)
    OBVIOUS
  <1>3. x \in Loaded /\ x.snap.err = FALSE /\ store = insertSnapshot(x)
    BY <1>1, <1>2 DEF Kept
  <1>4. PICK y : y = [x EXCEPT !.cancel = TRUE]
    OBVIOUS
  <1>5. y \in Loaded /\ y.snap = x.snap /\ y.cancel = TRUE
    BY <1>3, <1>4 DEF Loaded
  <1>6. store' = insertSnapshot(y)
    BY <1>1, <1>3, <1>5 DEF insertSnapshot, RunRow
  <1>7. loadSnapshot(store').snap = x.snap
    BY <1>3, <1>5, <1>6, LoadInserted
  <1>8. store'.run.cancel = TRUE /\ store'.run.status = store.run.status
    BY <1>3, <1>5, <1>6 DEF insertSnapshot, RunRow
  <1>9. Stale'
    BY <1>1, <1>8 DEF Stale
  <1>10. pc' = "execute" => store'.run.status = "pending"
    BY <1>1, <1>8 DEF LoopKnows
  <1>11. pc' = "enter" => \A t \in Task : mem'.snap.task[t] # "running"
    BY <1>1 DEF LoopKnows
  <1>12. pc' \in {"start", "loop"} => Tracks(mem'.snap, work')
    BY <1>1 DEF LoopKnows, InLoop
  <1>13. Sane(mem'.snap) /\ Sane(loadSnapshot(store').snap)
    BY <1>1, <1>2, <1>7
  <1> QED BY <1>9, <1>10, <1>11, <1>12, <1>13, KnowsNext

\* Signals, crashes, restarts and stuttering.
LEMMA KnowsAround ==
    ASSUME EngineInv, LoopKnows,
           CancelActive \/ Shutdown \/ Crash \/ Restart \/ UNCHANGED vars
    PROVE  LoopKnows'
  <1>1. Typed /\ UNCHANGED <<store, mem, fresh>> /\ faults \in Nat
    BY DEF EngineInv, Typed, CancelActive, Shutdown, Crash, Restart, vars
  <1>2. faults' \in {faults, faults + 1}
    BY DEF CancelActive, Shutdown, Crash, Restart, vars
  <1>3. (pc' = pc /\ work' = work) \/ pc' \in {"down", "idle"}
    BY DEF CancelActive, Shutdown, Crash, Restart, vars
  <1>4. Stale'
    BY <1>1, <1>2, <1>3, StaleQuiet DEF Executing
  <1>5. pc' = "execute" => store.run.status = "pending"
    BY <1>3 DEF LoopKnows
  <1>6. pc' \in {"start", "loop"} => Tracks(mem.snap, work')
    BY <1>3 DEF LoopKnows, InLoop
  <1> QED BY <1>1, <1>3, <1>4, <1>5, <1>6, KnowsQuiet

\* Every step.
LEMMA KnowsStep == ASSUME EngineInv, LoopKnows, [Next]_vars PROVE LoopKnows'
  <1>1. CASE Begin
    BY <1>1, KnowsBegin
  <1>2. CASE LoadRun
    BY <1>2, KnowsLoad
  <1>3. CASE Prepare
    BY <1>3, KnowsPrepare
  <1>4. CASE Enter
    BY <1>4, KnowsEnter
  <1>5. CASE StartTask
    BY <1>5, KnowsStartTask
  <1>6. CASE AllStarted
    BY <1>6, KnowsAllStarted
  <1>7. CASE StopNoticed
    BY <1>7, KnowsStopNoticed
  <1>8. CASE \E key \in work.timers : TimedOut(key)
    BY <1>8, KnowsTimedOut
  <1>9. CASE \E timer \in work.retries : RetryFired(timer)
    BY <1>9, KnowsRetryFired
  <1>10. CASE Leave
    BY <1>10, KnowsLeave
  <1>11. CASE Finalize
    BY <1>11, KnowsFinalize
  <1>12. CASE \E key \in work.executors, kind \in ExecutionKind : Completion(key, kind)
    BY <1>12, KnowsCompletion
  <1>13. CASE CancelIdle
    BY <1>13, KnowsCancelIdle
  <1>14. CASE RequestCancel
    BY <1>14, KnowsRequestCancel
  <1>15. CASE CancelActive \/ Shutdown \/ Crash \/ Restart \/ UNCHANGED vars
    BY <1>15, KnowsAround
  <1> QED BY <1>1, <1>2, <1>3, <1>4, <1>5, <1>6, <1>7, <1>8, <1>9, <1>10, <1>11, <1>12,
             <1>13, <1>14, <1>15 DEF Next, Step

(* The loop's active attempts are the running ones of its snapshot, every    *)
(* waiting task has its timer, the concurrency is kept, and only a recorded  *)
(* cancellation makes the copy of an executing goroutine old.                *)
THEOREM EngineLoop == Spec => []LoopInv
  <1>1. Init => EngineInv /\ LoopKnows
    BY InitHolds, KnowsInit
  <1>2. EngineInv /\ LoopKnows /\ [Next]_vars => (EngineInv /\ LoopKnows)'
    BY NextStep, StutterStep, KnowsStep
  <1>3. EngineInv /\ LoopKnows => LoopInv
    BY DEF LoopKnows, Tracks, Stale, LoopInv, Executing
  <1> QED BY <1>1, <1>2, <1>3, PTL DEF Spec

-----------------------------------------------------------------------------
(* Runs that differ in their counters only.                                  *)

Alike(s, v) ==
    /\ s \in Snap /\ v \in Snap
    /\ s.status = v.status /\ s.task = v.task /\ s.attempts = v.attempts
    /\ s.readyAt = v.readyAt /\ s.err = v.err

\* Both are refused.
LEMMA AlikeReject ==
    ASSUME NEW s, NEW v, Alike(s, v)
    PROVE  Alike(Reject(s), Reject(v)) /\ Reject(s).remaining = s.remaining
  BY DEF Alike, Reject, Snap, Snapshot

\* The operations but the success of a task do not read the counters.
LEMMA AlikeTasks ==
    ASSUME NEW s, NEW v, Alike(s, v), NEW T \in SUBSET Task, NEW to \in TaskStatus
    PROVE  /\ Alike(transitionTasks(s, T, to), transitionTasks(v, T, to))
           /\ transitionTasks(s, T, to).remaining = s.remaining
  <1>1. s.task = v.task /\ s.readyAt = v.readyAt /\ s \in Snap /\ v \in Snap
    BY DEF Alike
  <1>2. CASE ~\A t \in T : to \in taskTransitions(s.task[t])
    BY <1>1, <1>2, AlikeReject DEF transitionTasks
  <1>3. CASE \A t \in T : to \in taskTransitions(s.task[t])
    <2> DEFINE tt == [t \in Task |-> IF t \in T THEN to ELSE s.task[t]]
               rr == [t \in Task |-> IF t \in T THEN 0 ELSE s.readyAt[t]]
    <2>1. tt \in [Task -> TaskStatus] /\ rr \in [Task -> Int]
      BY <1>1 DEF Snap, Snapshot
    <2>2. /\ transitionTasks(s, T, to) = [s EXCEPT !.task = tt, !.readyAt = rr]
          /\ transitionTasks(v, T, to) = [v EXCEPT !.task = tt, !.readyAt = rr]
      BY <1>1, <1>3 DEF transitionTasks
    <2> HIDE DEF tt, rr
    <2> QED BY <2>1, <2>2 DEF Alike, Snap, Snapshot
  <1> QED BY <1>2, <1>3

\* transitionAttempt.
LEMMA AlikeAttempts ==
    ASSUME NEW s, NEW v, Alike(s, v), NEW T \in SUBSET Task,
           NEW outcome \in [T -> AttemptStatus \ {"running"}]
    PROVE  /\ Alike(transitionAttempts(s, T, outcome), transitionAttempts(v, T, outcome))
           /\ transitionAttempts(s, T, outcome).remaining = s.remaining
  <1>1. s.attempts = v.attempts /\ s \in Snap /\ v \in Snap
    BY DEF Alike
  <1>2. transitionAttempts(s, T, outcome) \in Snap /\ transitionAttempts(v, T, outcome) \in Snap
    BY <1>1, AttemptsSteady, SteadyType
  <1>3. CASE ~\A t \in T : /\ s.attempts[t] # <<>>
                           /\ outcome[t] \in attemptTransitions(
                                s.attempts[t][Len(s.attempts[t])].status)
    BY <1>1, <1>3, AlikeReject DEF transitionAttempts
  <1>4. CASE \A t \in T : /\ s.attempts[t] # <<>>
                          /\ outcome[t] \in attemptTransitions(
                               s.attempts[t][Len(s.attempts[t])].status)
    <2> DEFINE aa == [t \in Task |->
                        IF t \in T
                        THEN [s.attempts[t] EXCEPT ![Len(s.attempts[t])].status = outcome[t]]
                        ELSE s.attempts[t]]
    <2>1. /\ transitionAttempts(s, T, outcome) = [s EXCEPT !.attempts = aa]
          /\ transitionAttempts(v, T, outcome) = [v EXCEPT !.attempts = aa]
      BY <1>1, <1>4 DEF transitionAttempts
    <2> HIDE DEF aa
    <2> QED BY <1>2, <2>1 DEF Alike, Snap, Snapshot
  <1> QED BY <1>3, <1>4

\* transitionWorkflow.
LEMMA AlikeWorkflow ==
    ASSUME NEW s, NEW v, Alike(s, v), NEW to \in WorkflowStatus
    PROVE  /\ Alike(transitionWorkflow(s, to), transitionWorkflow(v, to))
           /\ transitionWorkflow(s, to).remaining = s.remaining
  <1>1. CASE to \notin workflowTransitions(s.status)
    BY <1>1, AlikeReject DEF transitionWorkflow, Alike
  <1>2. CASE to \in workflowTransitions(s.status)
    BY <1>2 DEF transitionWorkflow, Alike, Snap, Snapshot
  <1> QED BY <1>1, <1>2

\* settleWorkflowIfComplete.
LEMMA AlikeSettle ==
    ASSUME NEW s, NEW v, Alike(s, v)
    PROVE  /\ Alike(settleWorkflowIfComplete(s), settleWorkflowIfComplete(v))
           /\ settleWorkflowIfComplete(s).remaining = s.remaining
  <1>1. s.task = v.task /\ "failed" \in WorkflowStatus /\ "succeeded" \in WorkflowStatus
    BY DEF Alike, WorkflowStatus
  <1>2. \/ settleWorkflowIfComplete(s) = s /\ settleWorkflowIfComplete(v) = v
        \/ /\ settleWorkflowIfComplete(s) = transitionWorkflow(s, "failed")
           /\ settleWorkflowIfComplete(v) = transitionWorkflow(v, "failed")
        \/ /\ settleWorkflowIfComplete(s) = transitionWorkflow(s, "succeeded")
           /\ settleWorkflowIfComplete(v) = transitionWorkflow(v, "succeeded")
        \/ /\ settleWorkflowIfComplete(s) = Reject(s)
           /\ settleWorkflowIfComplete(v) = Reject(v)
    BY <1>1 DEF settleWorkflowIfComplete
  <1> QED BY <1>1, <1>2, AlikeWorkflow, AlikeReject

\* skipDescendantsFrom.
LEMMA AlikeSkip ==
    ASSUME NEW s, NEW v, Alike(s, v), NEW F
    PROVE  /\ Alike(skipDescendantsFrom(s, F), skipDescendantsFrom(v, F))
           /\ skipDescendantsFrom(s, F).remaining = s.remaining
  <1> DEFINE T == {u \in Task : /\ \E f \in F : u \in Descendants[f]
                                /\ s.task[u] \notin TaskTerminal}
  <1>1. /\ T \in SUBSET Task /\ "skipped" \in TaskStatus
        /\ skipDescendantsFrom(s, F) = transitionTasks(s, T, "skipped")
        /\ skipDescendantsFrom(v, F) = transitionTasks(v, T, "skipped")
    BY DEF skipDescendantsFrom, Alike, TaskStatus
  <1> HIDE DEF T
  <1> QED BY <1>1, AlikeTasks

\* Retries and failures.
LEMMA AlikeDecided ==
    ASSUME NEW s, NEW v, Alike(s, v), NEW T \in SUBSET Task, NEW again \in SUBSET T,
           NEW at \in [Task -> Int]
    PROVE  /\ Alike(Decided(s, T, again, at), Decided(v, T, again, at))
           /\ Decided(s, T, again, at).remaining = s.remaining
  <1> DEFINE a == transitionTasks(s, again, "waiting_retry")
             b == transitionTasks(v, again, "waiting_retry")
             f == [t \in Task |-> IF t \in again THEN at[t] ELSE a.readyAt[t]]
             c == [a EXCEPT !.readyAt = f]
             d == [b EXCEPT !.readyAt = f]
  <1>1. /\ again \in SUBSET Task /\ T \ again \in SUBSET Task
        /\ "waiting_retry" \in TaskStatus /\ "failed" \in TaskStatus
    BY DEF TaskStatus
  <1>2. Alike(a, b) /\ a.remaining = s.remaining
    BY <1>1, AlikeTasks
  <1>3. a.readyAt = b.readyAt
    BY <1>2 DEF Alike
  <1>4. /\ Decided(s, T, again, at) = transitionTasks(c, T \ again, "failed")
        /\ Decided(v, T, again, at) = transitionTasks(d, T \ again, "failed")
    BY <1>3 DEF Decided
  <1> HIDE DEF a, b
  <1>5. f \in [Task -> Int]
    BY <1>2 DEF Alike, Snap, Snapshot
  <1> HIDE DEF f
  <1>6. Alike(c, d) /\ c.remaining = s.remaining
    BY <1>2, <1>5 DEF Alike, Snap, Snapshot
  <1> HIDE DEF c, d
  <1> QED BY <1>1, <1>4, <1>6, AlikeTasks

\* EndAttempts.
LEMMA AlikeEndAttempts ==
    ASSUME NEW s, NEW v, Alike(s, v), NEW T \in SUBSET Task,
           NEW outcome \in [T -> AttemptStatus \ {"running"}], NEW at \in Int
    PROVE  /\ Alike(EndAttempts(s, T, outcome, at), EndAttempts(v, T, outcome, at))
           /\ EndAttempts(s, T, outcome, at).remaining = s.remaining
  <1> DEFINE a == transitionAttempts(s, T, outcome)
             b == transitionAttempts(v, T, outcome)
             again == RetriesLeft(a, T)
             f == [t \in Task |-> at + RetryInterval[t]]
             c == Decided(a, T, again, f)
             d == Decided(b, T, again, f)
  <1>1. Alike(a, b) /\ a.remaining = s.remaining
    BY AlikeAttempts
  <1>2. RetriesLeft(b, T) = again /\ again \in SUBSET T
    BY <1>1 DEF Alike, RetriesLeft
  <1>3. /\ EndAttempts(s, T, outcome, at)
             = settleWorkflowIfComplete(skipDescendantsFrom(c, T \ again))
        /\ EndAttempts(v, T, outcome, at)
             = settleWorkflowIfComplete(skipDescendantsFrom(d, T \ again))
    BY <1>2 DEF EndAttempts, applyRetryDecision, Decided
  <1>4. f \in [Task -> Int]
    BY DefinitionAssumption
  <1> HIDE DEF a, b, again, f
  <1>5. Alike(c, d) /\ c.remaining = s.remaining
    BY <1>1, <1>2, <1>4, AlikeDecided
  <1> HIDE DEF c, d
  <1>6. /\ Alike(skipDescendantsFrom(c, T \ again), skipDescendantsFrom(d, T \ again))
        /\ skipDescendantsFrom(c, T \ again).remaining = s.remaining
    BY <1>5, AlikeSkip
  <1> QED BY <1>3, <1>6, AlikeSettle

\* failPermanently.
LEMMA AlikeFailPermanently ==
    ASSUME NEW s, NEW v, Alike(s, v), NEW t \in Task
    PROVE  /\ Alike(failPermanently(s, t), failPermanently(v, t))
           /\ failPermanently(s, t).remaining = s.remaining
  <1> DEFINE outcome == [x \in {t} |-> "failed"]
             a == transitionAttempts(s, {t}, outcome)
             b == transitionAttempts(v, {t}, outcome)
             c == transitionTasks(a, {t}, "failed")
             d == transitionTasks(b, {t}, "failed")
  <1>1. /\ outcome \in [{t} -> AttemptStatus \ {"running"}] /\ {t} \in SUBSET Task
        /\ "failed" \in TaskStatus
    BY DEF AttemptStatus, TaskStatus
  <1>2. /\ failPermanently(s, t) = settleWorkflowIfComplete(skipDescendantsFrom(c, {t}))
        /\ failPermanently(v, t) = settleWorkflowIfComplete(skipDescendantsFrom(d, {t}))
    BY DEF failPermanently
  <1> HIDE DEF outcome
  <1>3. Alike(a, b) /\ a.remaining = s.remaining
    BY <1>1, AlikeAttempts
  <1> HIDE DEF a, b
  <1>4. Alike(c, d) /\ c.remaining = s.remaining
    BY <1>1, <1>3, AlikeTasks
  <1> HIDE DEF c, d
  <1>5. /\ Alike(skipDescendantsFrom(c, {t}), skipDescendantsFrom(d, {t}))
        /\ skipDescendantsFrom(c, {t}).remaining = s.remaining
    BY <1>4, AlikeSkip
  <1> QED BY <1>2, <1>5, AlikeSettle

\* prepareTask.
LEMMA AlikePrepareTask ==
    ASSUME NEW s, NEW v, Alike(s, v), NEW t \in Task
    PROVE  /\ Alike(prepareTask(s, t), prepareTask(v, t))
           /\ prepareTask(s, t).remaining = s.remaining
  <1> DEFINE owner == [x \in {t} |-> Local]
             a == transitionTasks(s, {t}, "running")
             b == transitionTasks(v, {t}, "running")
             aa == [x \in Task |-> IF x \in {t}
                                   THEN Append(s.attempts[x], [status |-> "running", owner |-> owner[x]])
                                   ELSE s.attempts[x]]
  <1>1. Alike(a, b) /\ a.remaining = s.remaining
    BY AlikeTasks DEF TaskStatus
  <1>2. /\ prepareTask(s, t) = [a EXCEPT !.attempts = aa]
        /\ prepareTask(v, t) = [b EXCEPT !.attempts = aa]
    BY DEF Alike, prepareTask, StartQueuedAttempts
  <1>3. prepareTask(s, t) \in Snap /\ prepareTask(v, t) \in Snap
    <2>1. s \in Snap /\ v \in Snap
      BY DEF Alike
    <2>2. Follows(s, prepareTask(s, t)) /\ Follows(v, prepareTask(v, t))
      BY <2>1, StartFollows
    <2> QED BY <2>2 DEF Follows
  <1> HIDE DEF a, b, aa
  <1> QED BY <1>1, <1>2, <1>3 DEF Alike, Snap, Snapshot

\* CancelRunSnapshot.
LEMMA AlikeCancel ==
    ASSUME NEW s, NEW v, Alike(s, v)
    PROVE  /\ Alike(CancelRunSnapshot(s), CancelRunSnapshot(v))
           /\ CancelRunSnapshot(s).remaining = s.remaining
  <1> DEFINE open == {t \in Task : s.task[t] \notin TaskTerminal}
             running == {t \in open : /\ s.task[t] = "running"
                                      /\ s.attempts[t] # <<>>
                                      /\ s.attempts[t][Len(s.attempts[t])].status = "running"}
             outcome == [t \in running |-> "canceled"]
             a == transitionAttempts(s, running, outcome)
             b == transitionAttempts(v, running, outcome)
             c == transitionTasks(a, open, "canceled")
             d == transitionTasks(b, open, "canceled")
  <1>1. /\ CancelRunSnapshot(s) = transitionWorkflow(c, "canceled")
        /\ CancelRunSnapshot(v) = transitionWorkflow(d, "canceled")
    BY DEF CancelRunSnapshot, Alike
  <1>2. /\ outcome \in [running -> AttemptStatus \ {"running"}] /\ running \in SUBSET Task
        /\ open \in SUBSET Task /\ "canceled" \in TaskStatus /\ "canceled" \in WorkflowStatus
    BY DEF AttemptStatus, TaskStatus, WorkflowStatus
  <1> HIDE DEF open, running, outcome
  <1>3. Alike(a, b) /\ a.remaining = s.remaining
    BY <1>2, AlikeAttempts
  <1> HIDE DEF a, b
  <1>4. Alike(c, d) /\ c.remaining = s.remaining
    BY <1>2, <1>3, AlikeTasks
  <1> HIDE DEF c, d
  <1> QED BY <1>1, <1>2, <1>4, AlikeWorkflow

-----------------------------------------------------------------------------
(* What every Run the Engine stores satisfies.                               *)

\* Counters of tasks that have not ended are exact; a Resume loses others.
Counted(s) ==
    \A t \in Task : s.task[t] \notin TaskTerminal => s.remaining[t] = Cardinality(Unsucceeded(s, t))

(* The verdict is right.  An open Run may have ended all its tasks: a Resume *)
(* leaves it to the loop to settle it.                                       *)
Verdict(s) ==
    /\ s.status # "canceled" => \A t \in Task : s.task[t] # "canceled"
    /\ s.status = "pending" => \A t \in Task : s.task[t] \in {"waiting_dependencies", "ready"}
    /\ s.status = "succeeded" => \A t \in Task : s.task[t] = "succeeded"
    /\ s.status = "failed" => \E t \in Task : s.task[t] = "failed"
    /\ s.status \in WorkflowTerminal => \A t \in Task : s.task[t] \in TaskTerminal

Usable(s) ==
    /\ s \in Snap /\ s.err = FALSE
    /\ DependencyOrder(s)
    /\ AttemptHistory(s)
    /\ Counted(s)
    /\ Verdict(s)
    /\ \A t \in Task : s.task[t] # "queued"

\* The Run with the counters it should have.
Recounted(s) ==
    [s EXCEPT !.remaining = [t \in Task |-> Cardinality(Unsucceeded(s, t))]]

\* What a task waits for is finite.
LEMMA UnsucceededCount ==
    ASSUME NEW s, NEW t \in Task PROVE Cardinality(Unsucceeded(s, t)) \in Nat
  <1>1. Unsucceeded(s, t) \subseteq Task
    BY DefinitionAssumption DEF Unsucceeded
  <1>2. IsFiniteSet(Task)
    BY DefinitionAssumption, FS_Interval DEF Task
  <1> QED BY <1>1, <1>2, FS_Subset, FS_CardinalityType

\* Recounting changes the counters only.
LEMMA RecountedAlike ==
    ASSUME NEW s \in Snap
    PROVE  /\ Alike(s, Recounted(s))
           /\ \A t \in Task : Recounted(s).remaining[t] = Cardinality(Unsucceeded(s, t))
  <1> DEFINE r == [t \in Task |-> Cardinality(Unsucceeded(s, t))]
  <1>1. r \in [Task -> Int]
    BY UnsucceededCount
  <1>2. Recounted(s) = [s EXCEPT !.remaining = r]
    BY DEF Recounted
  <1>3. \A t \in Task : r[t] = Cardinality(Unsucceeded(s, t))
    OBVIOUS
  <1> HIDE DEF r
  <1> QED BY <1>1, <1>2, <1>3 DEF Alike, Snap, Snapshot

\* Alike Runs have the same unsucceeded dependencies, order and history.
LEMMA AlikeFacts ==
    ASSUME NEW s, NEW v, Alike(s, v)
    PROVE  /\ \A t \in Task : Unsucceeded(s, t) = Unsucceeded(v, t)
           /\ DependencyOrder(s) <=> DependencyOrder(v)
           /\ AttemptHistory(s) <=> AttemptHistory(v)
  <1>1. s.task = v.task /\ s.attempts = v.attempts
    BY DEF Alike
  <1>2. \A t \in Task : Unsucceeded(s, t) = Unsucceeded(v, t)
    BY <1>1 DEF Unsucceeded
  <1>3. DependencyOrder(s) <=> DependencyOrder(v)
    BY <1>1, <1>2 DEF DependencyOrder
  <1>4. AttemptHistory(s) <=> AttemptHistory(v)
    BY <1>1 DEF AttemptHistory
  <1> QED BY <1>2, <1>3, <1>4

\* An open Run with an open task is sound once it is recounted.
LEMMA RecountedSound ==
    ASSUME NEW s, Usable(s), s.status \notin WorkflowTerminal,
           NEW t \in Task, s.task[t] \notin TaskTerminal
    PROVE  Sound(Recounted(s), {Local})
  <1>1. s \in Snap /\ s.err = FALSE /\ Verdict(s)
    BY DEF Usable
  <1>2. PICK v : v = Recounted(s)
    OBVIOUS
  <1>3. Alike(s, v) /\ \A x \in Task : v.remaining[x] = Cardinality(Unsucceeded(s, x))
    BY <1>1, <1>2, RecountedAlike
  <1>4. /\ \A x \in Task : Unsucceeded(s, x) = Unsucceeded(v, x)
        /\ DependencyOrder(v) /\ AttemptHistory(v)
    BY <1>3, AlikeFacts DEF Usable
  <1>5. RemainingExact(v)
    BY <1>3, <1>4 DEF RemainingExact
  <1>6. s.status \in {"pending", "running"}
    BY <1>1 DEF Snap, Snapshot, WorkflowStatus, WorkflowTerminal
  <1>7. v.status = s.status /\ v.task = s.task /\ v.err = FALSE /\ v \in Snapshot({Local})
    BY <1>1, <1>3 DEF Alike, Snap
  <1>8. StatusAgrees(v)
    BY <1>1, <1>6, <1>7 DEF StatusAgrees, Verdict
  <1> QED BY <1>2, <1>4, <1>5, <1>7, <1>8 DEF Sound, SnapshotInv

\* A Run like a sound one is usable if its open tasks are counted and none is queued.
LEMMA LikeSound ==
    ASSUME NEW s, NEW v, Alike(s, v), Sound(v, {Local}), Counted(s),
           \A t \in Task : v.task[t] # "queued"
    PROVE  Usable(s)
  <1>1. DependencyOrder(s) /\ AttemptHistory(s)
    BY AlikeFacts DEF Sound, SnapshotInv
  <1>2. s \in Snap /\ s.err = FALSE /\ s.status = v.status /\ s.task = v.task
    BY DEF Alike, Sound, SnapshotInv
  <1>3. s.status \in WorkflowStatus /\ StatusAgrees(v)
    BY <1>2 DEF Snap, Snapshot, Sound, SnapshotInv
  <1>4. Verdict(s)
    BY <1>2, <1>3 DEF StatusAgrees, Verdict, WorkflowStatus, WorkflowTerminal, TaskTerminal
  <1> QED BY <1>1, <1>2, <1>4 DEF Usable

\* Without a success the counters stay right.
LEMMA CountedStays ==
    ASSUME NEW s \in Snap, Counted(s), NEW u, u.remaining = s.remaining,
           \A t \in Task : s.task[t] \in TaskTerminal => u.task[t] = s.task[t],
           \A t \in Task : u.task[t] = "succeeded" => s.task[t] = "succeeded"
    PROVE  Counted(u)
  <1>1. \A t \in Task : Unsucceeded(u, t) = Unsucceeded(s, t)
    BY DefinitionAssumption DEF Unsucceeded, TaskTerminal
  <1> QED BY <1>1 DEF Counted

\* A success that is accepted releases what it should: a task that has ended is not released.
LEMMA SucceedAlike ==
    ASSUME NEW s \in Snap, Counted(s), NEW t \in Task, s.task[t] = "running",
           NEW v, v = Recounted(s),
           Accepted(succeed(s, t)), Accepted(succeed(v, t))
    PROVE  /\ Alike(succeed(s, t), succeed(v, t))
           /\ \A x \in Task : s.task[x] \notin TaskTerminal =>
                 succeed(s, t).remaining[x] = succeed(v, t).remaining[x]
  <1> DEFINE outcome == [x \in {t} |-> "succeeded"]
             ended(z) == transitionAttempts(z, {t}, outcome)
             done(z) == transitionTasks(ended(z), {t}, "succeeded")
             f(z) == [u \in Task |-> IF u \in Successors(t) THEN z.remaining[u] - 1
                                     ELSE z.remaining[u]]
             counted(z) == [done(z) EXCEPT !.remaining = f(z)]
             R(z) == Released(counted(z), Successors(t))
             released(z) == transitionTasks(counted(z), R(z), "ready")
  <1>1. /\ Alike(s, v)
        /\ \A x \in Task : s.task[x] \notin TaskTerminal => s.remaining[x] = v.remaining[x]
    BY RecountedAlike DEF Counted
  <1>2. /\ outcome \in [{t} -> AttemptStatus \ {"running"}] /\ {t} \in SUBSET Task
        /\ "succeeded" \in TaskStatus /\ "ready" \in TaskStatus
    BY DEF AttemptStatus, TaskStatus
  <1>3. /\ succeed(s, t) = Reject(counted(s)) \/ succeed(s, t) = settleWorkflowIfComplete(released(s))
        /\ succeed(v, t) = Reject(counted(v)) \/ succeed(v, t) = settleWorkflowIfComplete(released(v))
    BY DEF succeed
  <1>4. f(s) \in [Task -> Int] /\ f(v) \in [Task -> Int]
    BY <1>1 DEF Alike, Snap, Snapshot
  <1>5. \A x \in Task : s.task[x] \notin TaskTerminal => f(s)[x] = f(v)[x]
    BY <1>1
  <1> HIDE DEF outcome, f
  <1>6. Alike(ended(s), ended(v))
    BY <1>1, <1>2, AlikeAttempts
  <1>7. ended(s).task = s.task
    BY <1>2, CalmAttempts
  <1> HIDE DEF ended
  <1>8. Alike(done(s), done(v))
    BY <1>2, <1>6, AlikeTasks
  <1>9. ended(s) \in Snap /\ Steady(ended(s), done(s))
    BY <1>2, <1>6, TasksSteady DEF Alike
  <1>10. \A x \in Task : s.task[x] \in TaskTerminal => done(s).task[x] \in TaskTerminal
    BY <1>7, <1>9 DEF Steady, Moves, Follows
  <1> HIDE DEF done
  <1>11. /\ Alike(counted(s), counted(v)) /\ counted(s).task = done(s).task
         /\ counted(s).remaining = f(s) /\ counted(v).remaining = f(v)
    BY <1>4, <1>8 DEF Alike, Snap, Snapshot
  <1> HIDE DEF counted
  <1>12. counted(s) \in Snap /\ counted(v) \in Snap /\ counted(s).task = counted(v).task
    BY <1>11 DEF Alike
  <1>13. /\ succeed(s, t) = settleWorkflowIfComplete(released(s))
         /\ succeed(v, t) = settleWorkflowIfComplete(released(v))
    BY <1>3, <1>12, CalmReject
  <1>14. R(s) \in SUBSET Task /\ R(v) \in SUBSET Task
    BY DEF Released, Successors
  <1>15. released(s) \in Snap /\ released(v) \in Snap
    BY <1>2, <1>12, <1>14, TasksSteady, SteadyType
  <1>16. Accepted(released(s)) /\ Accepted(released(v))
    <2>1. PICK a : a = released(s)
      OBVIOUS
    <2>2. PICK b : b = released(v)
      OBVIOUS
    <2>3. a \in Snap /\ b \in Snap
      BY <1>15, <2>1, <2>2
    <2>4. Accepted(settleWorkflowIfComplete(a)) /\ Accepted(settleWorkflowIfComplete(b))
      BY <1>13, <2>1, <2>2
    <2>5. Accepted(a) /\ Accepted(b)
      BY <2>3, <2>4, CalmSettle DEF Calm
    <2> QED BY <2>1, <2>2, <2>5
  <1>17. /\ \A x \in R(s) : counted(s).task[x] \notin TaskTerminal
         /\ \A x \in R(v) : counted(s).task[x] \notin TaskTerminal
    <2>1. /\ \A x \in R(s) : "ready" \in taskTransitions(counted(s).task[x])
          /\ \A x \in R(v) : "ready" \in taskTransitions(counted(s).task[x])
      BY <1>12, <1>16, CalmReject DEF transitionTasks
    <2> QED BY <2>1 DEF taskTransitions, TaskTerminal
  <1>18. R(s) = R(v)
    <2>1. ASSUME NEW x \in Successors(t), counted(s).task[x] \notin TaskTerminal
          PROVE  x \in R(s) <=> x \in R(v)
      <3>1. x \in Task /\ s.task[x] \notin TaskTerminal
        BY <1>10, <1>11, <2>1 DEF Successors
      <3> QED BY <1>5, <1>11, <2>1, <3>1 DEF Released
    <2>2. R(s) \subseteq Successors(t) /\ R(v) \subseteq Successors(t)
      BY DEF Released
    <2> QED BY <1>17, <2>1, <2>2
  <1> HIDE DEF R
  <1>19. /\ Alike(released(s), released(v))
         /\ released(s).remaining = f(s) /\ released(v).remaining = f(v)
    <2>1. Alike(counted(v), counted(v))
      BY <1>12 DEF Alike
    <2> QED BY <1>2, <1>11, <1>14, <1>18, <2>1, AlikeTasks
  <1> HIDE DEF released
  <1>20. /\ Alike(succeed(s, t), succeed(v, t))
         /\ succeed(s, t).remaining = f(s) /\ succeed(v, t).remaining = f(v)
    <2>1. Alike(released(v), released(v))
      BY <1>15 DEF Alike
    <2> QED BY <1>13, <1>19, <2>1, AlikeSettle
  <1> QED BY <1>5, <1>20

\* Failures and retries.
LEMMA UsableEnded ==
    ASSUME NEW s, Usable(s), NEW T \in SUBSET Task, NEW outcome \in [T -> RetryableEnd],
           NEW v, Alike(s, v), NEW u, NEW w, Alike(u, w), u.remaining = s.remaining,
           Moves(s, u), Sound(w, {Local}), Resolved(v, w, T, outcome),
           \A t \in T : s.task[t] = "running"
    PROVE  Usable(u)
  <1>1. /\ s \in Snap /\ u \in Snap /\ w \in Snap /\ s.task = v.task /\ s.attempts = v.attempts
        /\ u.task = w.task /\ u.attempts = w.attempts /\ Counted(s) /\ AttemptHistory(w)
        /\ AttemptHistory(s)
    BY DEF Usable, Alike, Sound, SnapshotInv
  <1>2. \A t \in Task : w.task[t] # "queued"
    BY <1>1 DEF Resolved, Usable
  <1>3. ASSUME NEW t \in Task, u.task[t] = "succeeded", s.task[t] # "succeeded" PROVE FALSE
    <2>1. t \in T
      BY <1>1, <1>3 DEF Resolved
    <2>2. PICK n : n = Len(s.attempts[t])
      OBVIOUS
    <2>3. n \in Nat /\ n > 0 /\ n = Len(w.attempts[t])
      BY <1>1, <2>1, <2>2, Lengths DEF AttemptHistory, TaskHistory, Resolved, LastEnded
    <2>4. w.attempts[t][n].status = outcome[t]
      BY <1>1, <2>1, <2>2, <2>3 DEF Resolved, LastEnded
    <2>5. w.attempts[t][n].status = "succeeded"
      BY <1>1, <1>3, <2>3 DEF AttemptHistory, TaskHistory
    <2>6. outcome[t] # "succeeded"
      BY <2>1 DEF RetryableEnd
    <2> QED BY <2>4, <2>5, <2>6
  <1>4. \A t \in Task : s.task[t] \in TaskTerminal => u.task[t] = s.task[t]
    BY DEF Moves, Follows
  <1>5. Counted(u)
    BY <1>1, <1>3, <1>4, CountedStays
  <1> QED BY <1>2, <1>5, LikeSound

\* A time-out.
LEMMA UsableTimedOut ==
    ASSUME NEW s, Usable(s), s.status \notin WorkflowTerminal, NEW t \in Task,
           s.task[t] = "running", NEW outcome \in [{t} -> RetryableEnd]
    PROVE  Usable(EndAttempts(s, {t}, outcome, Now))
  <1>1. s \in Snap /\ {t} \in SUBSET Task /\ Now \in Int
    BY DEF Usable, Now
  <1>2. outcome \in [{t} -> AttemptStatus \ {"running"}]
    BY DEF RetryableEnd, AttemptStatus
  <1>3. PICK v : v = Recounted(s)
    OBVIOUS
  <1>4. Sound(v, {Local})
    BY <1>3, RecountedSound DEF TaskTerminal
  <1>5. Alike(s, v)
    BY <1>1, <1>3, RecountedAlike
  <1>6. v.task[t] = "running"
    BY <1>5 DEF Alike
  <1>7. PICK u : u = EndAttempts(s, {t}, outcome, Now)
    OBVIOUS
  <1>8. PICK w : w = EndAttempts(v, {t}, outcome, Now)
    OBVIOUS
  <1>9. Sound(w, {Local}) /\ Resolved(v, w, {t}, outcome)
    BY <1>1, <1>4, <1>6, <1>8, EndAttemptsSound
  <1>10. Alike(u, w) /\ u.remaining = s.remaining
    BY <1>1, <1>2, <1>5, <1>7, <1>8, AlikeEndAttempts
  <1>11. Moves(s, u)
    BY <1>1, <1>2, <1>7, EndAttemptsMoves
  <1>12. Usable(u)
    BY <1>1, <1>5, <1>9, <1>10, <1>11, UsableEnded
  <1> QED BY <1>7, <1>12

\* A result that is accepted.
LEMMA UsableResult ==
    ASSUME NEW s, Usable(s), s.status \notin WorkflowTerminal, NEW t \in Task,
           s.task[t] = "running", NEW kind \in ResultKind,
           NEW u, u = ApplyAttemptResult(s, t, kind, Now), Accepted(u)
    PROVE  Usable(u)
  <1>1. s \in Snap /\ Counted(s) /\ Now \in Int
    BY DEF Usable, Now
  <1>2. PICK v : v = Recounted(s)
    OBVIOUS
  <1>3. Sound(v, {Local})
    BY <1>2, RecountedSound DEF TaskTerminal
  <1>4. Alike(s, v) /\ v.task[t] = "running"
    BY <1>1, <1>2, RecountedAlike DEF Alike
  <1>5. PICK w : w = ApplyAttemptResult(v, t, kind, Now)
    OBVIOUS
  <1>6. Sound(w, {Local}) /\ Resolved(v, w, {t}, EndsAs(t, kind))
    BY <1>1, <1>3, <1>4, <1>5, ApplyAttemptResultSound
  <1>7. Moves(s, u)
    BY <1>1, ResultMoves
  <1>8. CASE kind = "success"
    <2>1. u = succeed(s, t) /\ w = succeed(v, t)
      BY <1>5, <1>8 DEF ApplyAttemptResult
    <2>2. Accepted(succeed(s, t)) /\ Accepted(succeed(v, t))
      BY <1>6, <2>1 DEF Sound, SnapshotInv, Accepted
    <2>3. /\ Alike(u, w)
          /\ \A x \in Task : s.task[x] \notin TaskTerminal => u.remaining[x] = w.remaining[x]
      BY <1>1, <1>2, <2>1, <2>2, SucceedAlike
    <2>4. \A x \in Task : Unsucceeded(u, x) = Unsucceeded(w, x)
      BY <2>3, AlikeFacts
    <2>5. \A x \in Task : s.task[x] \in TaskTerminal => u.task[x] \in TaskTerminal
      BY <1>7 DEF Moves, Follows
    <2>6. Counted(u)
      BY <1>6, <2>3, <2>4, <2>5 DEF Counted, Sound, SnapshotInv, RemainingExact
    <2>7. \A x \in Task : w.task[x] # "queued"
      BY <1>4, <1>6 DEF Resolved, Usable, Alike
    <2> QED BY <1>6, <2>3, <2>6, <2>7, LikeSound
  <1>9. CASE kind # "success"
    <2>1. PICK outcome : outcome = EndsAs(t, kind)
      OBVIOUS
    <2>2. outcome \in [{t} -> RetryableEnd] /\ outcome = [x \in {t} |-> "failed"]
      BY <1>9, <2>1 DEF EndsAs, EndOf, RetryableEnd
    <2>3. outcome \in [{t} -> AttemptStatus \ {"running"}] /\ {t} \in SUBSET Task
      BY <2>2 DEF RetryableEnd, AttemptStatus
    <2>4. Alike(u, w) /\ u.remaining = s.remaining
      <3>1. CASE kind = "temporary_failure"
        <4>1. u = EndAttempts(s, {t}, outcome, Now) /\ w = EndAttempts(v, {t}, outcome, Now)
          BY <1>5, <2>2, <3>1 DEF ApplyAttemptResult
        <4> QED BY <1>1, <1>4, <2>3, <4>1, AlikeEndAttempts
      <3>2. CASE kind = "permanent_failure"
        <4>1. u = failPermanently(s, t) /\ w = failPermanently(v, t)
          BY <1>5, <3>2 DEF ApplyAttemptResult
        <4> QED BY <1>4, <4>1, AlikeFailPermanently
      <3> QED BY <1>9, <3>1, <3>2 DEF ResultKind
    <2>5. Resolved(v, w, {t}, outcome)
      BY <1>6, <2>1
    <2> QED BY <1>4, <1>6, <1>7, <2>2, <2>3, <2>4, <2>5, UsableEnded
  <1> QED BY <1>8, <1>9

\* A retry.
LEMMA UsableRetry ==
    ASSUME NEW s, Usable(s), s.status \notin WorkflowTerminal, NEW t \in Task,
           s.task[t] = "waiting_retry"
    PROVE  Usable(MakeRetryReady(s, t))
  <1>1. s \in Snap /\ Counted(s)
    BY DEF Usable
  <1>2. PICK v : v = Recounted(s)
    OBVIOUS
  <1>3. Sound(v, {Local})
    BY <1>2, RecountedSound DEF TaskTerminal
  <1>4. Alike(s, v) /\ v.task[t] = "waiting_retry"
    BY <1>1, <1>2, RecountedAlike DEF Alike
  <1>5. PICK u : u = MakeRetryReady(s, t)
    OBVIOUS
  <1>6. PICK w : w = MakeRetryReady(v, t)
    OBVIOUS
  <1>7. /\ Sound(w, {Local})
        /\ \A x \in Task : w.task[x] = IF x = t THEN "ready" ELSE v.task[x]
    BY <1>3, <1>4, <1>6, MakeRetryReadySound
  <1>8. Alike(u, w) /\ u.remaining = s.remaining
    BY <1>4, <1>5, <1>6, AlikeTasks DEF MakeRetryReady, TaskStatus
  <1>9. s.task = v.task /\ u.task = w.task
    BY <1>4, <1>8 DEF Alike
  <1>10. \A x \in Task : w.task[x] # "queued"
    BY <1>7, <1>9 DEF Usable
  <1>11. Counted(u)
    <2>1. \A x \in Task : s.task[x] \in TaskTerminal => u.task[x] = s.task[x]
      BY <1>7, <1>9 DEF TaskTerminal
    <2>2. \A x \in Task : u.task[x] = "succeeded" => s.task[x] = "succeeded"
      BY <1>7, <1>9
    <2> QED BY <1>1, <1>8, <2>1, <2>2, CountedStays
  <1> QED BY <1>5, <1>7, <1>8, <1>10, <1>11, LikeSound

\* The order depends on the states of the tasks only, and a start disturbs none of it: the
\* started task had every dependency already.
LEMMA OrderStays ==
    ASSUME NEW s, NEW u, DependencyOrder(s),
           \A x \in Task : \/ u.task[x] = s.task[x]
                           \/ s.task[x] = "ready" /\ u.task[x] = "running"
    PROVE  DependencyOrder(u)
  <1>1. \A x \in Task : Unsucceeded(u, x) = Unsucceeded(s, x)
    BY DefinitionAssumption DEF Unsucceeded
  <1>2. \A x \in Task : Deps[x] \subseteq Task
    BY DefinitionAssumption
  <1>3. ASSUME NEW x \in Task, u.task[x] \in {"ready", "queued", "running", "waiting_retry",
                                             "succeeded", "failed"}
        PROVE  Unsucceeded(u, x) = {}
    <2>1. s.task[x] \in {"ready", "queued", "running", "waiting_retry", "succeeded", "failed"}
      BY <1>3
    <2> QED BY <1>1, <2>1 DEF DependencyOrder
  <1>4. ASSUME NEW x \in Task, u.task[x] = "waiting_dependencies"
        PROVE  /\ Unsucceeded(u, x) # {}
               /\ \A y \in Deps[x] : u.task[y] \notin {"failed", "skipped", "canceled"}
    <2>1. s.task[x] = "waiting_dependencies"
      BY <1>4
    <2>2. /\ Unsucceeded(s, x) # {}
          /\ \A y \in Deps[x] : s.task[y] \notin {"failed", "skipped", "canceled"}
      BY <2>1 DEF DependencyOrder
    <2> QED BY <1>1, <1>2, <2>2
  <1>5. ASSUME NEW x \in Task, u.task[x] = "skipped"
        PROVE  \E y \in Deps[x] : u.task[y] \in {"failed", "skipped"}
    <2>1. s.task[x] = "skipped"
      BY <1>5
    <2>2. PICK y \in Deps[x] : s.task[y] \in {"failed", "skipped"}
      BY <2>1 DEF DependencyOrder
    <2>3. u.task[y] = s.task[y]
      BY <1>2, <2>2
    <2> QED BY <2>2, <2>3
  <1> QED BY <1>3, <1>4, <1>5 DEF DependencyOrder

\* A start: the task was ready, so its history has no attempt that runs.
LEMMA UsableStart ==
    ASSUME NEW s, Usable(s), s.status = "running", NEW t \in Task, s.task[t] = "ready",
           NEW u, u = prepareTask(s, t), Accepted(u)
    PROVE  Usable(u)
  <1>1. /\ s \in Snap /\ Counted(s) /\ DependencyOrder(s) /\ AttemptHistory(s) /\ Verdict(s)
        /\ \A x \in Task : s.task[x] # "queued"
    BY DEF Usable
  <1>2. /\ u.status = s.status
        /\ u.task[t] = "running"
        /\ Len(u.attempts[t]) = Len(s.attempts[t]) + 1
        /\ u.attempts[t][Len(u.attempts[t])].status = "running"
        /\ \A x \in Task \ {t} : u.task[x] = s.task[x] /\ u.attempts[x] = s.attempts[x]
    BY <1>1, StartShape
  <1>3. Follows(s, u) /\ u \in Snap
    BY <1>1, StartFollows DEF Follows
  <1>4. u.remaining = s.remaining
    <2>1. Alike(s, s)
      BY <1>1 DEF Alike
    <2> QED BY <2>1, AlikePrepareTask
  <1>5. Counted(u)
    <2>1. \A x \in Task : s.task[x] \in TaskTerminal => u.task[x] = s.task[x]
      BY <1>2 DEF TaskTerminal
    <2>2. \A x \in Task : u.task[x] = "succeeded" => s.task[x] = "succeeded"
      BY <1>2
    <2> QED BY <1>1, <1>4, <2>1, <2>2, CountedStays
  <1>6. DependencyOrder(u)
    <2>1. \A x \in Task : \/ u.task[x] = s.task[x]
                          \/ s.task[x] = "ready" /\ u.task[x] = "running"
      BY <1>2
    <2>2. DependencyOrder(s)
      BY <1>1
    <2> QED BY <2>1, <2>2, OrderStays, Zenon
  <1>7. AttemptHistory(u)
    <2>1. PICK a, n : a = s.attempts[t] /\ n = Len(a)
      OBVIOUS
    <2>2. PICK b : b = u.attempts[t]
      OBVIOUS
    <2>3. PICK limit \in Nat : limit = MaxAttempts[t]
      BY DefinitionAssumption
    <2>4. Len(a) \in Nat /\ TaskHistory("ready", a, limit)
      BY <1>1, <2>1, <2>3, Lengths DEF AttemptHistory
    <2>5. TaskHistory("queued", a, limit) /\ \A i \in 1..Len(a) : a[i].status # "running"
      BY <2>4 DEF TaskHistory
    <2>6. /\ Len(b) = Len(a) + 1 /\ b[Len(a) + 1].status = "running"
          /\ \A i \in 1..Len(a) : b[i] = a[i]
      BY <1>2, <1>3, <2>1, <2>2, <2>5 DEF Follows
    <2>7. TaskHistory("running", b, limit)
      BY <2>4, <2>5, <2>6, HistoryAppend
    <2> QED BY <1>1, <1>2, <2>2, <2>3, <2>7 DEF AttemptHistory
  <1>8. Verdict(u)
    BY <1>1, <1>2 DEF Verdict, WorkflowTerminal
  <1> QED BY <1>1, <1>2, <1>3, <1>5, <1>6, <1>7, <1>8 DEF Usable, Accepted

\* A new status that suits the tasks.
LEMMA UsableStatus ==
    ASSUME NEW s, Usable(s), NEW to \in WorkflowStatus, to \in workflowTransitions(s.status),
           NEW u, u = transitionWorkflow(s, to),
           to = "succeeded" => \A t \in Task : s.task[t] = "succeeded",
           to = "failed" => \E t \in Task : s.task[t] = "failed",
           to \in WorkflowTerminal => \A t \in Task : s.task[t] \in TaskTerminal
    PROVE  Usable(u)
  <1>1. /\ s \in Snap /\ Counted(s) /\ DependencyOrder(s) /\ AttemptHistory(s) /\ Verdict(s)
        /\ s.err = FALSE /\ \A x \in Task : s.task[x] # "queued"
    BY DEF Usable
  <1>2. /\ u \in Snap /\ u.status = to /\ u.task = s.task /\ u.attempts = s.attempts
        /\ u.remaining = s.remaining /\ u.err = FALSE
    BY <1>1, WorkflowMoved DEF Snap
  <1>3. Counted(u) /\ DependencyOrder(u) /\ AttemptHistory(u)
    BY <1>1, <1>2 DEF Counted, DependencyOrder, AttemptHistory, Unsucceeded
  <1>4. s.status \in {"pending", "running"} /\ to # "pending"
    BY DEF workflowTransitions
  <1>5. Verdict(u)
    BY <1>1, <1>2, <1>4 DEF Verdict
  <1> QED BY <1>1, <1>2, <1>3, <1>5 DEF Usable

\* A cancellation of an open Run is accepted, with or without open tasks.
LEMMA UsableCancel ==
    ASSUME NEW s, Usable(s), s.status \notin WorkflowTerminal, NEW u, u = CancelRunSnapshot(s)
    PROVE  Usable(u) /\ u.status = "canceled"
  <1>1. /\ s \in Snap /\ Counted(s) /\ DependencyOrder(s) /\ AttemptHistory(s) /\ Verdict(s)
        /\ s.err = FALSE /\ \A x \in Task : s.task[x] # "queued"
    BY DEF Usable
  <1>2. s.status \in {"pending", "running"}
    BY <1>1 DEF Snap, Snapshot, WorkflowStatus, WorkflowTerminal
  <1>3. CASE \E t \in Task : s.task[t] \notin TaskTerminal
    <2>1. PICK t \in Task : s.task[t] \notin TaskTerminal
      BY <1>3
    <2>2. PICK v : v = Recounted(s)
      OBVIOUS
    <2>3. Alike(s, v) /\ Sound(v, {Local})
      BY <1>1, <2>1, <2>2, RecountedSound, RecountedAlike
    <2>4. PICK w : w = CancelRunSnapshot(v)
      OBVIOUS
    <2>5. v.status \in {"pending", "running"} /\ v.task = s.task
      BY <1>2, <2>3 DEF Alike
    <2>6. Sound(w, {Local}) /\ AllCanceled(v, w)
      BY <2>3, <2>4, <2>5, CancelSound
    <2>7. Alike(u, w) /\ u.status = w.status /\ u.task = w.task
      BY <2>3, <2>4, AlikeCancel DEF Alike
    <2>8. w.status = "canceled" /\ \A x \in Task : w.task[x] \in TaskTerminal
      BY <2>6 DEF AllCanceled, TaskTerminal
    <2>9. Counted(u) /\ \A x \in Task : w.task[x] # "queued"
      BY <2>7, <2>8 DEF Counted, TaskTerminal
    <2> QED BY <2>6, <2>7, <2>8, <2>9, LikeSound
  <1>4. CASE \A t \in Task : s.task[t] \in TaskTerminal
    <2> DEFINE open == {t \in Task : s.task[t] \notin TaskTerminal}
               running == {t \in open : /\ s.task[t] = "running"
                                        /\ s.attempts[t] # <<>>
                                        /\ s.attempts[t][Len(s.attempts[t])].status = "running"}
               outcome == [t \in running |-> "canceled"]
    <2>1. u = transitionWorkflow(transitionTasks(transitionAttempts(s, running, outcome),
                                                 open, "canceled"), "canceled")
      BY DEF CancelRunSnapshot
    <2>2. open = {} /\ running = {} /\ outcome \in [running -> AttemptStatus \ {"running"}]
      BY <1>4 DEF AttemptStatus
    <2> HIDE DEF open, running, outcome
    <2>3. PICK a : a = transitionAttempts(s, running, outcome)
      OBVIOUS
    <2>4. AttemptsEndedBy(s, a, running, outcome, {Local})
      BY <1>1, <2>2, <2>3, AttemptsEnded DEF Snap
    <2>5. /\ a \in Snap /\ a.status = s.status /\ a.task = s.task /\ a.remaining = s.remaining
          /\ a.err = FALSE
      BY <1>1, <2>4 DEF AttemptsEndedBy, Snap
    <2>6. \A t \in Task : /\ Len(a.attempts[t]) = Len(s.attempts[t])
                          /\ \A i \in 1..Len(s.attempts[t]) : a.attempts[t][i] = s.attempts[t][i]
      BY <2>2, <2>4 DEF AttemptsEndedBy
    <2>7. PICK b : b = transitionTasks(a, open, "canceled")
      OBVIOUS
    <2>8. TasksMovedTo(a, b, open, "canceled", {Local})
      BY <2>2, <2>5, <2>7, TasksMoved DEF Snap, TaskStatus
    <2>9. /\ b \in Snap /\ b.status = s.status /\ b.remaining = s.remaining /\ b.err = FALSE
          /\ b.attempts = a.attempts /\ \A t \in Task : b.task[t] = s.task[t]
      BY <2>2, <2>5, <2>8 DEF TasksMovedTo, Snap
    <2>10. /\ u \in Snap /\ u.status = "canceled" /\ u.task = b.task /\ u.attempts = a.attempts
           /\ u.remaining = s.remaining /\ u.err = FALSE
      BY <1>2, <2>1, <2>3, <2>7, <2>9, WorkflowMoved
         DEF Snap, WorkflowStatus, workflowTransitions
    <2>11. \A t \in Task : u.task[t] = s.task[t]
      BY <2>9, <2>10
    <2>12. DependencyOrder(s)
      BY <1>1
    <2>13. DependencyOrder(u)
      BY <2>11, <2>12, OrderStays, Zenon
    <2>14. Counted(u)
      BY <1>4, <2>11 DEF Counted
    <2>15. ASSUME NEW t \in Task PROVE TaskHistory(u.task[t], u.attempts[t], MaxAttempts[t])
      <3>1. PICK x, y, n : x = s.attempts[t] /\ y = u.attempts[t] /\ n = Len(x)
        OBVIOUS
      <3>2. n \in Nat /\ Len(y) = n /\ \A i \in 1..n : y[i] = x[i]
        BY <1>1, <2>6, <2>10, <3>1, Lengths
      <3>3. TaskHistory(s.task[t], x, MaxAttempts[t])
        BY <1>1, <3>1 DEF AttemptHistory
      <3>4. TaskHistory(s.task[t], y, MaxAttempts[t])
        BY <3>1, <3>2, <3>3 DEF TaskHistory
      <3> QED BY <2>11, <3>1, <3>4
    <2>16. Verdict(u)
      BY <1>4, <2>10, <2>11 DEF Verdict
    <2> QED BY <1>1, <2>10, <2>11, <2>13, <2>14, <2>15, <2>16 DEF Usable, AttemptHistory
  <1> QED BY <1>3, <1>4

-----------------------------------------------------------------------------
(* A Resume.                                                                 *)

\* What a Resume interrupts, and what of it has no attempt left.
Interrupted(s) == [t \in Running(s) |-> "interrupted"]
Exhausted(s) == Running(s) \ RetriesLeft(s, Running(s))

\* The running attempts are interrupted.
LEMMA InterruptEnds ==
    ASSUME NEW s, Usable(s), NEW v, v = interruptRunning(s)
    PROVE  /\ EndedTo(s, v, Running(s), Exhausted(s), Interrupted(s), {Local})
           /\ \A t \in Task : v.task[t] # "waiting_retry" =>
                 v.readyAt[t] = IF t \in Running(s) THEN 0 ELSE s.readyAt[t]
  <1> DEFINE T == Running(s)
             again == RetriesLeft(s, T)
             F == Exhausted(s)
             outcome == Interrupted(s)
             s1 == transitionAttempts(s, T, outcome)
             s2 == transitionTasks(s1, again, "waiting_retry")
             r == [t \in Task |-> IF t \in again THEN Now ELSE s2.readyAt[t]]
             s3 == [s2 EXCEPT !.readyAt = r]
             s4 == transitionTasks(s3, F, "failed")
  <1>1. s \in Snap /\ s.err = FALSE /\ AttemptHistory(s)
    BY DEF Usable
  <1>2. /\ T \in SUBSET Task /\ again \in SUBSET Task /\ again \subseteq T
        /\ F \in SUBSET Task /\ F = T \ again
        /\ \A t \in Task : t \in T <=> s.task[t] = "running"
        /\ \A t \in again : Len(s.attempts[t]) < MaxAttempts[t]
    BY DEF Running, RetriesLeft, Exhausted
  <1>3. v = s4
    BY DEF interruptRunning, Interrupted, Running, Exhausted
  <1>4. \A t \in T : /\ s.attempts[t] # <<>>
                     /\ s.attempts[t][Len(s.attempts[t])].status = "running"
    BY <1>1, <1>2 DEF AttemptHistory, TaskHistory, Snap, Snapshot
  <1>5. outcome \in [T -> AttemptStatus \ {"running"}]
    BY DEF Interrupted, AttemptStatus
  <1> HIDE DEF T, again, F, outcome
  <1>6. AttemptsEndedBy(s, s1, T, outcome, {Local})
    BY <1>1, <1>2, <1>4, <1>5, AttemptsEnded DEF Snap
  <1>7. s1.readyAt = s.readyAt
    <2>1. Alike(s, s)
      BY <1>1 DEF Alike
    <2> DEFINE aa == [t \in Task |->
                        IF t \in T
                        THEN [s.attempts[t] EXCEPT ![Len(s.attempts[t])].status = outcome[t]]
                        ELSE s.attempts[t]]
    <2>2. \A t \in T : outcome[t] \in attemptTransitions(s.attempts[t][Len(s.attempts[t])].status)
      BY <1>4, <1>5 DEF attemptTransitions
    <2>3. s1 = [s EXCEPT !.attempts = aa]
      BY <1>4, <2>2 DEF transitionAttempts
    <2> HIDE DEF aa
    <2> QED BY <1>1, <2>3 DEF Snap, Snapshot
  <1> HIDE DEF s1
  <1>8. /\ s1 \in Snap /\ s1.status = s.status /\ s1.task = s.task
        /\ s1.remaining = s.remaining /\ s1.err = s.err
    BY <1>6 DEF AttemptsEndedBy, Snap
  <1>9. TasksMovedTo(s1, s2, again, "waiting_retry", {Local})
    <2>1. \A t \in again : "waiting_retry" \in taskTransitions(s1.task[t])
      BY <1>2, <1>8 DEF taskTransitions
    <2> QED BY <1>2, <1>8, <2>1, TasksMoved DEF Snap, TaskStatus
  <1> HIDE DEF s2
  <1>10. /\ s2 \in Snap /\ s2.status = s.status /\ s2.attempts = s1.attempts
         /\ s2.remaining = s.remaining /\ s2.err = s.err
         /\ \A t \in Task : s2.task[t] = IF t \in again THEN "waiting_retry" ELSE s.task[t]
         /\ \A t \in Task : s2.readyAt[t] = IF t \in again THEN 0 ELSE s.readyAt[t]
    BY <1>7, <1>8, <1>9 DEF TasksMovedTo, Snap
  <1>11. /\ r \in [Task -> Int]
         /\ \A t \in Task : t \notin again => r[t] = s.readyAt[t]
    BY <1>10 DEF Snap, Snapshot, Now
  <1> HIDE DEF r
  <1>12. /\ s3 \in Snap /\ s3.status = s.status /\ s3.attempts = s1.attempts
         /\ s3.remaining = s.remaining /\ s3.err = s.err /\ s3.task = s2.task /\ s3.readyAt = r
    BY <1>10, <1>11 DEF Snap, Snapshot
  <1> HIDE DEF s3
  <1>13. TasksMovedTo(s3, s4, F, "failed", {Local})
    <2>1. \A t \in F : "failed" \in taskTransitions(s3.task[t])
      BY <1>2, <1>10, <1>12 DEF taskTransitions
    <2> QED BY <1>2, <1>12, <2>1, TasksMoved DEF Snap, TaskStatus
  <1> HIDE DEF s4
  <1>14. /\ s4 \in Snap /\ s4.status = s.status /\ s4.attempts = s1.attempts
         /\ s4.remaining = s.remaining /\ s4.err = s.err
         /\ \A t \in Task : s4.task[t] = IF t \in F THEN "failed"
                                         ELSE IF t \in T THEN "waiting_retry" ELSE s.task[t]
         /\ \A t \in Task : s4.readyAt[t] = IF t \in F THEN 0 ELSE r[t]
    BY <1>2, <1>10, <1>12, <1>13 DEF TasksMovedTo, Snap
  <1>15. EndedTo(s, s4, T, F, outcome, {Local})
    BY <1>2, <1>6, <1>14 DEF EndedTo, AttemptsEndedBy, Snap
  <1>16. \A t \in Task : s4.task[t] # "waiting_retry" =>
            s4.readyAt[t] = IF t \in T THEN 0 ELSE s.readyAt[t]
    BY <1>2, <1>11, <1>14
  <1> QED BY <1>3, <1>15, <1>16 DEF T, F, outcome

\* What was blocked before has nothing open behind it.
LEMMA OldBlocked ==
    ASSUME NEW s, Usable(s), s.status \notin WorkflowTerminal,
           NEW f \in Task, s.task[f] \in Blocked
    PROVE  \A u \in Descendants[f] : s.task[u] = "skipped"
  <1> DEFINE S == {x \in Task : s.task[x] = "skipped"}
  <1>1. /\ s \in Snap /\ DependencyOrder(s)
        /\ \A t \in Task : s.task[t] \notin {"canceled", "queued"}
    BY DEF Usable, Verdict, Snap, Snapshot, WorkflowStatus, WorkflowTerminal
  <1>2. ASSUME NEW x \in Task, s.task[x] \in Blocked PROVE Successors(x) \subseteq S
    <2> SUFFICES ASSUME NEW u \in Task, x \in Deps[u] PROVE s.task[u] = "skipped"
      BY DEF Successors
    <2>1. x \in Unsucceeded(s, u)
      BY <1>2 DEF Unsucceeded, Blocked
    <2>2. s.task[u] \in TaskStatus
      BY <1>1 DEF Snap, Snapshot
    <2>3. s.task[u] # "waiting_dependencies"
      BY <1>1, <1>2 DEF DependencyOrder, Blocked
    <2> QED BY <1>1, <2>1, <2>2, <2>3 DEF DependencyOrder, TaskStatus
  <1>3. S \in SUBSET Task /\ Successors(f) \subseteq S /\ \A x \in S : Successors(x) \subseteq S
    BY <1>2 DEF Blocked
  <1>4. Descendants[f] \subseteq S
    <2> HIDE DEF S
    <2> QED BY <1>3, DescendantsLeast
  <1> QED BY <1>4

\* So a Resume skips exactly what is behind the tasks that fail in it.
LEMMA SkipsBehindFailures ==
    ASSUME NEW s, Usable(s), s.status \notin WorkflowTerminal, NEW v, v = interruptRunning(s)
    PROVE  skipDescendantsFrom(v, blockedSources(v)) = skipDescendantsFrom(v, Exhausted(s))
  <1> DEFINE B == {u \in Task : /\ \E f \in blockedSources(v) : u \in Descendants[f]
                                /\ v.task[u] \notin TaskTerminal}
             F == {u \in Task : /\ \E f \in Exhausted(s) : u \in Descendants[f]
                                /\ v.task[u] \notin TaskTerminal}
  <1>1. EndedTo(s, v, Running(s), Exhausted(s), Interrupted(s), {Local})
    BY InterruptEnds
  <1>2. /\ Exhausted(s) \subseteq Running(s)
        /\ \A t \in Task : v.task[t] = IF t \in Exhausted(s) THEN "failed"
                                       ELSE IF t \in Running(s) THEN "waiting_retry" ELSE s.task[t]
    BY <1>1 DEF EndedTo
  <1>3. Exhausted(s) \subseteq blockedSources(v)
    BY <1>2 DEF blockedSources, Blocked, Running
  <1>4. ASSUME NEW f \in blockedSources(v), f \notin Exhausted(s), NEW u \in Task,
               u \in Descendants[f]
        PROVE  v.task[u] \in TaskTerminal
    <2>1. f \in Task /\ s.task[f] \in Blocked
      BY <1>2, <1>4 DEF blockedSources, Blocked
    <2>2. s.task[u] = "skipped"
      BY <1>4, <2>1, OldBlocked
    <2>3. u \notin Running(s)
      BY <2>2 DEF Running
    <2> QED BY <1>2, <2>2, <2>3 DEF TaskTerminal
  <1>5. B = F
    BY <1>3, <1>4
  <1>6. /\ skipDescendantsFrom(v, blockedSources(v)) = transitionTasks(v, B, "skipped")
        /\ skipDescendantsFrom(v, Exhausted(s)) = transitionTasks(v, F, "skipped")
    BY DEF skipDescendantsFrom
  <1> QED BY <1>5, <1>6

\* What the dependencies of an open task say once the order is restored.
LEMMA OpenDependencies ==
    ASSUME NEW w \in Snap, DependencyOrder(w), \A t \in Task : w.task[t] # "canceled",
           NEW t \in Task, w.task[t] \notin TaskTerminal
    PROVE  /\ Outstanding(w, t) = Unsucceeded(w, t)
           /\ \A u \in Deps[t] : w.task[u] \notin Blocked
           /\ w.task[t] \in {"ready", "waiting_retry"} => Outstanding(w, t) = {}
           /\ w.task[t] = "waiting_dependencies" =>
                 Cardinality(Outstanding(w, t)) # 0
  <1>1. w.task[t] \in TaskStatus /\ Deps[t] \subseteq Task
    BY DefinitionAssumption DEF Snap, Snapshot
  <1>2. \/ w.task[t] = "waiting_dependencies"
        \/ w.task[t] \in {"ready", "queued", "running", "waiting_retry"}
    BY <1>1 DEF TaskStatus, TaskTerminal
  <1>3. \A u \in Deps[t] : w.task[u] \notin Blocked
    <2>1. CASE w.task[t] = "waiting_dependencies"
      BY <2>1 DEF DependencyOrder, Blocked
    <2>2. CASE w.task[t] \in {"ready", "queued", "running", "waiting_retry"}
      <3>1. Unsucceeded(w, t) = {}
        BY <2>2 DEF DependencyOrder
      <3> QED BY <3>1 DEF Unsucceeded, Blocked
    <2> QED BY <1>2, <2>1, <2>2
  <1>4. \A u \in Deps[t] : w.task[u] \notin TaskTerminal <=> w.task[u] # "succeeded"
    BY <1>3 DEF TaskTerminal, Blocked
  <1>5. Outstanding(w, t) = Unsucceeded(w, t)
    BY <1>4 DEF Outstanding, Unsucceeded
  <1>6. w.task[t] \in {"ready", "waiting_retry"} => Outstanding(w, t) = {}
    BY <1>5 DEF DependencyOrder
  <1>7. ASSUME w.task[t] = "waiting_dependencies" PROVE Cardinality(Outstanding(w, t)) # 0
    <2>1. Unsucceeded(w, t) # {} /\ Unsucceeded(w, t) \in SUBSET Task
      BY <1>1, <1>7 DEF DependencyOrder, Unsucceeded
    <2>2. IsFiniteSet(Task)
      BY DefinitionAssumption, FS_Interval DEF Task
    <2>3. IsFiniteSet(Unsucceeded(w, t))
      BY <2>1, <2>2, FS_Subset
    <2> QED BY <1>5, <2>1, <2>3, FS_EmptySet
  <1> QED BY <1>3, <1>5, <1>6, <1>7

(* prepareForResume of an open Run: the order is restored, nothing is left   *)
(* to close or to release, the counters of open tasks are right.             *)
LEMMA UsablePrepare ==
    ASSUME NEW s, Usable(s), s.status \notin WorkflowTerminal,
           NEW failed, failed = interruptRunning(s),
           NEW counted, counted = rebuildDependencies(failed),
           NEW u, u = prepareForResume(s, counted)
    PROVE  /\ Accepted(u) => Usable(u)
           /\ (\A t \in Task : validAttemptHistory(s, t)) => Accepted(u)
           /\ \A t \in Task : u.task[t] # "waiting_retry" /\ s.task[t] # "running" =>
                 u.readyAt[t] = s.readyAt[t] \/ u.readyAt[t] = 0
           /\ \A t \in Task : u.task[t] # "waiting_retry" /\ s.task[t] = "running" =>
                 u.readyAt[t] = 0
           /\ \A t \in Task : u.task[t] = "failed" =>
                 \/ s.task[t] = "failed" /\ u.attempts[t] = s.attempts[t]
                 \/ Len(u.attempts[t]) = MaxAttempts[t]
           /\ \A t \in Task : s.task[t] = "waiting_retry" => u.task[t] = "waiting_retry"
  <1> DEFINE T == Running(s)
             F == Exhausted(s)
             outcome == Interrupted(s)
             w == skipDescendantsFrom(failed, F)
             c == [t \in Task |-> Cardinality(Outstanding(w, t))]
  <1>1. /\ s \in Snap /\ s.err = FALSE /\ DependencyOrder(s) /\ AttemptHistory(s) /\ Verdict(s)
        /\ \A t \in Task : s.task[t] # "queued"
    BY DEF Usable
  <1>2. s.status \in {"pending", "running"} /\ \A t \in Task : s.task[t] # "canceled"
    BY <1>1 DEF Verdict, Snap, Snapshot, WorkflowStatus, WorkflowTerminal
  <1>3. /\ EndedTo(s, failed, T, F, outcome, {Local})
        /\ \A t \in Task : failed.task[t] # "waiting_retry" =>
              failed.readyAt[t] = IF t \in T THEN 0 ELSE s.readyAt[t]
    BY InterruptEnds
  <1>4. /\ failed \in Snap /\ failed.status = s.status /\ failed.err = FALSE
        /\ F \subseteq T /\ T \subseteq Task
        /\ \A t \in T \ F : Len(s.attempts[t]) < MaxAttempts[t]
        /\ \A t \in Task : failed.task[t] = IF t \in F THEN "failed"
                                            ELSE IF t \in T THEN "waiting_retry" ELSE s.task[t]
    BY <1>1, <1>3 DEF EndedTo, Snap, Running
  <1>5. \A t \in T : s.task[t] = "running"
    BY DEF Running
  <1>6. \A t \in Task \ T : s.task[t] # "running"
    BY DEF Running
  <1>7. counted = [w EXCEPT !.remaining = c]
    BY SkipsBehindFailures DEF rebuildDependencies
  <1> HIDE DEF T, F, outcome
  <1>8. /\ w \in Snap /\ w.status = s.status /\ w.attempts = failed.attempts /\ w.err = FALSE
        /\ DependencyOrder(w)
        /\ \A t \in Task : \/ w.task[t] = failed.task[t]
                           \/ failed.task[t] = "waiting_dependencies" /\ w.task[t] = "skipped"
    <2>1. F \in SUBSET Task
      BY <1>4
    <2>2. \A f \in F : failed.task[f] = "failed" /\ s.task[f] = "running"
      BY <1>4, <1>5
    <2>3. \A t \in Task \ F : \/ failed.task[t] = s.task[t]
                              \/ failed.task[t] = "waiting_retry" /\ s.task[t] = "running"
      BY <1>4, <1>5
    <2> QED BY <1>1, <1>2, <1>4, <2>1, <2>2, <2>3, SkipRestoresOrder DEF Snap
  <1>9. \A t \in Task : w.readyAt[t] = failed.readyAt[t] \/ w.readyAt[t] = 0
    <2> DEFINE K == {x \in Task : /\ \E f \in F : x \in Descendants[f]
                                  /\ failed.task[x] \notin TaskTerminal}
               rr == [t \in Task |-> IF t \in K THEN 0 ELSE failed.readyAt[t]]
               tt == [t \in Task |-> IF t \in K THEN "skipped" ELSE failed.task[t]]
    <2>1. w = Reject(failed) \/ w = [failed EXCEPT !.task = tt, !.readyAt = rr]
      BY DEF skipDescendantsFrom, transitionTasks
    <2>2. \A t \in Task : rr[t] = failed.readyAt[t] \/ rr[t] = 0
      OBVIOUS
    <2> HIDE DEF rr, tt, w
    <2>3. w.readyAt = failed.readyAt \/ w.readyAt = rr
      BY <1>4, <2>1 DEF Reject, Snap, Snapshot
    <2> QED BY <2>2, <2>3
  <1> HIDE DEF w
  <1>10. \A t \in Task : w.task[t] \notin {"canceled", "queued", "running"}
    BY <1>1, <1>2, <1>4, <1>6, <1>8
  <1>11. ASSUME NEW t \in Task, w.task[t] \notin TaskTerminal
         PROVE  /\ Outstanding(w, t) = Unsucceeded(w, t)
                /\ \A x \in Deps[t] : w.task[x] \notin Blocked
                /\ w.task[t] \in {"ready", "waiting_retry"} => c[t] = 0
                /\ w.task[t] = "waiting_dependencies" => c[t] # 0
    <2>1. /\ Outstanding(w, t) = Unsucceeded(w, t)
          /\ \A x \in Deps[t] : w.task[x] \notin Blocked
          /\ w.task[t] \in {"ready", "waiting_retry"} => Outstanding(w, t) = {}
          /\ w.task[t] = "waiting_dependencies" => Cardinality(Outstanding(w, t)) # 0
      BY <1>8, <1>10, <1>11, OpenDependencies
    <2> QED BY <2>1, FS_EmptySet
  <1>12. \A t \in Task : c[t] = Cardinality(Outstanding(w, t))
    OBVIOUS
  <1>13. c \in [Task -> Int]
    <2>1. ASSUME NEW t \in Task PROVE Cardinality(Outstanding(w, t)) \in Int
      <3>1. Outstanding(w, t) \subseteq Task
        BY DefinitionAssumption DEF Outstanding
      <3>2. IsFiniteSet(Task)
        BY DefinitionAssumption, FS_Interval DEF Task
      <3> QED BY <3>1, <3>2, FS_Subset, FS_CardinalityType
    <2> QED BY <2>1
  <1> HIDE DEF c
  <1>14. /\ counted \in Snap /\ counted.status = s.status /\ counted.task = w.task
         /\ counted.attempts = w.attempts /\ counted.remaining = c /\ counted.err = FALSE
         /\ counted.readyAt = w.readyAt
    BY <1>7, <1>8, <1>13 DEF Snap, Snapshot
  <1> DEFINE behind == {t \in Task : /\ counted.task[t] \notin TaskTerminal
                                     /\ \E x \in Deps[t] : counted.task[x] \in Blocked}
             closed == transitionTasks(counted, behind, "skipped")
             released == {t \in Task : /\ closed.task[t] = "waiting_dependencies"
                                       /\ closed.remaining[t] = 0}
             opened == transitionTasks(closed, released, "ready")
  <1>15. \/ u = opened
         \/ /\ u = Reject(closed)
            /\ \/ \E t \in Task : ~validAttemptHistory(s, t)
               \/ \E t \in Task : closed.task[t] \in {"ready", "waiting_retry"}
                                    /\ closed.remaining[t] # 0
    BY DEF prepareForResume
  <1>16. behind = {}
    BY <1>11, <1>14
  <1> HIDE DEF behind
  <1>17. TasksMovedTo(counted, closed, behind, "skipped", {Local})
    BY <1>14, <1>16, TasksMoved DEF Snap, TaskStatus
  <1> HIDE DEF closed
  <1>18. /\ closed \in Snap /\ closed.status = s.status /\ closed.remaining = c
         /\ closed.attempts = failed.attempts /\ closed.err = FALSE
         /\ \A t \in Task : closed.task[t] = w.task[t] /\ closed.readyAt[t] = w.readyAt[t]
    BY <1>8, <1>14, <1>16, <1>17 DEF TasksMovedTo, Snap
  <1>19. released = {}
    BY <1>11, <1>18 DEF TaskTerminal
  <1> HIDE DEF released
  <1>20. TasksMovedTo(closed, opened, released, "ready", {Local})
    BY <1>18, <1>19, TasksMoved DEF Snap, TaskStatus
  <1> HIDE DEF opened
  <1>21. /\ opened \in Snap /\ opened.status = s.status /\ opened.remaining = c
         /\ opened.attempts = failed.attempts /\ opened.err = FALSE
         /\ \A t \in Task : opened.task[t] = w.task[t] /\ opened.readyAt[t] = w.readyAt[t]
    BY <1>18, <1>19, <1>20 DEF TasksMovedTo, Snap
  <1>22. /\ u \in Snap /\ u.attempts = failed.attempts
         /\ \A t \in Task : u.task[t] = w.task[t] /\ u.readyAt[t] = w.readyAt[t]
    <2>1. /\ Reject(closed) \in Snap /\ Reject(closed).attempts = closed.attempts
          /\ Reject(closed).task = closed.task /\ Reject(closed).readyAt = closed.readyAt
      BY <1>18 DEF Reject, Snap, Snapshot
    <2> QED BY <1>15, <1>18, <1>21, <2>1
  <1>23. ASSUME \A t \in Task : validAttemptHistory(s, t) PROVE Accepted(u)
    <2>1. \A t \in Task : closed.task[t] \in {"ready", "waiting_retry"} => closed.remaining[t] = 0
      BY <1>11, <1>18 DEF TaskTerminal
    <2> QED BY <1>15, <1>21, <1>23, <2>1 DEF Accepted
  <1>24. ASSUME NEW t \in Task
         PROVE  /\ Len(failed.attempts[t]) = Len(s.attempts[t])
                /\ t \notin T => failed.attempts[t] = s.attempts[t]
                /\ t \in F => Len(failed.attempts[t]) = MaxAttempts[t]
                /\ TaskHistory(w.task[t], failed.attempts[t], MaxAttempts[t])
    <2>1. PICK a, b, n : a = s.attempts[t] /\ b = failed.attempts[t] /\ n = Len(a)
      OBVIOUS
    <2>2. PICK limit \in Nat : limit = MaxAttempts[t]
      BY DefinitionAssumption
    <2>3. a \in Seq(AttemptOf({Local})) /\ b \in Seq(AttemptOf({Local})) /\ n \in Nat /\ Len(b) = n
      <3>1. Len(failed.attempts[t]) = Len(s.attempts[t])
        BY <1>3 DEF EndedTo
      <3>2. s.attempts[t] \in Seq(AttemptOf({Local})) /\ failed.attempts[t] \in Seq(AttemptOf({Local}))
        BY <1>1, <1>4 DEF Snap, Snapshot
      <3>3. Len(s.attempts[t]) \in Nat
        BY <1>1, Lengths
      <3> QED BY <2>1, <3>1, <3>2, <3>3
    <2>4. \A i \in 1..n : b[i] = IF t \in T /\ i = n THEN [a[i] EXCEPT !.status = outcome[t]] ELSE a[i]
      BY <1>3, <2>1 DEF EndedTo
    <2>5. TaskHistory(s.task[t], a, limit)
      BY <1>1, <2>1, <2>2 DEF AttemptHistory
    <2>6. CASE t \notin T
      <3>1. b = a
        BY <2>1, <2>3, <2>4, <2>6
      <3>2. failed.task[t] = s.task[t]
        BY <1>4, <2>6
      <3>3. \/ w.task[t] = s.task[t]
            \/ s.task[t] = "waiting_dependencies" /\ w.task[t] = "skipped"
        BY <1>8, <3>2
      <3>4. TaskHistory(w.task[t], b, limit)
        BY <2>5, <3>1, <3>3 DEF TaskHistory
      <3> QED BY <1>4, <2>1, <2>2, <2>3, <2>6, <3>1, <3>4
    <2>7. CASE t \in T
      <3>1. n > 0 /\ TaskHistory("running", a, limit) /\ n <= limit
        BY <1>5, <2>1, <2>5, <2>7 DEF TaskHistory
      <3>2. b[n].status = "interrupted"
        <4>1. a[n] \in AttemptOf({Local}) /\ n \in 1..n
          BY <2>3, <3>1, <2>1
        <4>2. b[n] = [a[n] EXCEPT !.status = outcome[t]]
          BY <2>4, <2>7, <4>1
        <4>3. outcome[t] = "interrupted"
          BY <2>7 DEF T, outcome, Interrupted
        <4> QED BY <4>1, <4>2, <4>3 DEF AttemptOf
      <3>3. \A i \in 1..Len(a) : i # Len(a) => b[i] = a[i]
        BY <2>1, <2>4
      <3>4. /\ TaskHistory("failed", b, limit)
            /\ n < limit => TaskHistory("waiting_retry", b, limit)
        BY <2>1, <2>3, <3>1, <3>2, <3>3, HistoryEnd DEF RetryableEnd
      <3>5. w.task[t] = failed.task[t]
        BY <1>4, <1>8, <2>7
      <3>6. t \notin F => n < limit
        BY <1>4, <2>1, <2>2, <2>7
      <3>7. t \in F => n = limit
        <4>1. ASSUME t \in F PROVE ~(n < limit)
          BY <2>1, <2>2, <2>7, <4>1 DEF F, T, Exhausted, RetriesLeft
        <4> QED BY <2>3, <3>1, <4>1
      <3> QED BY <1>4, <2>1, <2>2, <2>3, <2>7, <3>4, <3>5, <3>6, <3>7
    <2> QED BY <2>6, <2>7
  <1>25. ASSUME Accepted(u) PROVE Usable(u)
    <2>1. u = opened
      <3>1. ~Accepted(Reject(closed))
        BY <1>18, CalmReject
      <3> QED BY <1>15, <1>25, <3>1
    <2>2. u.status = s.status /\ u.remaining = c /\ u.err = FALSE
      BY <1>21, <2>1
    <2>3. \A t \in Task : Unsucceeded(u, t) = Unsucceeded(w, t)
      BY <1>22, DefinitionAssumption DEF Unsucceeded
    <2>4. DependencyOrder(u)
      <3>1. DependencyOrder(w) /\ \A x \in Task : u.task[x] = w.task[x]
        BY <1>8, <1>22
      <3> QED BY <3>1, OrderStays, Zenon
    <2>5. AttemptHistory(u)
      BY <1>22, <1>24 DEF AttemptHistory
    <2>6. Counted(u)
      BY <1>11, <1>12, <1>22, <2>2, <2>3 DEF Counted
    <2>7. Verdict(u)
      <3>1. ASSUME s.status = "pending", NEW t \in Task
            PROVE  w.task[t] \in {"waiting_dependencies", "ready"}
        <4>1. \A x \in Task : s.task[x] \in {"waiting_dependencies", "ready"}
          BY <1>1, <3>1 DEF Verdict
        <4>2. T = {} /\ F = {}
          BY <1>4, <1>5, <4>1
        <4>3. \A x \in Task : failed.task[x] = s.task[x]
          BY <1>4, <4>2
        <4>4. \A x \in Task : w.task[x] # "failed"
          BY <1>8, <4>1, <4>3
        <4>5. \A x \in Task : w.task[x] # "skipped"
          BY <1>8, <4>4, NoSkipWithoutFailure DEF Snap
        <4> QED BY <1>8, <4>1, <4>3, <4>5
      <3> QED BY <1>2, <1>10, <1>22, <2>2, <3>1 DEF Verdict, WorkflowTerminal
    <2> QED BY <1>10, <1>22, <2>2, <2>4, <2>5, <2>6, <2>7 DEF Usable
  <1>26. \A t \in Task : u.task[t] = "failed" =>
            \/ s.task[t] = "failed" /\ u.attempts[t] = s.attempts[t]
            \/ Len(u.attempts[t]) = MaxAttempts[t]
    BY <1>4, <1>8, <1>22, <1>24
  <1>27. ASSUME NEW t \in Task, u.task[t] # "waiting_retry"
         PROVE  u.readyAt[t] = (IF t \in T THEN 0 ELSE s.readyAt[t]) \/ u.readyAt[t] = 0
    BY <1>3, <1>8, <1>9, <1>22, <1>27
  <1>28. \A t \in Task : s.task[t] = "waiting_retry" => u.task[t] = "waiting_retry"
    BY <1>4, <1>5, <1>8, <1>22
  <1> QED BY <1>5, <1>6, <1>23, <1>25, <1>26, <1>27, <1>28

-----------------------------------------------------------------------------
(* What the checks of a Resume also ask for.                                 *)

(* Only a waiting task has a retry time; a task failed because its last      *)
(* attempt failed for good or was the last one.                              *)
Resting(s) ==
    \A t \in Task :
        /\ s.task[t] # "waiting_retry" => s.readyAt[t] = 0
        /\ s.task[t] = "failed" => \/ Len(s.attempts[t]) = MaxAttempts[t]
                                   \/ s.attempts[t][Len(s.attempts[t])].status = "failed"

\* If u is not refused, retry times are cleared, and only tasks of X fail.
Rests(s, u, X) ==
    Accepted(u) =>
        /\ Accepted(s)
        /\ \A t \in Task :
             /\ u.task[t] # "waiting_retry" =>
                   u.readyAt[t] = 0 \/ (u.readyAt[t] = s.readyAt[t] /\ s.task[t] # "waiting_retry")
             /\ u.task[t] = "failed" => t \in X \/ s.task[t] = "failed"

\* Such operations can be chained.
LEMMA RestsChain ==
    ASSUME NEW s, NEW u, NEW v, NEW X, Rests(s, u, X), Rests(u, v, X) PROVE Rests(s, v, X)
  BY DEF Rests, Accepted

\* Nothing moves.
LEMMA RestsSame ==
    ASSUME NEW s, NEW u, NEW X, Accepted(u) => Accepted(s), u.task = s.task, u.readyAt = s.readyAt
    PROVE  Rests(s, u, X)
  BY DEF Rests

\* transitionTask.
LEMMA RestsTasks ==
    ASSUME NEW s \in Snap, NEW T \in SUBSET Task, NEW X, NEW to,
           to # "failed" \/ T \subseteq X
    PROVE  Rests(s, transitionTasks(s, T, to), X)
  <1>1. CASE ~\A t \in T : to \in taskTransitions(s.task[t])
    <2>1. ~Accepted(transitionTasks(s, T, to))
      BY <1>1, CalmReject DEF transitionTasks
    <2> QED BY <2>1 DEF Rests
  <1>2. CASE \A t \in T : to \in taskTransitions(s.task[t])
    <2> DEFINE tt == [t \in Task |-> IF t \in T THEN to ELSE s.task[t]]
               rr == [t \in Task |-> IF t \in T THEN 0 ELSE s.readyAt[t]]
               u == [s EXCEPT !.task = tt, !.readyAt = rr]
    <2>1. transitionTasks(s, T, to) = u
      BY <1>2 DEF transitionTasks
    <2>2. u.err = s.err /\ u.task = tt /\ u.readyAt = rr
      BY DEF Snap, Snapshot
    <2> HIDE DEF u
    <2>3. \A t \in Task : /\ u.task[t] = IF t \in T THEN to ELSE s.task[t]
                          /\ u.readyAt[t] = IF t \in T THEN 0 ELSE s.readyAt[t]
      BY <2>2
    <2>4. Rests(s, u, X)
      BY <2>2, <2>3 DEF Rests, Accepted
    <2> QED BY <2>1, <2>4
  <1> QED BY <1>1, <1>2

\* transitionAttempt.
LEMMA RestsAttempts ==
    ASSUME NEW s \in Snap, NEW T \in SUBSET Task, NEW outcome, NEW X
    PROVE  Rests(s, transitionAttempts(s, T, outcome), X)
  <1> DEFINE aa == [t \in Task |->
                      IF t \in T
                      THEN [s.attempts[t] EXCEPT ![Len(s.attempts[t])].status = outcome[t]]
                      ELSE s.attempts[t]]
             u == [s EXCEPT !.attempts = aa]
  <1>1. transitionAttempts(s, T, outcome) = Reject(s) \/ transitionAttempts(s, T, outcome) = u
    BY DEF transitionAttempts
  <1> HIDE DEF aa
  <1>2. u.task = s.task /\ u.readyAt = s.readyAt /\ u.err = s.err
    BY DEF Snap, Snapshot
  <1> HIDE DEF u
  <1>3. Rests(s, u, X)
    BY <1>2, RestsSame DEF Accepted
  <1>4. Rests(s, Reject(s), X)
    BY CalmReject DEF Rests
  <1> QED BY <1>1, <1>3, <1>4

\* transitionWorkflow.
LEMMA RestsWorkflow ==
    ASSUME NEW s \in Snap, NEW to, NEW X PROVE Rests(s, transitionWorkflow(s, to), X)
  <1>1. [s EXCEPT !.status = to].task = s.task /\ [s EXCEPT !.status = to].readyAt = s.readyAt
        /\ [s EXCEPT !.status = to].err = s.err
    BY DEF Snap, Snapshot
  <1>2. Rests(s, [s EXCEPT !.status = to], X)
    BY <1>1, RestsSame DEF Accepted
  <1>3. Rests(s, Reject(s), X)
    BY CalmReject DEF Rests
  <1> QED BY <1>2, <1>3 DEF transitionWorkflow

\* Skipping and settling.
LEMMA RestsSettle ==
    ASSUME NEW s, NEW v \in Snap, NEW F, NEW X, Rests(s, v, X)
    PROVE  Rests(s, settleWorkflowIfComplete(skipDescendantsFrom(v, F)), X)
  <1> DEFINE T == {u \in Task : /\ \E f \in F : u \in Descendants[f]
                               /\ v.task[u] \notin TaskTerminal}
             w == skipDescendantsFrom(v, F)
             u == settleWorkflowIfComplete(w)
  <1>1. w = transitionTasks(v, T, "skipped") /\ T \in SUBSET Task
    BY DEF skipDescendantsFrom
  <1> HIDE DEF T
  <1>2. w \in Snap /\ Rests(v, w, X)
    BY <1>1, SkipSteady, SteadyType, RestsTasks
  <1> HIDE DEF w
  <1>3. \/ u = w \/ u = transitionWorkflow(w, "failed")
        \/ u = transitionWorkflow(w, "succeeded") \/ u = Reject(w)
    BY DEF settleWorkflowIfComplete
  <1> HIDE DEF u
  <1>4. Rests(w, u, X)
    <2>1. Rests(w, w, X) /\ Rests(w, Reject(w), X)
      BY <1>2, RestsSame, CalmReject DEF Rests
    <2> QED BY <1>2, <1>3, <2>1, RestsWorkflow
  <1>5. Rests(s, u, X)
    BY <1>2, <1>4, RestsChain
  <1> QED BY <1>5 DEF u, w

\* Retries and failures: a task with an attempt left does not fail.
LEMMA RestsDecided ==
    ASSUME NEW v \in Snap, NEW T \in SUBSET Task, NEW again \in SUBSET T, NEW at \in [Task -> Int]
    PROVE  Rests(v, Decided(v, T, again, at), T \ again)
  <1> DEFINE a == transitionTasks(v, again, "waiting_retry")
             f == [t \in Task |-> IF t \in again THEN at[t] ELSE a.readyAt[t]]
             c == [a EXCEPT !.readyAt = f]
             u == transitionTasks(c, T \ again, "failed")
             X == T \ again
  <1>1. /\ again \in SUBSET Task /\ X \in SUBSET Task /\ "waiting_retry" \in TaskStatus
        /\ "failed" \in TaskStatus
    BY DEF TaskStatus
  <1>2. u = Decided(v, T, again, at)
    BY DEF Decided
  <1>3. a \in Snap /\ Rests(v, a, X)
    BY <1>1, TasksSteady, SteadyType, RestsTasks
  <1>4. Accepted(a) =>
           \A t \in Task : a.task[t] = IF t \in again THEN "waiting_retry" ELSE v.task[t]
    BY <1>1, TasksGet
  <1> HIDE DEF a
  <1>5. f \in [Task -> Int] /\ \A t \in Task \ again : f[t] = a.readyAt[t]
    BY <1>3 DEF Snap, Snapshot
  <1> HIDE DEF f
  <1>6. /\ c \in Snap /\ c.task = a.task /\ c.readyAt = f /\ c.err = a.err
    BY <1>3, <1>5 DEF Snap, Snapshot
  <1> HIDE DEF c
  <1>7. Rests(a, c, X)
    BY <1>4, <1>5, <1>6 DEF Rests, Accepted
  <1>8. Rests(c, u, X)
    BY <1>1, <1>6, RestsTasks
  <1> HIDE DEF u
  <1>9. Rests(v, u, X)
    BY <1>3, <1>7, <1>8, RestsChain
  <1> QED BY <1>2, <1>9

\* EndAttempts: only tasks without an attempt left fail.
LEMMA RestsEndAttempts ==
    ASSUME NEW s \in Snap, NEW T \in SUBSET Task,
           NEW outcome \in [T -> AttemptStatus \ {"running"}], NEW at \in Int
    PROVE  Rests(s, EndAttempts(s, T, outcome, at),
                 {t \in T : ~(Len(s.attempts[t]) < MaxAttempts[t])})
  <1> DEFINE v == transitionAttempts(s, T, outcome)
             again == RetriesLeft(v, T)
             due == [t \in Task |-> at + RetryInterval[t]]
             failed == Decided(v, T, again, due)
             X == {t \in T : ~(Len(s.attempts[t]) < MaxAttempts[t])}
  <1>1. Steady(s, v) /\ v \in Snap
    BY AttemptsSteady, SteadyType
  <1>2. again \in SUBSET T /\ due \in [Task -> Int]
    BY DefinitionAssumption DEF RetriesLeft
  <1>3. EndAttempts(s, T, outcome, at)
          = settleWorkflowIfComplete(skipDescendantsFrom(failed, T \ again))
    BY DEF EndAttempts, applyRetryDecision, Decided
  <1>4. X = T \ again
    <2>1. \A t \in T : Len(v.attempts[t]) = Len(s.attempts[t])
      BY <1>1 DEF Steady, Moves
    <2> QED BY <2>1 DEF RetriesLeft
  <1>5. Rests(s, v, X)
    BY RestsAttempts
  <1> HIDE DEF v, again, due, X
  <1>6. Rests(v, failed, X)
    BY <1>1, <1>2, <1>4, RestsDecided
  <1>7. failed \in Snap
    BY <1>1, <1>2, DecideSteady, SteadyType
  <1> HIDE DEF failed
  <1>8. Rests(s, failed, X)
    BY <1>5, <1>6, RestsChain
  <1>9. Rests(s, EndAttempts(s, T, outcome, at), X)
    BY <1>3, <1>7, <1>8, RestsSettle
  <1> QED BY <1>9 DEF X

\* failPermanently.
LEMMA RestsFailPermanently ==
    ASSUME NEW s \in Snap, NEW t \in Task PROVE Rests(s, failPermanently(s, t), {t})
  <1> DEFINE outcome == [x \in {t} |-> "failed"]
             v == transitionAttempts(s, {t}, outcome)
             failed == transitionTasks(v, {t}, "failed")
  <1>1. /\ outcome \in [{t} -> AttemptStatus \ {"running"}] /\ {t} \in SUBSET Task
        /\ "failed" \in TaskStatus
    BY DEF AttemptStatus, TaskStatus
  <1>2. failPermanently(s, t) = settleWorkflowIfComplete(skipDescendantsFrom(failed, {t}))
    BY DEF failPermanently
  <1> HIDE DEF outcome
  <1>3. v \in Snap /\ Rests(s, v, {t})
    BY <1>1, AttemptsSteady, SteadyType, RestsAttempts
  <1> HIDE DEF v
  <1>4. failed \in Snap /\ Rests(v, failed, {t})
    BY <1>1, <1>3, TasksSteady, SteadyType, RestsTasks
  <1> HIDE DEF failed
  <1>5. Rests(s, failed, {t})
    BY <1>3, <1>4, RestsChain
  <1> QED BY <1>2, <1>4, <1>5, RestsSettle

\* The success branch fails no task.
LEMMA RestsSucceed ==
    ASSUME NEW s \in Snap, NEW t \in Task PROVE Rests(s, succeed(s, t), {})
  <1> DEFINE outcome == [x \in {t} |-> "succeeded"]
             ended == transitionAttempts(s, {t}, outcome)
             done == transitionTasks(ended, {t}, "succeeded")
             f == [u \in Task |-> IF u \in Successors(t) THEN s.remaining[u] - 1
                                 ELSE s.remaining[u]]
             counted == [done EXCEPT !.remaining = f]
             R == Released(counted, Successors(t))
             released == transitionTasks(counted, R, "ready")
             u == settleWorkflowIfComplete(released)
  <1>1. /\ outcome \in [{t} -> AttemptStatus \ {"running"}] /\ {t} \in SUBSET Task
        /\ "succeeded" \in TaskStatus /\ "ready" \in TaskStatus /\ R \in SUBSET Task
    BY DEF AttemptStatus, TaskStatus, Released, Successors
  <1>2. f \in [Task -> Int]
    BY DEF Snap, Snapshot
  <1>3. succeed(s, t) = Reject(counted) \/ succeed(s, t) = u
    BY DEF succeed
  <1> HIDE DEF outcome, f
  <1>4. ended \in Snap /\ Rests(s, ended, {})
    BY <1>1, AttemptsSteady, SteadyType, RestsAttempts
  <1> HIDE DEF ended
  <1>5. done \in Snap /\ Rests(ended, done, {})
    BY <1>1, <1>4, TasksSteady, SteadyType, RestsTasks
  <1> HIDE DEF done
  <1>6. /\ counted \in Snap /\ counted.task = done.task /\ counted.readyAt = done.readyAt
        /\ counted.err = done.err
    BY <1>2, <1>5 DEF Snap, Snapshot
  <1> HIDE DEF counted, R
  <1>7. Rests(done, counted, {})
    BY <1>6, RestsSame DEF Accepted
  <1>8. released \in Snap /\ Rests(counted, released, {})
    BY <1>1, <1>6, TasksSteady, SteadyType, RestsTasks
  <1> HIDE DEF released
  <1>9. \/ u = released \/ u = transitionWorkflow(released, "failed")
        \/ u = transitionWorkflow(released, "succeeded") \/ u = Reject(released)
    BY DEF settleWorkflowIfComplete
  <1> HIDE DEF u
  <1>10. Rests(released, u, {})
    <2>1. Rests(released, released, {}) /\ Rests(released, Reject(released), {})
      BY <1>8, RestsSame, CalmReject DEF Rests
    <2> QED BY <1>8, <1>9, <2>1, RestsWorkflow
  <1>11. Rests(s, u, {})
    BY <1>4, <1>5, <1>7, <1>8, <1>10, RestsChain
  <1>12. Rests(s, Reject(counted), {})
    BY <1>6, CalmReject DEF Rests
  <1> QED BY <1>3, <1>11, <1>12

\* A task that had failed keeps its history.
LEMMA RestingKept ==
    ASSUME NEW s, Usable(s), Resting(s), NEW u, Moves(s, u), NEW X, Rests(s, u, X), Accepted(u),
           \A t \in X : t \in Task => \/ Len(u.attempts[t]) = MaxAttempts[t]
                                      \/ u.attempts[t][Len(u.attempts[t])].status = "failed"
    PROVE  Resting(u)
  <1> SUFFICES ASSUME NEW t \in Task
               PROVE  /\ u.task[t] # "waiting_retry" => u.readyAt[t] = 0
                      /\ u.task[t] = "failed" =>
                            \/ Len(u.attempts[t]) = MaxAttempts[t]
                            \/ u.attempts[t][Len(u.attempts[t])].status = "failed"
    BY DEF Resting
  <1>1. u.task[t] # "waiting_retry" => u.readyAt[t] = 0
    BY DEF Rests, Resting
  <1>2. ASSUME s.task[t] = "failed"
        PROVE  \/ Len(u.attempts[t]) = MaxAttempts[t]
               \/ u.attempts[t][Len(u.attempts[t])].status = "failed"
    <2>1. PICK n : n = Len(s.attempts[t])
      OBVIOUS
    <2>2. n \in Nat /\ n = Len(u.attempts[t])
      BY <2>1, Lengths DEF Moves, Usable
    <2>3. n > 0 /\ s.attempts[t][n].status # "running"
      BY <1>2, <2>1 DEF Usable, AttemptHistory, TaskHistory, RetryableEnd
    <2>4. u.attempts[t][n] = s.attempts[t][n]
      BY <2>1, <2>2, <2>3 DEF Moves, Follows
    <2> QED BY <1>2, <2>1, <2>2, <2>4 DEF Resting
  <1>3. u.task[t] = "failed" => t \in X \/ s.task[t] = "failed"
    BY DEF Rests
  <1> QED BY <1>1, <1>2, <1>3

Good(s) == Usable(s) /\ Resting(s)

\* A time-out.
LEMMA GoodTimedOut ==
    ASSUME NEW s, Good(s), s.status \notin WorkflowTerminal, NEW t \in Task,
           s.task[t] = "running", NEW outcome \in [{t} -> RetryableEnd],
           NEW u, u = EndAttempts(s, {t}, outcome, Now)
    PROVE  Good(u)
  <1>1. s \in Snap /\ {t} \in SUBSET Task /\ Now \in Int /\ Usable(s) /\ Resting(s)
    BY DEF Good, Usable, Now
  <1>2. outcome \in [{t} -> AttemptStatus \ {"running"}]
    BY DEF RetryableEnd, AttemptStatus
  <1>3. Usable(u)
    BY <1>1, UsableTimedOut
  <1>4. PICK X : X = {x \in {t} : ~(Len(s.attempts[x]) < MaxAttempts[x])}
    OBVIOUS
  <1>5. Rests(s, u, X)
    BY <1>1, <1>2, <1>4, RestsEndAttempts
  <1>6. Moves(s, u)
    BY <1>1, <1>2, EndAttemptsMoves
  <1>7. ASSUME NEW x \in X PROVE Len(u.attempts[x]) = MaxAttempts[x]
    <2>1. x \in Task /\ ~(Len(s.attempts[x]) < MaxAttempts[x])
      BY <1>4, <1>7
    <2>2. /\ Len(s.attempts[x]) \in Nat /\ MaxAttempts[x] \in Nat
          /\ Len(u.attempts[x]) = Len(s.attempts[x])
      BY <1>1, <1>6, <2>1, Lengths, DefinitionAssumption DEF Moves
    <2>3. Len(s.attempts[x]) <= MaxAttempts[x]
      BY <1>1, <2>1 DEF Usable, AttemptHistory, TaskHistory
    <2> QED BY <2>1, <2>2, <2>3
  <1>8. Resting(u)
    BY <1>1, <1>3, <1>5, <1>6, <1>7, RestingKept DEF Usable, Accepted
  <1> QED BY <1>3, <1>8 DEF Good

\* A permanent failure is that of the last attempt.
LEMMA FailedForGood ==
    ASSUME NEW s, Usable(s), s.status \notin WorkflowTerminal, NEW t \in Task,
           s.task[t] = "running", NEW u, u = failPermanently(s, t)
    PROVE  u.attempts[t][Len(u.attempts[t])].status = "failed"
  <1>1. s \in Snap
    BY DEF Usable
  <1>2. PICK v : v = Recounted(s)
    OBVIOUS
  <1>3. Sound(v, {Local})
    BY <1>2, RecountedSound DEF TaskTerminal
  <1>4. Alike(s, v) /\ v.task[t] = "running" /\ v.attempts = s.attempts
    BY <1>1, <1>2, RecountedAlike DEF Alike
  <1>5. PICK w : w = failPermanently(v, t)
    OBVIOUS
  <1>6. "permanent_failure" \in ResultKind /\ Now \in Int
    BY DEF ResultKind, Now
  <1>7. w = ApplyAttemptResult(v, t, "permanent_failure", Now)
    BY <1>5 DEF ApplyAttemptResult
  <1>8. Resolved(v, w, {t}, EndsAs(t, "permanent_failure"))
    BY <1>3, <1>4, <1>6, <1>7, ApplyAttemptResultSound
  <1>9. u.attempts = w.attempts
    BY <1>4, <1>5, AlikeFailPermanently DEF Alike
  <1>10. PICK n : n = Len(s.attempts[t])
    OBVIOUS
  <1>11. n \in Nat /\ n > 0
    BY <1>1, <1>10, Lengths DEF Usable, AttemptHistory, TaskHistory
  <1>12. EndsAs(t, "permanent_failure")[t] = "failed"
    BY DEF EndsAs, EndOf
  <1>13. Len(w.attempts[t]) = n /\ w.attempts[t][n].status = "failed"
    BY <1>4, <1>8, <1>10, <1>11, <1>12 DEF Resolved, LastEnded
  <1> QED BY <1>9, <1>13

\* A result that is accepted.
LEMMA GoodResult ==
    ASSUME NEW s, Good(s), s.status \notin WorkflowTerminal, NEW t \in Task,
           s.task[t] = "running", NEW kind \in ResultKind,
           NEW u, u = ApplyAttemptResult(s, t, kind, Now)
    PROVE  /\ Accepted(u) => Good(u)
           /\ RemainingExact(s) => Accepted(u)
  <1>1. s \in Snap /\ Usable(s) /\ Resting(s) /\ Now \in Int
    BY DEF Good, Usable, Now
  <1>2. ASSUME Accepted(u) PROVE Good(u)
    <2>1. Usable(u) /\ Moves(s, u)
      BY <1>1, <1>2, UsableResult, ResultMoves
    <2>2. CASE kind = "success"
      <3>1. u = succeed(s, t)
        BY <2>2 DEF ApplyAttemptResult
      <3>2. Rests(s, u, {})
        BY <1>1, <3>1, RestsSucceed
      <3>3. Resting(u)
        BY <1>1, <1>2, <2>1, <3>2, RestingKept
      <3> QED BY <2>1, <3>3 DEF Good
    <2>3. CASE kind = "temporary_failure"
      <3>1. PICK outcome : outcome = [x \in {t} |-> "failed"]
        OBVIOUS
      <3>2. u = EndAttempts(s, {t}, outcome, Now) /\ outcome \in [{t} -> RetryableEnd]
        BY <2>3, <3>1 DEF ApplyAttemptResult, RetryableEnd
      <3> QED BY <3>2, GoodTimedOut
    <2>4. CASE kind = "permanent_failure"
      <3>1. u = failPermanently(s, t)
        BY <2>4 DEF ApplyAttemptResult
      <3>2. Rests(s, u, {t}) /\ u.attempts[t][Len(u.attempts[t])].status = "failed"
        BY <1>1, <3>1, RestsFailPermanently, FailedForGood
      <3>3. Resting(u)
        BY <1>1, <1>2, <2>1, <3>2, RestingKept
      <3> QED BY <2>1, <3>3 DEF Good
    <2> QED BY <2>2, <2>3, <2>4 DEF ResultKind
  <1>3. ASSUME RemainingExact(s) PROVE Accepted(u)
    <2>1. s.status \in {"pending", "running"}
      BY <1>1 DEF Snap, Snapshot, WorkflowStatus, WorkflowTerminal
    <2>2. StatusAgrees(s)
      BY <1>1, <2>1 DEF StatusAgrees, Usable, Verdict, TaskTerminal
    <2>3. Sound(s, {Local})
      BY <1>1, <1>3, <2>2 DEF Sound, SnapshotInv, Usable, Snap
    <2>4. Sound(u, {Local})
      BY <1>1, <2>3, ApplyAttemptResultSound
    <2> QED BY <2>4 DEF Sound, SnapshotInv, Accepted
  <1> QED BY <1>2, <1>3

\* A retry.
LEMMA GoodRetry ==
    ASSUME NEW s, Good(s), s.status \notin WorkflowTerminal, NEW t \in Task,
           s.task[t] = "waiting_retry", NEW u, u = MakeRetryReady(s, t)
    PROVE  Good(u)
  <1>1. s \in Snap /\ Usable(s) /\ Resting(s) /\ {t} \in SUBSET Task /\ "ready" \in TaskStatus
    BY DEF Good, Usable, TaskStatus
  <1>2. Usable(u) /\ Accepted(u)
    BY <1>1, UsableRetry DEF Usable, Accepted
  <1>3. u = transitionTasks(s, {t}, "ready")
    BY DEF MakeRetryReady
  <1>4. Moves(s, u)
    BY <1>1, <1>3, TasksSteady DEF Steady
  <1>5. Rests(s, u, {})
    BY <1>1, <1>3, RestsTasks
  <1>6. Resting(u)
    BY <1>1, <1>2, <1>4, <1>5, RestingKept
  <1> QED BY <1>2, <1>6 DEF Good

\* A new status that suits the tasks.
LEMMA GoodStatus ==
    ASSUME NEW s, Good(s), NEW to \in WorkflowStatus \ {"pending"}, to \in workflowTransitions(s.status),
           NEW u, u = transitionWorkflow(s, to),
           to = "succeeded" => \A t \in Task : s.task[t] = "succeeded",
           to = "failed" => \E t \in Task : s.task[t] = "failed",
           to \in WorkflowTerminal => \A t \in Task : s.task[t] \in TaskTerminal
    PROVE  Good(u)
  <1>1. s \in Snap /\ Usable(s) /\ Resting(s)
    BY DEF Good, Usable
  <1>2. Usable(u) /\ Accepted(u)
    BY <1>1, UsableStatus DEF Usable, Accepted
  <1>3. Moves(s, u)
    BY <1>1, WorkflowMoves
  <1>4. Rests(s, u, {})
    BY <1>1, RestsWorkflow
  <1>5. Resting(u)
    BY <1>1, <1>2, <1>3, <1>4, RestingKept
  <1> QED BY <1>2, <1>5 DEF Good

\* A cancellation.
LEMMA GoodCancel ==
    ASSUME NEW s, Good(s), s.status \notin WorkflowTerminal, NEW u, u = CancelRunSnapshot(s)
    PROVE  Good(u) /\ u.status = "canceled" /\ u.err = FALSE
  <1> DEFINE open == {t \in Task : s.task[t] \notin TaskTerminal}
             running == {t \in open : /\ s.task[t] = "running"
                                      /\ s.attempts[t] # <<>>
                                      /\ s.attempts[t][Len(s.attempts[t])].status = "running"}
             outcome == [t \in running |-> "canceled"]
             a == transitionAttempts(s, running, outcome)
             b == transitionTasks(a, open, "canceled")
  <1>1. s \in Snap /\ Usable(s) /\ Resting(s)
    BY DEF Good, Usable
  <1>2. Usable(u) /\ Accepted(u) /\ u.status = "canceled"
    BY <1>1, UsableCancel DEF Usable, Accepted
  <1>3. Moves(s, u)
    BY <1>1, CancelMoves
  <1>4. u = transitionWorkflow(b, "canceled")
    BY DEF CancelRunSnapshot
  <1>5. /\ outcome \in [running -> AttemptStatus \ {"running"}] /\ running \in SUBSET Task
        /\ open \in SUBSET Task /\ "canceled" \in TaskStatus
    BY DEF AttemptStatus, TaskStatus
  <1> HIDE DEF open, running, outcome
  <1>6. a \in Snap /\ Rests(s, a, {})
    BY <1>1, <1>5, AttemptsSteady, SteadyType, RestsAttempts
  <1> HIDE DEF a
  <1>7. b \in Snap /\ Rests(a, b, {})
    BY <1>5, <1>6, TasksSteady, SteadyType, RestsTasks
  <1> HIDE DEF b
  <1>8. Rests(s, u, {})
    BY <1>4, <1>6, <1>7, RestsWorkflow, RestsChain
  <1>9. Resting(u)
    BY <1>1, <1>2, <1>3, <1>8, RestingKept
  <1> QED BY <1>2, <1>9 DEF Good, Accepted

\* A start of a ready task is accepted.
LEMMA GoodStart ==
    ASSUME NEW s, Good(s), s.status = "running", NEW t \in Task, s.task[t] = "ready",
           NEW u, u = prepareTask(s, t)
    PROVE  Good(u) /\ u.err = FALSE
  <1> DEFINE tt == [x \in Task |-> IF x \in {t} THEN "running" ELSE s.task[x]]
             rr == [x \in Task |-> IF x \in {t} THEN 0 ELSE s.readyAt[x]]
             owner == [x \in {t} |-> Local]
             aa == [x \in Task |-> IF x \in {t}
                                   THEN Append(s.attempts[x], [status |-> "running", owner |-> owner[x]])
                                   ELSE s.attempts[x]]
             moved == [s EXCEPT !.task = tt, !.readyAt = rr]
  <1>1. s \in Snap /\ Usable(s) /\ Resting(s) /\ s.err = FALSE
    BY DEF Good, Usable
  <1>2. \A x \in {t} : "running" \in taskTransitions(s.task[x])
    BY DEF taskTransitions
  <1>3. u = [moved EXCEPT !.attempts = aa]
    BY <1>2 DEF prepareTask, StartQueuedAttempts, transitionTasks
  <1>4. rr[t] = 0
    OBVIOUS
  <1> HIDE DEF tt, rr, aa
  <1>5. u.err = FALSE /\ u.readyAt = rr
    BY <1>1, <1>3 DEF Snap, Snapshot
  <1>6. Accepted(u)
    BY <1>5 DEF Accepted
  <1>7. Usable(u)
    BY <1>1, <1>6, UsableStart
  <1>8. /\ u.task[t] = "running"
        /\ \A x \in Task \ {t} : /\ u.task[x] = s.task[x] /\ u.attempts[x] = s.attempts[x]
                                 /\ u.readyAt[x] = s.readyAt[x]
    BY <1>1, <1>6, StartShape
  <1>9. Resting(u)
    BY <1>1, <1>4, <1>5, <1>8 DEF Resting
  <1> QED BY <1>5, <1>7, <1>9 DEF Good

\* validateAttemptHistoryForResume accepts what the Engine stored.
LEMMA ValidHistory ==
    ASSUME NEW s, Good(s), s.status \notin WorkflowTerminal, NEW t \in Task
    PROVE  validAttemptHistory(s, t)
  <1>1. /\ s \in Snap /\ Usable(s) /\ Resting(s)
    BY DEF Good, Usable
  <1>2. s.task[t] \notin {"canceled", "queued"} /\ s.task[t] \in TaskStatus
    BY <1>1 DEF Usable, Verdict, Snap, Snapshot, WorkflowStatus, WorkflowTerminal
  <1>3. PICK a, n, status : a = s.attempts[t] /\ n = Len(a) /\ status = s.task[t]
    OBVIOUS
  <1>4. PICK limit \in Nat : limit = MaxAttempts[t]
    BY DefinitionAssumption
  <1>5. n \in Nat /\ TaskHistory(status, a, limit)
    BY <1>1, <1>3, <1>4, Lengths DEF Usable, AttemptHistory
  <1>6. \A i \in 1..n : a[i].status \in AttemptStatus
    <2>1. a \in Seq(AttemptOf({Local}))
      BY <1>1, <1>3 DEF Snap, Snapshot
    <2>2. \A i \in 1..Len(a) : a[i] \in AttemptOf({Local})
      BY <2>1
    <2>3. \A x \in AttemptOf({Local}) : x.status \in AttemptStatus
      BY DEF AttemptOf
    <2> QED BY <1>3, <2>2, <2>3
  <1>7. /\ status # "waiting_retry" => s.readyAt[t] = 0
        /\ status = "failed" => n = limit \/ a[n].status = "failed"
    BY <1>1, <1>3, <1>4 DEF Resting
  <1>8. /\ n <= limit
        /\ status \in {"ready", "waiting_retry"} => n < limit
        /\ status \in {"running", "succeeded"} => n > 0 /\ a[n].status = status
        /\ status \in {"waiting_retry", "failed"} => n > 0 /\ a[n].status \in RetryableEnd
        /\ status \in {"waiting_dependencies", "skipped"} => n = 0
        /\ \A i \in 1..n : a[i].status \in {"running", "succeeded", "canceled"} =>
              i = n /\ status = a[i].status
    BY <1>3, <1>5 DEF TaskHistory
  <1>9. \A i \in 1..n : a[i].status \in {"running", "succeeded", "canceled"} \cup RetryableEnd
    BY <1>6 DEF AttemptStatus, RetryableEnd
  <1>10. status = "ready" => n = 0 \/ (n > 0 /\ a[n].status \in RetryableEnd)
    BY <1>5, <1>8, <1>9
  <1>11. \A i \in 1..n : /\ a[i].status = "running" => i = n /\ status = "running"
                         /\ i < n => a[i].status \in RetryableEnd
    BY <1>5, <1>8, <1>9
  <1>12. status = "failed" =>
            (n > 0 /\ a[n].status = "failed")
              \/ (n > 0 /\ a[n].status \in {"timed_out", "interrupted"} /\ ~(n < limit))
    BY <1>5, <1>7, <1>8 DEF RetryableEnd
  <1>13. \/ status \in {"waiting_dependencies", "skipped"} \/ status = "ready"
         \/ status = "running" \/ status = "waiting_retry" \/ status = "succeeded"
         \/ status = "failed"
    BY <1>2, <1>3 DEF TaskStatus
  <1> QED BY <1>3, <1>4, <1>7, <1>8, <1>10, <1>11, <1>12, <1>13 DEF validAttemptHistory

\* A Resume is never refused.
LEMMA GoodPrepare ==
    ASSUME NEW s, Good(s), s.status \notin WorkflowTerminal,
           NEW failed, failed = interruptRunning(s),
           NEW counted, counted = rebuildDependencies(failed),
           NEW u, u = prepareForResume(s, counted)
    PROVE  Good(u) /\ u.err = FALSE
  <1>1. Usable(s) /\ Resting(s)
    BY DEF Good
  <1>2. \A t \in Task : validAttemptHistory(s, t)
    BY ValidHistory
  <1>3. /\ Accepted(u) => Usable(u)
        /\ (\A t \in Task : validAttemptHistory(s, t)) => Accepted(u)
        /\ \A t \in Task : u.task[t] # "waiting_retry" /\ s.task[t] # "running" =>
              u.readyAt[t] = s.readyAt[t] \/ u.readyAt[t] = 0
        /\ \A t \in Task : u.task[t] # "waiting_retry" /\ s.task[t] = "running" =>
              u.readyAt[t] = 0
        /\ \A t \in Task : u.task[t] = "failed" =>
              \/ s.task[t] = "failed" /\ u.attempts[t] = s.attempts[t]
              \/ Len(u.attempts[t]) = MaxAttempts[t]
        /\ \A t \in Task : s.task[t] = "waiting_retry" => u.task[t] = "waiting_retry"
    BY <1>1, UsablePrepare
  <1>4. Accepted(u) /\ Usable(u)
    BY <1>2, <1>3
  <1>5. Resting(u)
    BY <1>1, <1>3 DEF Resting
  <1> QED BY <1>4, <1>5 DEF Good, Accepted

-----------------------------------------------------------------------------
(* The Engine's Runs.                                                        *)

(* The Run in memory and the stored one are good, and the same while it is   *)
(* executed; the loop waits only when it has started what it could; a        *)
(* recorded cancellation decides the verdict; a Run the process stops over   *)
(* has lost a counter.                                                       *)
StoredKnows ==
    /\ Good(mem.snap)
    /\ Good(persisted.snap)
    /\ pc \in Executing => mem.snap = persisted.snap
    /\ pc = "loop" => Ready = {} \/ ~SlotFree
    /\ store.run.cancel /\ Ended => store.run.status = "canceled"
    /\ pc = "failed" => ~RemainingExact(persisted.snap)

\* The next state, part by part.
LEMMA StoredNext ==
    ASSUME Good(mem'.snap), Good(loadSnapshot(store').snap),
           pc' \in Executing => mem'.snap = loadSnapshot(store').snap,
           pc' = "loop" => \/ \A t \in Task : mem'.snap.task[t] # "ready"
                           \/ ~(Cardinality(work'.active) < Concurrency),
           store'.run.cancel /\ store'.run.status \in WorkflowTerminal =>
               store'.run.status = "canceled",
           pc' = "failed" => ~RemainingExact(loadSnapshot(store').snap)
    PROVE  StoredKnows'
  <1>1. (persisted.snap)' = loadSnapshot(store').snap
    BY DEF persisted, loadSnapshot
  <1>2. Good(mem.snap)'
    BY DEF Good, Usable, Resting, DependencyOrder, AttemptHistory, Counted, Verdict, Unsucceeded
  <1>3. Good(persisted.snap)'
    BY <1>1 DEF Good, Usable, Resting, DependencyOrder, AttemptHistory, Counted, Verdict, Unsucceeded
  <1>4. RemainingExact(persisted.snap)' <=> RemainingExact(loadSnapshot(store').snap)
    BY <1>1 DEF RemainingExact, Unsucceeded
  <1>5. (pc = "loop" => Ready = {} \/ ~SlotFree)'
    BY DEF Ready, SlotFree
  <1>6. (store.run.cancel /\ Ended => store.run.status = "canceled")'
    BY DEF Ended
  <1> QED BY <1>1, <1>2, <1>3, <1>4, <1>5, <1>6 DEF StoredKnows

\* A step that changes neither the rows nor the copy.
LEMMA StoredQuiet ==
    ASSUME StoredKnows, store' = store, mem' = mem,
           pc' \in Executing => pc \in Executing,
           pc' = "loop" => \/ \A t \in Task : mem.snap.task[t] # "ready"
                           \/ ~(Cardinality(work'.active) < Concurrency),
           pc' = "failed" => ~RemainingExact(loadSnapshot(store).snap)
    PROVE  StoredKnows'
  <1>1. /\ Good(mem.snap) /\ Good(loadSnapshot(store).snap)
        /\ pc \in Executing => mem.snap = loadSnapshot(store).snap
        /\ store.run.cancel /\ store.run.status \in WorkflowTerminal =>
              store.run.status = "canceled"
    BY DEF StoredKnows, persisted, Ended
  <1> QED BY <1>1, StoredNext

\* Every save.
LEMMA SaveStored ==
    ASSUME EngineInv, LoopKnows, StoredKnows, pc \in Executing,
           NEW s, Follows(mem.snap, s), s.err = FALSE, Good(s),
           NEW next, next \in {"enter", "start", "settle", "finalize", "idle"}, NEW w,
           Save(s, next, w)
    PROVE  StoredKnows'
  <1>1. Typed /\ Kept(store) /\ s \in Snap /\ ~mem.cancel
    BY DEF EngineInv, Follows
  <1>2. /\ Good(mem.snap) /\ Good(loadSnapshot(store).snap) /\ Stale
        /\ store.run.cancel /\ store.run.status \in WorkflowTerminal =>
              store.run.status = "canceled"
    BY DEF LoopKnows, StoredKnows, persisted, Ended
  <1>3. Saved(s) \in Loaded /\ Saved(s).snap = s /\ Saved(s).cancel = mem.cancel
    BY <1>1, SavedType
  <1>4. fresh => /\ applyChangeSet(store, Change(s)) = insertSnapshot(Saved(s))
                 /\ loadSnapshot(insertSnapshot(Saved(s))) = Saved(s)
    BY <1>3, WriteRows, LoadInserted
  <1>5. ~insertSnapshot(Saved(s)).run.cancel
    BY <1>1, <1>3 DEF insertSnapshot, RunRow
  <1>6. \/ Commit(s) /\ pc' = next
        \/ Conflict
        \/ StorageError(s) /\ pc' = Proceed("down")
    BY DEF Save
  <1>7. CASE Commit(s) /\ pc' = next
    <2>1. /\ mem'.snap = s /\ loadSnapshot(store').snap = s
          /\ ~store'.run.cancel
      BY <1>3, <1>4, <1>5, <1>7 DEF Commit
    <2>2. Good(mem'.snap) /\ Good(loadSnapshot(store').snap)
      BY <2>1
    <2> QED BY <1>7, <2>1, <2>2, StoredNext
  <1>8. CASE Conflict
    <2>1. store.run.cancel
      BY <1>2, <1>8 DEF Conflict, Stale
    <2>2. pc' \in {"settle", "finalize", "idle"}
      BY <1>1, <1>8, <2>1, ProceedTo DEF Conflict, Typed
    <2>3. store' = store /\ mem' \in {mem, loadSnapshot(store)}
      BY <1>8 DEF Conflict, persisted
    <2>4. Good(mem'.snap) /\ Good(loadSnapshot(store').snap)
      BY <1>2, <2>3
    <2> QED BY <1>2, <2>2, <2>3, <2>4, StoredNext DEF Executing
  <1>9. CASE StorageError(s) /\ pc' = Proceed("down")
    <2>1. pc' \in {"settle", "finalize", "idle", "down"}
      BY <1>1, <1>9, ProceedTo DEF Typed
    <2>2. mem' = mem /\ (store' = store \/ (fresh /\ store' = insertSnapshot(Saved(s))))
      BY <1>4, <1>9 DEF StorageError
    <2>3. Good(mem'.snap) /\ Good(loadSnapshot(store').snap)
      BY <1>2, <1>3, <1>4, <2>2
    <2>4. store'.run.cancel /\ store'.run.status \in WorkflowTerminal =>
             store'.run.status = "canceled"
      BY <1>2, <1>5, <2>2
    <2> QED BY <2>1, <2>3, <2>4, StoredNext DEF Executing
  <1> QED BY <1>6, <1>7, <1>8, <1>9

\* A new Run is good.
LEMMA StoredInit == ASSUME Init PROVE StoredKnows
  <1>1. Sound(newRunSnapshot, {Local})
    BY NewRunSound
  <1>2. PICK s : s = newRunSnapshot
    OBVIOUS
  <1>3. /\ s \in Snap /\ s.err = FALSE /\ s.status = "pending" /\ RemainingExact(s)
        /\ DependencyOrder(s) /\ AttemptHistory(s) /\ StatusAgrees(s)
    BY <1>1, <1>2 DEF Sound, Snap, SnapshotInv, newRunSnapshot
  <1>4. \A t \in Task : s.task[t] \in {"ready", "waiting_dependencies"} /\ s.readyAt[t] = 0
    BY <1>2 DEF newRunSnapshot
  <1>5. Verdict(s)
    BY <1>3, <1>4 DEF Verdict, WorkflowTerminal
  <1>6. Usable(s)
    BY <1>3, <1>4, <1>5 DEF Usable, Counted, RemainingExact
  <1>7. Resting(s)
    BY <1>4 DEF Resting
  <1>8. mem \in Loaded /\ mem.snap = s /\ store = insertSnapshot(mem) /\ mem.cancel = FALSE
    BY <1>2, <1>3 DEF Init, Loaded, Snap
  <1>9. persisted = mem
    BY <1>3, <1>8, LoadInserted DEF persisted
  <1>10. Good(mem.snap) /\ Good(persisted.snap) /\ ~store.run.cancel
    BY <1>6, <1>7, <1>8, <1>9 DEF Good, insertSnapshot, RunRow
  <1> QED BY <1>9, <1>10 DEF Init, StoredKnows

\* Execute and Resume.
LEMMA StoredBegin == ASSUME StoredKnows, Begin PROVE StoredKnows'
  <1>1. store' = store /\ mem' = mem /\ pc' \in {"resume", "execute"}
    BY DEF Begin
  <1> QED BY <1>1, StoredQuiet DEF Executing

\* What is loaded is what was stored; it loads.
LEMMA StoredLoad == ASSUME EngineInv, StoredKnows, LoadRun PROVE StoredKnows'
  <1>1. /\ Typed /\ Kept(store) /\ store' = store /\ mem' = loadSnapshot(store)
        /\ pc \in {"execute", "resume"}
    BY DEF EngineInv, LoadRun, persisted
  <1>2. /\ Good(loadSnapshot(store).snap)
        /\ store.run.cancel /\ store.run.status \in WorkflowTerminal =>
              store.run.status = "canceled"
    BY DEF StoredKnows, persisted, Ended
  <1>3. persisted.snap.err = FALSE
    BY <1>1 DEF Kept, persisted
  <1>4. \A next : Proceed(next) \in {next, "settle", "idle"}
    BY <1>1 DEF Proceed, Typed
  <1>5. pc' \in {"idle", "settle", "enter", "prepare"}
    BY <1>1, <1>3, <1>4 DEF LoadRun
  <1> QED BY <1>1, <1>2, <1>5, StoredNext

\* A Resume is not refused.
LEMMA StoredPrepare == ASSUME EngineInv, LoopKnows, StoredKnows, Prepare PROVE StoredKnows'
  <1>1. /\ Typed /\ pc = "prepare" /\ mem.snap \in Snap /\ Good(mem.snap)
        /\ mem.snap.status \notin WorkflowTerminal
    BY DEF EngineInv, Prepare, Typed, Loaded, Snap, StoredKnows
  <1>2. PICK failed : failed = interruptRunning(mem.snap)
    OBVIOUS
  <1>3. PICK counted : counted = rebuildDependencies(failed)
    OBVIOUS
  <1>4. PICK s : s = prepareForResume(mem.snap, counted)
    OBVIOUS
  <1>5. Follows(mem.snap, s)
    BY <1>1, <1>2, <1>3, <1>4, PrepareSteady DEF Steady, Moves
  <1>6. Good(s) /\ s.err = FALSE
    BY <1>1, <1>2, <1>3, <1>4, GoodPrepare
  <1>7. PICK next : next = Proceed("enter")
    OBVIOUS
  <1>8. Save(s, next, NoWork)
    BY <1>2, <1>3, <1>4, <1>6, <1>7 DEF Prepare
  <1>9. next \in {"enter", "settle", "finalize", "idle"}
    BY <1>1, <1>7, ProceedTo DEF Typed
  <1> QED BY <1>1, <1>5, <1>6, <1>8, <1>9, SaveStored DEF Executing

\* The Run becomes running.
LEMMA StoredEnter == ASSUME EngineInv, LoopKnows, StoredKnows, Enter PROVE StoredKnows'
  <1>1. Typed /\ pc = "enter" /\ mem.snap \in Snap /\ Good(mem.snap)
    BY DEF EngineInv, Enter, Typed, Loaded, Snap, StoredKnows
  <1>2. CASE mem.snap.status = "pending"
    <2>1. PICK s : s = transitionWorkflow(mem.snap, "running")
      OBVIOUS
    <2>2. PICK next : next = Proceed("start")
      OBVIOUS
    <2>3. PICK w : Save(s, next, w)
      BY <1>2, <2>1, <2>2 DEF Enter
    <2>4. next \in {"start", "settle", "finalize", "idle"}
      BY <1>1, <2>2, ProceedTo DEF Typed
    <2>5. /\ "running" \in WorkflowStatus \ {"pending"} /\ "running" \notin WorkflowTerminal
          /\ "running" \in workflowTransitions(mem.snap.status)
      BY <1>2 DEF WorkflowStatus, WorkflowTerminal, workflowTransitions
    <2>6. Follows(mem.snap, s)
      BY <1>1, <2>1, <2>5, WorkflowMoves DEF Moves
    <2>7. Good(s)
      BY <1>1, <2>1, <2>5, GoodStatus
    <2>8. s.err = FALSE
      BY <2>7 DEF Good, Usable
    <2> QED BY <1>1, <2>3, <2>4, <2>6, <2>7, <2>8, SaveStored DEF Executing
  <1>3. CASE mem.snap.status # "pending"
    <2>1. pc' = "start" /\ UNCHANGED <<store, mem>>
      BY <1>3 DEF Enter
    <2> QED BY <1>1, <2>1, StoredQuiet DEF Executing
  <1> QED BY <1>2, <1>3

\* A start is not refused.
LEMMA StoredStartTask == ASSUME EngineInv, LoopKnows, StoredKnows, StartTask PROVE StoredKnows'
  <1>1. /\ Typed /\ pc = "start" /\ InLoop /\ mem.snap \in Snap /\ Good(mem.snap)
        /\ mem.snap.status # "pending"
    BY DEF EngineInv, StartTask, Typed, Loaded, Snap, InLoop, StoredKnows
  <1>2. PICK t : t = FirstReady
    OBVIOUS
  <1>3. t \in Task /\ mem.snap.task[t] = "ready"
    BY <1>2, FirstReadyReady DEF StartTask, Ready
  <1>4. mem.snap.status = "running"
    <2>1. mem.snap.status \notin WorkflowTerminal
      BY <1>1, <1>3, LoopOpen DEF TaskTerminal
    <2> QED BY <1>1, <2>1 DEF Snap, Snapshot, WorkflowStatus, WorkflowTerminal
  <1>5. PICK s : s = prepareTask(mem.snap, t)
    OBVIOUS
  <1>6. Follows(mem.snap, s) /\ Good(s) /\ s.err = FALSE
    BY <1>1, <1>3, <1>4, <1>5, StartFollows, GoodStart
  <1>7. PICK next : next = Proceed("start")
    OBVIOUS
  <1>8. PICK w : Save(s, next, w)
    BY <1>2, <1>5, <1>6, <1>7 DEF StartTask
  <1>9. next \in {"start", "settle", "finalize", "idle"}
    BY <1>1, <1>7, ProceedTo DEF Typed
  <1> QED BY <1>1, <1>6, <1>8, <1>9, SaveStored DEF Executing

\* The loop waits once nothing more can be started.
LEMMA StoredAllStarted == ASSUME StoredKnows, AllStarted PROVE StoredKnows'
  <1>1. store' = store /\ mem' = mem /\ work' = work /\ pc' = "loop" /\ pc = "start"
    BY DEF AllStarted
  <1>2. (\A t \in Task : mem.snap.task[t] # "ready") \/ ~(Cardinality(work'.active) < Concurrency)
    BY <1>1 DEF AllStarted, Ready, SlotFree
  <1> QED BY <1>1, <1>2, StoredQuiet DEF Executing

\* The loop sees that it was stopped.
LEMMA StoredStopNoticed == ASSUME EngineInv, StoredKnows, StopNoticed PROVE StoredKnows'
  <1>1. pc' \in {"settle", "finalize", "idle"}
    BY ProceedTo DEF StopNoticed, EngineInv, Typed
  <1> QED BY <1>1, StoredQuiet DEF StopNoticed, Executing

\* An event that applies; a result is refused only for a lost counter.
LEMMA StoredApplied ==
    ASSUME EngineInv, LoopKnows, StoredKnows, pc = "loop", NEW t, NEW s, NEW w,
           Follows(mem.snap, s), Accepted(s) => Good(s),
           RemainingExact(mem.snap) => Accepted(s),
           NEW applied, applied, Apply(applied, s, t, w)
    PROVE  StoredKnows'
  <1>1. mem.snap = loadSnapshot(store).snap /\ s \in Snap
    BY DEF StoredKnows, persisted, Executing, Follows
  <1>2. CASE s.err
    <2>1. pc' = "failed" /\ UNCHANGED <<store, mem>>
      BY <1>2 DEF Apply
    <2>2. ~RemainingExact(loadSnapshot(store).snap)
      BY <1>1, <1>2 DEF Accepted
    <2> QED BY <2>1, <2>2, StoredQuiet DEF Executing
  <1>3. CASE ~s.err
    <2>1. s.err = FALSE /\ Good(s)
      BY <1>1, <1>3 DEF Snap, Snapshot, Accepted
    <2>2. PICK v : Save(s, "start", v)
      BY <1>3 DEF Apply
    <2> QED BY <2>1, <2>2, SaveStored DEF Executing
  <1> QED BY <1>2, <1>3

\* An executor returns.
LEMMA StoredCompletion ==
    ASSUME EngineInv, LoopKnows, StoredKnows, NEW key \in work.executors,
           NEW kind \in ExecutionKind, Completion(key, kind)
    PROVE  StoredKnows'
  <1>1. /\ pc = "loop" /\ mem.snap \in Snap /\ work \in Work /\ Good(mem.snap)
        /\ (\A t \in Task : mem.snap.task[t] # "ready") \/ ~(Cardinality(work.active) < Concurrency)
    BY DEF EngineInv, Completion, Receiving, Typed, Loaded, Snap, StoredKnows, Ready, SlotFree
  <1>2. PICK w : w = [work EXCEPT !.active = @ \ {key}, !.executors = @ \ {key}]
    OBVIOUS
  <1>3. CASE key \notin work.active
    <2>1. work' = w /\ UNCHANGED <<store, mem, pc>>
      BY <1>2, <1>3 DEF Completion, IsActive
    <2>2. work'.active = work.active
      BY <1>1, <1>2, <1>3, <2>1 DEF Work
    <2> QED BY <1>1, <2>1, <2>2, StoredQuiet
  <1>4. CASE key \in work.active /\ kind = "canceled"
    <2>1. pc' = "finalize" /\ UNCHANGED <<store, mem>>
      BY <1>4 DEF Completion, IsActive
    <2> QED BY <2>1, StoredQuiet DEF Executing
  <1>5. CASE key \in work.active /\ kind # "canceled"
    <2>1. PICK t : t = key[1]
      OBVIOUS
    <2>2. /\ t \in Task /\ activeAttempt(mem.snap, key[1], key[2])
          /\ mem.snap.status \notin WorkflowTerminal
      BY <1>1, <1>5, <2>1, ActiveApplies
    <2>3. kind \in ResultKind /\ mem.snap.task[t] = "running"
      BY <1>5, <2>1, <2>2 DEF ExecutionKind, activeAttempt
    <2>4. PICK s : s = ApplyAttemptResult(mem.snap, t, kind, Now)
      OBVIOUS
    <2>5. Follows(mem.snap, s)
      BY <1>1, <2>2, <2>3, <2>4, ResultMoves DEF Moves
    <2>6. (Accepted(s) => Good(s)) /\ (RemainingExact(mem.snap) => Accepted(s))
      BY <1>1, <2>2, <2>3, <2>4, GoodResult
    <2>7. PICK applied : applied = activeAttempt(mem.snap, key[1], key[2])
      OBVIOUS
    <2>8. applied /\ Apply(applied, s, t, w)
      BY <1>2, <1>5, <2>1, <2>2, <2>4, <2>7 DEF Completion, IsActive
    <2> QED BY <1>1, <2>5, <2>6, <2>8, StoredApplied
  <1> QED BY <1>3, <1>4, <1>5

\* The timer of an attempt fires.
LEMMA StoredTimedOut ==
    ASSUME EngineInv, LoopKnows, StoredKnows, NEW key \in work.timers, TimedOut(key)
    PROVE  StoredKnows'
  <1>1. /\ pc = "loop" /\ mem.snap \in Snap /\ work \in Work /\ Good(mem.snap)
        /\ (\A t \in Task : mem.snap.task[t] # "ready") \/ ~(Cardinality(work.active) < Concurrency)
    BY DEF EngineInv, TimedOut, Receiving, Typed, Loaded, Snap, StoredKnows, Ready, SlotFree
  <1>2. PICK w : w = [work EXCEPT !.active = @ \ {key}, !.timers = @ \ {key}]
    OBVIOUS
  <1>3. CASE key \notin work.active
    <2>1. work' = w /\ UNCHANGED <<store, mem, pc>>
      BY <1>2, <1>3 DEF TimedOut, IsActive
    <2>2. work'.active = work.active
      BY <1>1, <1>2, <1>3, <2>1 DEF Work
    <2> QED BY <1>1, <2>1, <2>2, StoredQuiet
  <1>4. CASE key \in work.active
    <2>1. PICK t : t = key[1]
      OBVIOUS
    <2>2. /\ t \in Task /\ activeAttempt(mem.snap, key[1], key[2])
          /\ mem.snap.status \notin WorkflowTerminal
      BY <1>1, <1>4, <2>1, ActiveApplies
    <2>3. mem.snap.task[t] = "running" /\ {t} \in SUBSET Task /\ Now \in Int
      BY <2>1, <2>2 DEF activeAttempt, Now
    <2>4. PICK outcome : outcome = [x \in {t} |-> "timed_out"]
      OBVIOUS
    <2>5. /\ outcome \in [{t} -> RetryableEnd]
          /\ outcome \in [{t} -> AttemptStatus \ {"running"}]
      BY <2>4 DEF RetryableEnd, AttemptStatus
    <2>6. PICK s : s = EndAttempts(mem.snap, {t}, outcome, Now)
      OBVIOUS
    <2>7. Follows(mem.snap, s)
      BY <1>1, <2>2, <2>3, <2>5, <2>6, EndAttemptsMoves DEF Moves
    <2>8. Good(s)
      BY <1>1, <2>2, <2>3, <2>5, <2>6, GoodTimedOut
    <2>9. Accepted(s)
      BY <2>8 DEF Good, Usable, Accepted
    <2>10. PICK applied : applied = activeAttempt(mem.snap, key[1], key[2])
      OBVIOUS
    <2>11. applied /\ Apply(applied, s, t, w)
      BY <1>2, <1>4, <2>1, <2>2, <2>4, <2>6, <2>10 DEF TimedOut, IsActive
    <2> QED BY <1>1, <2>7, <2>8, <2>9, <2>11, StoredApplied
  <1> QED BY <1>3, <1>4

\* A retry timer fires.
LEMMA StoredRetryFired ==
    ASSUME EngineInv, LoopKnows, StoredKnows, NEW timer \in work.retries, RetryFired(timer)
    PROVE  StoredKnows'
  <1>1. /\ pc = "loop" /\ InLoop /\ mem.snap \in Snap /\ work \in Work /\ Good(mem.snap)
    BY DEF EngineInv, RetryFired, Receiving, InLoop, Typed, Loaded, Snap, StoredKnows
  <1>2. PICK w : w = [work EXCEPT !.retries = @ \ {timer}]
    OBVIOUS
  <1>3. PICK t \in Task, n \in Nat, at \in Int : timer = <<<<t, n>>, at>>
    BY <1>1 DEF Work, AttemptKey
  <1>4. PICK applied : applied = (/\ retryDue(mem.snap, t, at)
                                  /\ Len(mem.snap.attempts[t]) = n)
    OBVIOUS
  <1>5. Apply(applied, MakeRetryReady(mem.snap, t), t, w)
    BY <1>2, <1>3, <1>4 DEF RetryFired
  <1>6. CASE ~applied
    <2>1. pc' = "start" /\ UNCHANGED <<store, mem>>
      BY <1>5, <1>6 DEF Apply
    <2> QED BY <1>1, <2>1, StoredQuiet DEF Executing
  <1>7. CASE applied
    <2>1. mem.snap.task[t] = "waiting_retry"
      BY <1>4, <1>7 DEF retryDue
    <2>2. mem.snap.status \notin WorkflowTerminal
      BY <1>1, <2>1, LoopOpen DEF TaskTerminal
    <2>3. PICK s : s = MakeRetryReady(mem.snap, t)
      OBVIOUS
    <2>4. Follows(mem.snap, s)
      BY <1>1, <2>3, TasksSteady DEF MakeRetryReady, TaskStatus, Steady, Moves
    <2>5. Good(s)
      BY <1>1, <2>1, <2>2, <2>3, GoodRetry
    <2>6. Accepted(s)
      BY <2>5 DEF Good, Usable, Accepted
    <2>7. Apply(applied, s, t, w)
      BY <1>5, <2>3
    <2> QED BY <1>1, <1>7, <2>4, <2>5, <2>6, <2>7, StoredApplied
  <1> QED BY <1>6, <1>7

(* A Run of which nothing runs, waits for its retry or is ready has ended    *)
(* all its tasks, and if none failed, all succeeded.                         *)
LEMMA NothingLeft ==
    ASSUME NEW s, Usable(s), s.status \notin WorkflowTerminal,
           \A t \in Task : s.task[t] \notin {"ready", "running", "waiting_retry"}
    PROVE  /\ \A t \in Task : s.task[t] \in TaskTerminal
           /\ (\A t \in Task : s.task[t] # "failed") => \A t \in Task : s.task[t] = "succeeded"
  <1>1. /\ s \in Snap /\ DependencyOrder(s) /\ Verdict(s)
        /\ \A t \in Task : s.task[t] # "queued"
    BY DEF Usable
  <1>2. s.status \in {"pending", "running"} /\ \A t \in Task : s.task[t] # "canceled"
    BY <1>1 DEF Snap, Snapshot, WorkflowStatus, WorkflowTerminal, Verdict
  <1>3. ASSUME NEW t \in Task, s.task[t] \notin TaskTerminal PROVE FALSE
    <2>1. StatusAgrees(s)
      BY <1>1, <1>2, <1>3 DEF StatusAgrees, Verdict
    <2>2. NeverStuck(s)
      BY <1>1, <2>1, OpenRunNeverStuck DEF Snap
    <2> QED BY <1>1, <1>2, <2>2 DEF NeverStuck
  <1>4. ASSUME \A t \in Task : s.task[t] # "failed"
        PROVE  \A t \in Task : s.task[t] = "succeeded"
    <2>1. \A t \in Task : s.task[t] # "skipped"
      BY <1>1, <1>4, NoSkipWithoutFailure DEF Snap
    <2> QED BY <1>2, <1>3, <1>4, <2>1 DEF TaskTerminal
  <1> QED BY <1>3, <1>4

\* The loop ends with the verdict the tasks deserve.
LEMMA StoredLeave == ASSUME EngineInv, LoopKnows, StoredKnows, Leave PROVE StoredKnows'
  <1>1. /\ Typed /\ pc = "loop" /\ InLoop /\ mem.snap \in Snap /\ Good(mem.snap)
        /\ Tracks(mem.snap, work) /\ work.active = {} /\ ~HasWaitingRetry
        /\ mem.snap.status # "pending"
    BY DEF EngineInv, Leave, Receiving, InLoop, Typed, Loaded, Snap, LoopKnows, StoredKnows
  <1>2. CASE Terminal(mem)
    <2>1. pc' = "idle" /\ UNCHANGED <<store, mem>>
      BY <1>2 DEF Leave
    <2> QED BY <2>1, StoredQuiet DEF Executing
  <1>3. CASE ~Terminal(mem)
    <2>1. mem.snap.status = "running"
      BY <1>1, <1>3 DEF Terminal, Snap, Snapshot, WorkflowStatus, WorkflowTerminal
    <2>2. \A t \in Task : mem.snap.task[t] # "running"
      BY <1>1 DEF Tracks
    <2>3. \A t \in Task : mem.snap.task[t] # "waiting_retry"
      BY <1>1 DEF HasWaitingRetry
    <2>4. Cardinality(work.active) = 0 /\ 0 < Concurrency
      BY <1>1, FS_EmptySet, EngineAssumption
    <2>5. \A t \in Task : mem.snap.task[t] # "ready"
      BY <1>1, <2>4 DEF StoredKnows, SlotFree, Ready
    <2>6. /\ \A t \in Task : mem.snap.task[t] \in TaskTerminal
          /\ (\A t \in Task : mem.snap.task[t] # "failed") =>
                \A t \in Task : mem.snap.task[t] = "succeeded"
      BY <1>1, <1>3, <2>2, <2>3, <2>5, NothingLeft DEF Good, Terminal
    <2>7. PICK to : to = IF \E t \in Task : mem.snap.task[t] = "failed" THEN "failed"
                         ELSE "succeeded"
      OBVIOUS
    <2>8. /\ to \in {"failed", "succeeded"}
          /\ to = "succeeded" => \A t \in Task : mem.snap.task[t] = "succeeded"
          /\ to = "failed" => \E t \in Task : mem.snap.task[t] = "failed"
      BY <2>6, <2>7
    <2>9. PICK s : s = transitionWorkflow(mem.snap, to)
      OBVIOUS
    <2>10. Save(s, "idle", NoWork)
      BY <1>3, <2>7, <2>8, <2>9 DEF Leave
    <2>11. to \in WorkflowStatus \ {"pending"} /\ to \in workflowTransitions(mem.snap.status)
      BY <2>1, <2>8 DEF WorkflowStatus, workflowTransitions
    <2>12. Follows(mem.snap, s)
      BY <1>1, <2>9, <2>11, WorkflowMoves DEF Moves
    <2>13. Good(s)
      BY <1>1, <2>6, <2>8, <2>9, <2>11, GoodStatus
    <2>14. s.err = FALSE
      BY <2>13 DEF Good, Usable
    <2> QED BY <1>1, <2>10, <2>12, <2>13, <2>14, SaveStored DEF Executing
  <1> QED BY <1>2, <1>3

\* finalizeCancellation: an open Run can always be canceled.
LEMMA StoredFinalize == ASSUME EngineInv, StoredKnows, Finalize PROVE StoredKnows'
  <1>1. /\ Typed /\ pc \in Canceling /\ mem.snap \in Snap
        /\ Good(mem.snap) /\ Good(loadSnapshot(store).snap)
        /\ store.run.cancel /\ store.run.status \in WorkflowTerminal =>
              store.run.status = "canceled"
    BY DEF EngineInv, Finalize, Canceling, Typed, Loaded, Snap, StoredKnows, persisted, Ended
  <1>2. PICK s : s = CancelRunSnapshot(mem.snap)
    OBVIOUS
  <1>3. ~Terminal(mem) => Good(s) /\ s.status = "canceled" /\ s.err = FALSE
    BY <1>1, <1>2, GoodCancel DEF Terminal
  <1>4. Follows(mem.snap, s) /\ s \in Snap
    BY <1>1, <1>2, CancelMoves DEF Moves, Follows
  <1>5. \/ pc' \in {"idle", "down"} /\ UNCHANGED <<store, mem>>
        \/ ~Terminal(mem) /\ Commit(s) /\ pc' = "idle"
        \/ /\ pc' \in {"finalizeAgain", "settleAgain", "settle"}
           /\ mem' = loadSnapshot(store) /\ UNCHANGED store
        \/ ~Terminal(mem) /\ StorageError(s) /\ pc' = "down"
    BY <1>2, <1>3 DEF Finalize, persisted
  <1>6. Saved(s) \in Loaded /\ Saved(s).snap = s
    BY <1>1, <1>4, SavedType
  <1>7. ~Terminal(mem) /\ fresh =>
           /\ applyChangeSet(store, Change(s)) = insertSnapshot(Saved(s))
           /\ loadSnapshot(insertSnapshot(Saved(s))) = Saved(s)
    BY <1>1, <1>3, <1>4, <1>6, WriteRows, LoadInserted
  <1>8. ~Terminal(mem) => insertSnapshot(Saved(s)).run.status = "canceled"
    BY <1>3, <1>6 DEF insertSnapshot, RunRow
  <1>9. CASE pc' \in {"idle", "down"} /\ UNCHANGED <<store, mem>>
    BY <1>9, StoredQuiet DEF Executing
  <1>10. CASE ~Terminal(mem) /\ Commit(s) /\ pc' = "idle"
    <2>1. mem'.snap = s /\ loadSnapshot(store').snap = s /\ store'.run.status = "canceled"
      BY <1>6, <1>7, <1>8, <1>10 DEF Commit
    <2>2. Good(mem'.snap) /\ Good(loadSnapshot(store').snap)
      BY <1>3, <1>10, <2>1
    <2> QED BY <1>10, <2>1, <2>2, StoredNext DEF Executing
  <1>11. CASE /\ pc' \in {"finalizeAgain", "settleAgain", "settle"}
              /\ mem' = loadSnapshot(store) /\ UNCHANGED store
    BY <1>1, <1>11, StoredNext DEF Executing
  <1>12. CASE ~Terminal(mem) /\ StorageError(s) /\ pc' = "down"
    <2>1. mem' = mem /\ (store' = store \/ (fresh /\ store' = insertSnapshot(Saved(s))))
      BY <1>7, <1>12 DEF StorageError
    <2>2. Good(mem'.snap) /\ Good(loadSnapshot(store').snap)
      BY <1>1, <1>3, <1>6, <1>7, <1>12, <2>1
    <2>3. store'.run.cancel /\ store'.run.status \in WorkflowTerminal =>
             store'.run.status = "canceled"
      BY <1>1, <1>8, <1>12, <2>1
    <2> QED BY <1>12, <2>2, <2>3, StoredNext DEF Executing
  <1> QED BY <1>5, <1>9, <1>10, <1>11, <1>12

\* Engine.Cancel of a Run nobody executes.
LEMMA StoredCancelIdle == ASSUME EngineInv, StoredKnows, CancelIdle PROVE StoredKnows'
  <1>1. /\ Kept(store) /\ pc = "idle" /\ UNCHANGED <<mem, pc>> /\ Good(mem.snap) /\ ~Ended
    BY DEF EngineInv, CancelIdle, StoredKnows
  <1>2. PICK x : x = persisted
    OBVIOUS
  <1>3. x \in Loaded /\ store = insertSnapshot(x) /\ x.snap \in Snap /\ Good(x.snap)
    BY <1>1, <1>2 DEF Kept, persisted, Loaded, Snap, StoredKnows
  <1>4. x.snap.status \notin WorkflowTerminal
    BY <1>1, <1>2 DEF Ended, persisted, loadSnapshot
  <1>5. PICK s : s = CancelRunSnapshot(x.snap)
    OBVIOUS
  <1>6. Follows(x.snap, s) /\ s \in Snap /\ Good(s) /\ s.status = "canceled" /\ s.err = FALSE
    <2>1. Good(s) /\ s.status = "canceled" /\ s.err = FALSE
      BY <1>3, <1>4, <1>5, GoodCancel
    <2>2. Follows(x.snap, s) /\ s \in Snap
      BY <1>3, <1>5, CancelMoves DEF Moves, Follows
    <2> QED BY <2>1, <2>2
  <1>7. PICK y : y = [x EXCEPT !.snap = s]
    OBVIOUS
  <1>8. y \in Loaded /\ y.snap = s /\ y.cancel = x.cancel
    BY <1>3, <1>6, <1>7 DEF Loaded, Snap
  <1>9. y = canceledRun
    BY <1>2, <1>5, <1>7 DEF canceledRun
  <1>10. store' = applyChangeSet(store, changeSetFromSnapshots(x, y))
    BY <1>2, <1>9 DEF CancelIdle
  <1>11. store' = insertSnapshot(y)
    BY <1>3, <1>6, <1>8, <1>10, ChangeApplied
  <1>12. loadSnapshot(store').snap = s /\ store'.run.status = "canceled"
    BY <1>6, <1>8, <1>11, LoadInserted DEF insertSnapshot, RunRow
  <1>13. Good(mem'.snap) /\ Good(loadSnapshot(store').snap)
    BY <1>1, <1>6, <1>12
  <1> QED BY <1>1, <1>12, <1>13, StoredNext DEF Executing

\* RequestCancel of the store: the Run is open.
LEMMA StoredRequestCancel == ASSUME EngineInv, StoredKnows, RequestCancel PROVE StoredKnows'
  <1>1. /\ Kept(store) /\ ~Ended /\ store' = [store EXCEPT !.run.cancel = TRUE]
        /\ UNCHANGED <<mem, pc, work>>
        /\ Good(mem.snap) /\ Good(loadSnapshot(store).snap)
    BY DEF EngineInv, RequestCancel, StoredKnows, persisted
  <1>2. PICK x : x = loadSnapshot(store)
    OBVIOUS
  <1>3. x \in Loaded /\ x.snap.err = FALSE /\ store = insertSnapshot(x)
    BY <1>1, <1>2 DEF Kept
  <1>4. PICK y : y = [x EXCEPT !.cancel = TRUE]
    OBVIOUS
  <1>5. y \in Loaded /\ y.snap = x.snap /\ y.cancel = TRUE
    BY <1>3, <1>4 DEF Loaded
  <1>6. store' = insertSnapshot(y)
    BY <1>1, <1>3, <1>5 DEF insertSnapshot, RunRow
  <1>7. loadSnapshot(store').snap = loadSnapshot(store).snap
    BY <1>2, <1>3, <1>5, <1>6, LoadInserted
  <1>8. store'.run.status \notin WorkflowTerminal
    BY <1>1, <1>3, <1>5, <1>6 DEF insertSnapshot, RunRow, Ended
  <1>9. /\ pc \in Executing => mem.snap = loadSnapshot(store).snap
        /\ pc = "failed" => ~RemainingExact(loadSnapshot(store).snap)
        /\ pc = "loop" => \/ \A t \in Task : mem.snap.task[t] # "ready"
                          \/ ~(Cardinality(work.active) < Concurrency)
    BY DEF StoredKnows, persisted, Ready, SlotFree
  <1>10. Good(mem'.snap) /\ Good(loadSnapshot(store').snap)
    BY <1>1, <1>7
  <1> QED BY <1>1, <1>7, <1>8, <1>9, <1>10, StoredNext

\* Signals, crashes, restarts and stuttering.
LEMMA StoredAround ==
    ASSUME StoredKnows, CancelActive \/ Shutdown \/ Crash \/ Restart \/ UNCHANGED vars
    PROVE  StoredKnows'
  <1>1. UNCHANGED <<store, mem>>
    BY DEF CancelActive, Shutdown, Crash, Restart, vars
  <1>2. (pc' = pc /\ work' = work) \/ pc' \in {"down", "idle"}
    BY DEF CancelActive, Shutdown, Crash, Restart, vars
  <1>3. /\ pc = "failed" => ~RemainingExact(loadSnapshot(store).snap)
        /\ pc = "loop" => \/ \A t \in Task : mem.snap.task[t] # "ready"
                          \/ ~(Cardinality(work.active) < Concurrency)
    BY DEF StoredKnows, persisted, Ready, SlotFree
  <1> QED BY <1>1, <1>2, <1>3, StoredQuiet DEF Executing

\* Every step.
LEMMA StoredStep == ASSUME EngineInv, LoopKnows, StoredKnows, [Next]_vars PROVE StoredKnows'
  <1>1. CASE Begin
    BY <1>1, StoredBegin
  <1>2. CASE LoadRun
    BY <1>2, StoredLoad
  <1>3. CASE Prepare
    BY <1>3, StoredPrepare
  <1>4. CASE Enter
    BY <1>4, StoredEnter
  <1>5. CASE StartTask
    BY <1>5, StoredStartTask
  <1>6. CASE AllStarted
    BY <1>6, StoredAllStarted
  <1>7. CASE StopNoticed
    BY <1>7, StoredStopNoticed
  <1>8. CASE \E key \in work.timers : TimedOut(key)
    BY <1>8, StoredTimedOut
  <1>9. CASE \E timer \in work.retries : RetryFired(timer)
    BY <1>9, StoredRetryFired
  <1>10. CASE Leave
    BY <1>10, StoredLeave
  <1>11. CASE Finalize
    BY <1>11, StoredFinalize
  <1>12. CASE \E key \in work.executors, kind \in ExecutionKind : Completion(key, kind)
    BY <1>12, StoredCompletion
  <1>13. CASE CancelIdle
    BY <1>13, StoredCancelIdle
  <1>14. CASE RequestCancel
    BY <1>14, StoredRequestCancel
  <1>15. CASE CancelActive \/ Shutdown \/ Crash \/ Restart \/ UNCHANGED vars
    BY <1>15, StoredAround
  <1> QED BY <1>1, <1>2, <1>3, <1>4, <1>5, <1>6, <1>7, <1>8, <1>9, <1>10, <1>11, <1>12,
             <1>13, <1>14, <1>15 DEF Next, Step

(* Every Run the Engine stores, and the copy it works on, is good.           *)
THEOREM EngineGood == Spec => [](EngineInv /\ LoopKnows /\ StoredKnows)
  <1>1. Init => EngineInv /\ LoopKnows /\ StoredKnows
    BY InitHolds, KnowsInit, StoredInit
  <1>2. EngineInv /\ LoopKnows /\ StoredKnows /\ [Next]_vars
           => (EngineInv /\ LoopKnows /\ StoredKnows)'
    BY NextStep, StutterStep, KnowsStep, StoredStep
  <1> QED BY <1>1, <1>2, PTL DEF Spec

(* Across crashes, resumes, lost answers and cancellations the stored Run    *)
(* respects its dependencies and attempt limits, counts what a waiting task  *)
(* waits for, and has the verdict its tasks or a recorded cancellation       *)
(* deserve.                                                                  *)
THEOREM EngineStored == Spec => []StoredInv
  <1>1. EngineInv /\ StoredKnows => StoredInv
    <2> SUFFICES ASSUME EngineInv, StoredKnows PROVE StoredInv
      OBVIOUS
    <2>1. PICK s : s = persisted.snap
      OBVIOUS
    <2>2. Typed /\ persisted \in Loaded
      BY DEF EngineInv, Kept, persisted
    <2>3. TypeOK
      BY <2>2 DEF Typed, TypeOK, InLoop
    <2>4. DependencyOrder(s) /\ AttemptHistory(s) /\ Counted(s) /\ Verdict(s)
      BY <2>1 DEF StoredKnows, Good, Usable
    <2>5. \A t \in Task : s.task[t] = "waiting_dependencies" =>
             s.remaining[t] = Cardinality(Unsucceeded(s, t))
      BY <2>4 DEF Counted, TaskTerminal
    <2>6. persisted.cancel /\ Ended => s.status = "canceled"
      BY <2>1 DEF StoredKnows, persisted, loadSnapshot
    <2> QED BY <2>1, <2>3, <2>4, <2>5, <2>6 DEF StoredInv, Verdict
  <1> QED BY <1>1, EngineGood, PTL

(* The process stops over a Run it wrote itself only where a Resume lost a   *)
(* counter: no other check of the Engine refuses what an earlier step, or an *)
(* earlier process, stored.                                                  *)
THEOREM EngineNoFailure == Spec => []EngineNeverFails
  <1>1. StoredKnows => EngineNeverFails
    BY DEF StoredKnows, EngineNeverFails, CountersExact
  <1> QED BY <1>1, EngineGood, PTL

-----------------------------------------------------------------------------
(* The contract.                                                             *)

(* The Run goes on: it is not canceled, and no task that waits for another   *)
(* one gets an attempt.                                                      *)
GoesOn(s, u) ==
    /\ u.status # "canceled"
    /\ \A t \in Task : s.task[t] = "waiting_dependencies" => Len(u.attempts[t]) = Len(s.attempts[t])

\* The Run is canceled, with everything that was open.
IsDropped(s, u) ==
    /\ u.status = "canceled"
    /\ \A t \in Task : u.task[t] = IF s.task[t] \in TaskTerminal THEN s.task[t] ELSE "canceled"

\* What a step of the Engine makes of the stored Run.
Turns(s, u) ==
    \/ u = s
    \/ /\ s.status \notin WorkflowTerminal /\ Follows(s, u)
       /\ GoesOn(s, u) \/ IsDropped(s, u)

\* A step of the contract, or none, on the outcomes and the verdict of one Run.
LateStepOf(o, p, v, x) ==
    \/ p = o /\ x = v
    \/ /\ v = "open"
       /\ \/ EndsTasks(o, p) /\ x \in {"open", VerdictFor(p)}
          \/ p = o /\ VerdictFor(o) # "open" /\ x = VerdictFor(o)
          \/ /\ p = [t \in Task |-> IF o[t] = "open" THEN "canceled" ELSE o[t]]
             /\ x = "canceled"

(* Tasks that end behind succeeded ones skip what they doom: the order of    *)
(* both Runs leaves no other way.                                            *)
LEMMA GoesOnRefines ==
    ASSUME NEW s, NEW u, Usable(s), Usable(u), s.status \notin WorkflowTerminal,
           Follows(s, u), GoesOn(s, u)
    PROVE  LateStepOf(OutcomeOf(s), OutcomeOf(u), VerdictOf(s), VerdictOf(u))
  <1>1. /\ s \in Snap /\ DependencyOrder(s) /\ AttemptHistory(s)
        /\ u \in Snap /\ DependencyOrder(u) /\ AttemptHistory(u) /\ Verdict(u)
        /\ u.status # "canceled"
    BY DEF Usable, GoesOn
  <1>2. \A t \in Task : s.task[t] \in TaskStatus /\ u.task[t] \in TaskStatus /\ Deps[t] \subseteq Task
    BY <1>1, DefinitionAssumption DEF Snap, Snapshot
  <1>3. \A t \in Task : /\ s.task[t] \in TaskTerminal => u.task[t] = s.task[t]
                        /\ u.task[t] # "canceled"
    BY <1>1 DEF Follows, Verdict
  <1>4. ASSUME NEW t \in Task, s.task[t] \notin TaskTerminal, u.task[t] \in {"succeeded", "failed"}
        PROVE  \A d \in Deps[t] : s.task[d] = "succeeded"
    <2>1. s.task[t] # "waiting_dependencies"
      <3> SUFFICES ASSUME s.task[t] = "waiting_dependencies" PROVE FALSE
        OBVIOUS
      <3>1. TaskHistory("waiting_dependencies", s.attempts[t], MaxAttempts[t])
        BY <1>1 DEF AttemptHistory
      <3>2. Len(s.attempts[t]) = 0
        BY <3>1 DEF TaskHistory
      <3>3. TaskHistory(u.task[t], u.attempts[t], MaxAttempts[t])
        BY <1>1 DEF AttemptHistory
      <3>4. Len(u.attempts[t]) > 0
        BY <1>4, <3>3 DEF TaskHistory
      <3> QED BY <3>2, <3>4 DEF GoesOn
    <2>2. Unsucceeded(s, t) = {}
      BY <1>1, <1>2, <1>4, <2>1 DEF DependencyOrder, TaskStatus, TaskTerminal
    <2> QED BY <2>2 DEF Unsucceeded
  <1>5. ASSUME NEW t \in Task, s.task[t] \notin TaskTerminal
        PROVE  \A d \in Deps[t] : s.task[d] \notin {"failed", "skipped"}
    BY <1>1, <1>2, <1>5 DEF DependencyOrder, Unsucceeded, TaskStatus, TaskTerminal
  <1>6. ASSUME NEW t \in Task, u.task[t] \notin TaskTerminal
        PROVE  \A d \in Deps[t] : u.task[d] \notin {"failed", "skipped"}
    BY <1>1, <1>2, <1>6 DEF DependencyOrder, Unsucceeded, TaskStatus, TaskTerminal
  <1>7. ASSUME NEW t \in Task, u.task[t] = "skipped"
        PROVE  \E d \in Deps[t] : u.task[d] \in {"failed", "skipped"}
    BY <1>1, <1>7 DEF DependencyOrder
  <1>8. PICK o : o = OutcomeOf(s)
    OBVIOUS
  <1>9. PICK p : p = OutcomeOf(u)
    OBVIOUS
  <1>10. ASSUME NEW t \in Task
         PROVE  /\ o[t] = IF s.task[t] \in TaskTerminal THEN s.task[t] ELSE "open"
                /\ p[t] = IF u.task[t] \in TaskTerminal THEN u.task[t] ELSE "open"
    BY <1>8, <1>9 DEF OutcomeOf
  <1>11. VerdictOf(s) = "open"
    BY DEF VerdictOf
  <1>12. VerdictOf(u) # "open" => VerdictFor(p) = VerdictOf(u)
    <2> SUFFICES ASSUME VerdictOf(u) # "open" PROVE VerdictFor(p) = VerdictOf(u)
      OBVIOUS
    <2>1. u.status \in {"succeeded", "failed"} /\ VerdictOf(u) = u.status
      BY <1>1 DEF VerdictOf, WorkflowTerminal
    <2>2. /\ \A t \in Task : p[t] = u.task[t] /\ p[t] # "open"
          /\ u.status = "succeeded" => \A t \in Task : u.task[t] = "succeeded"
          /\ u.status = "failed" => \E t \in Task : u.task[t] = "failed"
      BY <1>1, <1>10, <2>1 DEF Verdict, TaskTerminal, WorkflowTerminal
    <2> QED BY <2>1, <2>2 DEF VerdictFor
  <1>13. CASE Finished(o, p) # {}
    <2>1. ASSUME NEW t \in Finished(o, p), NEW d \in Task, d \in Deps[t] PROVE o[d] = "succeeded"
      <3>1. t \in Task /\ s.task[t] \notin TaskTerminal /\ u.task[t] \in {"succeeded", "failed"}
        BY <1>10 DEF Finished, TaskTerminal
      <3> QED BY <1>4, <1>10, <2>1, <3>1 DEF TaskTerminal
    <2>2. ASSUME NEW t \in Task \ Finished(o, p)
          PROVE  p[t] = IF o[t] = "open" /\ \E d \in Deps[t] : p[d] \in {"failed", "skipped"}
                        THEN "skipped" ELSE o[t]
      <3>1. \A d \in Deps[t] : p[d] \in {"failed", "skipped"} <=> u.task[d] \in {"failed", "skipped"}
        BY <1>2, <1>10 DEF TaskTerminal
      <3>2. CASE s.task[t] \in TaskTerminal
        BY <1>3, <1>10, <3>2 DEF TaskTerminal
      <3>3. CASE s.task[t] \notin TaskTerminal /\ u.task[t] \notin TaskTerminal
        BY <1>6, <1>10, <3>1, <3>3
      <3>4. CASE s.task[t] \notin TaskTerminal /\ u.task[t] \in TaskTerminal
        <4>1. u.task[t] = "skipped"
          BY <1>3, <1>10, <3>4 DEF Finished, TaskTerminal
        <4> QED BY <1>7, <1>10, <3>1, <3>4, <4>1
      <3> QED BY <3>2, <3>3, <3>4
    <2>3. EndsTasks(o, p)
      BY <1>13, <2>1, <2>2 DEF EndsTasks
    <2> QED BY <1>8, <1>9, <1>11, <1>12, <2>3 DEF LateStepOf
  <1>14. CASE Finished(o, p) = {}
    <2>1. PICK S : S = {t \in Task : s.task[t] \notin TaskTerminal /\ u.task[t] \in TaskTerminal}
      OBVIOUS
    <2>2. \A t \in S : u.task[t] = "skipped"
      BY <1>3, <1>10, <1>14, <2>1 DEF Finished, TaskTerminal
    <2>3. S = {}
      <3> SUFFICES ASSUME S # {} PROVE FALSE
        OBVIOUS
      <3>1. S \in SUBSET Task
        BY <2>1
      <3>2. PICK t \in S : Deps[t] \cap S = {}
        BY <3>1, AcyclicAssumption
      <3>3. PICK d \in Deps[t] : u.task[d] \in {"failed", "skipped"}
        BY <1>7, <2>2, <3>1
      <3>4. d \in Task /\ d \notin S
        BY <1>2, <3>1, <3>2
      <3>5. s.task[d] \in TaskTerminal
        BY <2>1, <3>3, <3>4 DEF TaskTerminal
      <3>6. s.task[d] \in {"failed", "skipped"}
        BY <1>3, <3>3, <3>4, <3>5
      <3> QED BY <1>5, <2>1, <3>6
    <2>4. \A t \in Task : p[t] = o[t]
      BY <1>3, <1>10, <2>1, <2>3
    <2>5. p = o
      BY <1>8, <1>9, <2>4 DEF OutcomeOf
    <2> QED BY <1>8, <1>9, <1>11, <1>12, <2>5 DEF LateStepOf
  <1> QED BY <1>13, <1>14

\* Every turn is a step of the contract.
LEMMA TurnRefines ==
    ASSUME NEW s, NEW u, Usable(s), Usable(u), Turns(s, u)
    PROVE  LateStepOf(OutcomeOf(s), OutcomeOf(u), VerdictOf(s), VerdictOf(u))
  <1>1. CASE u = s
    BY <1>1 DEF LateStepOf
  <1>2. CASE s.status \notin WorkflowTerminal /\ Follows(s, u) /\ GoesOn(s, u)
    BY <1>2, GoesOnRefines
  <1>3. CASE s.status \notin WorkflowTerminal /\ IsDropped(s, u)
    <2>1. VerdictOf(s) = "open" /\ VerdictOf(u) = "canceled"
      BY <1>3 DEF VerdictOf, IsDropped, WorkflowTerminal
    <2>2. PICK o : o = OutcomeOf(s)
      OBVIOUS
    <2>3. PICK p : p = OutcomeOf(u)
      OBVIOUS
    <2>4. ASSUME NEW t \in Task PROVE p[t] = IF o[t] = "open" THEN "canceled" ELSE o[t]
      BY <1>3, <2>2, <2>3 DEF OutcomeOf, IsDropped, TaskTerminal
    <2>5. p = [t \in Task |-> p[t]]
      BY <2>3 DEF OutcomeOf
    <2>6. p = [t \in Task |-> IF o[t] = "open" THEN "canceled" ELSE o[t]]
      BY <2>4, <2>5
    <2> QED BY <2>1, <2>2, <2>3, <2>6 DEF LateStepOf
  <1> QED BY <1>1, <1>2, <1>3 DEF Turns

\* What the rules other than a cancellation and a start do.
LEMMA MovesGoOn ==
    ASSUME NEW s, NEW u, Moves(s, u), s.status \notin WorkflowTerminal,
           u.status \in {s.status, "succeeded", "failed"}
    PROVE  GoesOn(s, u) /\ Follows(s, u)
  BY DEF GoesOn, Moves, WorkflowTerminal

\* CancelRunSnapshot leaves what has ended and cancels the rest.
LEMMA CancelDrops ==
    ASSUME NEW s \in Snap, NEW u, u = CancelRunSnapshot(s), Accepted(u), u.status = "canceled"
    PROVE  IsDropped(s, u)
  <1> DEFINE open == {t \in Task : s.task[t] \notin TaskTerminal}
             running == {t \in open : /\ s.task[t] = "running"
                                      /\ s.attempts[t] # <<>>
                                      /\ s.attempts[t][Len(s.attempts[t])].status = "running"}
             outcome == [t \in running |-> "canceled"]
             ended == transitionAttempts(s, running, outcome)
             closed == transitionTasks(ended, open, "canceled")
  <1>1. /\ open \in SUBSET Task /\ running \in SUBSET Task
        /\ outcome \in [running -> AttemptStatus \ {"running"}]
        /\ "canceled" \in TaskStatus /\ "canceled" \in WorkflowStatus
    BY DEF AttemptStatus, TaskStatus, WorkflowStatus
  <1>2. u = transitionWorkflow(closed, "canceled")
    BY DEF CancelRunSnapshot
  <1>3. \A t \in Task : t \in open <=> s.task[t] \notin TaskTerminal
    OBVIOUS
  <1> HIDE DEF open, running, outcome
  <1>4. ended \in Snap /\ ended.task = s.task
    BY <1>1, AttemptsSteady, SteadyType, CalmAttempts
  <1> HIDE DEF ended
  <1>5. closed \in Snap
    BY <1>1, <1>4, TasksSteady, SteadyType
  <1>6. Accepted(closed) => \A t \in Task : closed.task[t] = IF t \in open THEN "canceled" ELSE ended.task[t]
    BY <1>1, <1>4, TasksGet
  <1> HIDE DEF closed
  <1>7. Accepted(closed) /\ u.task = closed.task
    BY <1>1, <1>2, <1>5, CalmWorkflow DEF Calm
  <1> QED BY <1>3, <1>4, <1>6, <1>7 DEF IsDropped

\* Every save of the event loop.
LEMMA SaveTurns ==
    ASSUME EngineInv, StoredKnows, pc \in Executing, mem.snap.status \notin WorkflowTerminal,
           NEW s, Follows(mem.snap, s), s.err = FALSE, GoesOn(mem.snap, s),
           NEW next, NEW w, Save(s, next, w)
    PROVE  Turns(loadSnapshot(store).snap, loadSnapshot(store').snap)
  <1>1. Typed /\ s \in Snap /\ mem.snap = loadSnapshot(store).snap
    BY DEF EngineInv, Follows, StoredKnows, persisted
  <1>2. Saved(s) \in Loaded /\ Saved(s).snap = s
    BY <1>1, SavedType
  <1>3. fresh => /\ applyChangeSet(store, Change(s)) = insertSnapshot(Saved(s))
                 /\ loadSnapshot(insertSnapshot(Saved(s))) = Saved(s)
    BY <1>2, WriteRows, LoadInserted
  <1>4. store' = store \/ (fresh /\ store' = applyChangeSet(store, Change(s)))
    BY DEF Save, Commit, Conflict, StorageError
  <1>5. CASE store' = store
    BY <1>5 DEF Turns
  <1>6. CASE fresh /\ store' = applyChangeSet(store, Change(s))
    <2>1. loadSnapshot(store').snap = s
      BY <1>2, <1>3, <1>6
    <2> QED BY <1>1, <2>1 DEF Turns
  <1> QED BY <1>4, <1>5, <1>6

\* An event.
LEMMA ApplyTurns ==
    ASSUME EngineInv, StoredKnows, pc = "loop", NEW applied, NEW s, NEW t, NEW w, Apply(applied, s, t, w),
           applied => /\ mem.snap.status \notin WorkflowTerminal
                      /\ Follows(mem.snap, s) /\ GoesOn(mem.snap, s)
    PROVE  Turns(loadSnapshot(store).snap, loadSnapshot(store').snap)
  <1>1. CASE store' = store
    BY <1>1 DEF Turns
  <1>2. CASE applied /\ ~s.err
    <2>1. s.err = FALSE
      BY <1>2 DEF Follows, Snap, Snapshot
    <2>2. PICK v : Save(s, "start", v)
      BY <1>2 DEF Apply
    <2> QED BY <1>2, <2>1, <2>2, SaveTurns DEF Executing
  <1> QED BY <1>1, <1>2 DEF Apply

\* Resume.
LEMMA PrepareTurns ==
    ASSUME EngineInv, StoredKnows, Prepare
    PROVE  Turns(loadSnapshot(store).snap, loadSnapshot(store').snap)
  <1>1. pc = "prepare" /\ mem.snap \in Snap /\ mem.snap.status \notin WorkflowTerminal
    BY DEF EngineInv, Prepare, Typed, Loaded, Snap
  <1>2. PICK failed : failed = interruptRunning(mem.snap)
    OBVIOUS
  <1>3. PICK counted : counted = rebuildDependencies(failed)
    OBVIOUS
  <1>4. PICK s : s = prepareForResume(mem.snap, counted)
    OBVIOUS
  <1>5. Moves(mem.snap, s) /\ s.status = mem.snap.status
    BY <1>1, <1>2, <1>3, <1>4, PrepareSteady DEF Steady
  <1>6. Follows(mem.snap, s) /\ GoesOn(mem.snap, s)
    BY <1>1, <1>5, MovesGoOn
  <1>7. CASE s.err
    <2>1. store' = store
      BY <1>2, <1>3, <1>4, <1>7 DEF Prepare
    <2> QED BY <2>1 DEF Turns
  <1>8. CASE ~s.err
    <2>1. s.err = FALSE
      BY <1>6, <1>8 DEF Follows, Snap, Snapshot
    <2>2. Save(s, Proceed("enter"), NoWork)
      BY <1>2, <1>3, <1>4, <1>8 DEF Prepare
    <2>3. PICK next : Save(s, next, NoWork)
      BY <2>2
    <2> QED BY <1>1, <1>6, <2>1, <2>3, SaveTurns DEF Executing
  <1> QED BY <1>7, <1>8

\* The Run becomes running.
LEMMA EnterTurns ==
    ASSUME EngineInv, StoredKnows, Enter
    PROVE  Turns(loadSnapshot(store).snap, loadSnapshot(store').snap)
  <1>1. pc = "enter" /\ mem.snap \in Snap /\ mem.snap.status \notin WorkflowTerminal
        /\ mem.snap.err = FALSE
    BY DEF EngineInv, Enter, Typed, Loaded, Snap
  <1>2. CASE mem.snap.status = "pending"
    <2>1. PICK s : s = transitionWorkflow(mem.snap, "running")
      OBVIOUS
    <2>2. PICK next, w : Save(s, next, w)
      BY <1>2, <2>1 DEF Enter
    <2>3. "running" \in WorkflowStatus \ {"pending"} /\ "running" \in workflowTransitions("pending")
      BY DEF WorkflowStatus, workflowTransitions
    <2>4. Moves(mem.snap, s) /\ s.status \in {mem.snap.status, "running"}
      BY <1>1, <2>1, <2>3, WorkflowMoves
    <2>5. s.err = FALSE
      BY <1>1, <1>2, <2>1, <2>3 DEF transitionWorkflow, Snap, Snapshot
    <2>6. Follows(mem.snap, s) /\ GoesOn(mem.snap, s)
      BY <1>2, <2>4 DEF Moves, GoesOn
    <2> QED BY <1>1, <2>2, <2>5, <2>6, SaveTurns DEF Executing
  <1>3. CASE mem.snap.status # "pending"
    BY <1>3 DEF Enter, Turns
  <1> QED BY <1>2, <1>3

\* A start: the task was ready.
LEMMA StartTaskTurns ==
    ASSUME EngineInv, StoredKnows, StartTask
    PROVE  Turns(loadSnapshot(store).snap, loadSnapshot(store').snap)
  <1>1. pc = "start" /\ InLoop /\ mem.snap \in Snap
    BY DEF EngineInv, StartTask, Typed, Loaded, Snap, InLoop
  <1>2. PICK t : t = FirstReady
    OBVIOUS
  <1>3. t \in Task /\ mem.snap.task[t] = "ready"
    BY <1>2, FirstReadyReady DEF StartTask, Ready
  <1>4. mem.snap.status \notin WorkflowTerminal
    BY <1>1, <1>3, LoopOpen DEF TaskTerminal
  <1>5. PICK s : s = prepareTask(mem.snap, t)
    OBVIOUS
  <1>6. Follows(mem.snap, s) /\ s.status = mem.snap.status
    BY <1>1, <1>3, <1>5, StartFollows
  <1>7. CASE s.err
    <2>1. store' = store
      BY <1>2, <1>5, <1>7 DEF StartTask
    <2> QED BY <2>1 DEF Turns
  <1>8. CASE ~s.err
    <2>1. s.err = FALSE
      BY <1>6, <1>8 DEF Follows, Snap, Snapshot
    <2>2. PICK next, w : Save(s, next, w)
      BY <1>2, <1>5, <1>8 DEF StartTask
    <2>3. \A x \in Task \ {t} : s.attempts[x] = mem.snap.attempts[x]
      <3>1. Accepted(s)
        BY <2>1 DEF Accepted
      <3> QED BY <1>1, <1>3, <1>5, <3>1, StartShape
    <2>4. GoesOn(mem.snap, s)
      BY <1>3, <1>4, <1>6, <2>3 DEF GoesOn, WorkflowTerminal
    <2> QED BY <1>1, <1>4, <1>6, <2>1, <2>2, <2>4, SaveTurns DEF Executing
  <1> QED BY <1>7, <1>8

\* An executor returns.
LEMMA CompletionTurns ==
    ASSUME EngineInv, LoopKnows, StoredKnows, NEW key \in work.executors,
           NEW kind \in ExecutionKind, Completion(key, kind)
    PROVE  Turns(loadSnapshot(store).snap, loadSnapshot(store').snap)
  <1>1. pc = "loop" /\ mem.snap \in Snap
    BY DEF EngineInv, Completion, Receiving, Typed, Loaded, Snap
  <1>2. CASE key \notin work.active \/ kind = "canceled"
    <2>1. store' = store
      BY <1>2 DEF Completion, IsActive
    <2> QED BY <2>1 DEF Turns
  <1>3. CASE key \in work.active /\ kind # "canceled"
    <2>1. PICK t : t = key[1]
      OBVIOUS
    <2>2. t \in Task /\ mem.snap.status \notin WorkflowTerminal /\ kind \in ResultKind
      BY <1>1, <1>3, <2>1, ActiveApplies DEF ExecutionKind
    <2>3. PICK s : s = ApplyAttemptResult(mem.snap, t, kind, Now)
      OBVIOUS
    <2>4. Moves(mem.snap, s) /\ s.status \in {mem.snap.status, "succeeded", "failed"}
      BY <1>1, <2>2, <2>3, ResultMoves
    <2>5. PICK applied : applied = activeAttempt(mem.snap, key[1], key[2])
      OBVIOUS
    <2>6. PICK w : Apply(applied, s, t, w)
      BY <1>3, <2>1, <2>3, <2>5 DEF Completion, IsActive
    <2>7. Follows(mem.snap, s) /\ GoesOn(mem.snap, s)
      BY <2>2, <2>4, MovesGoOn
    <2> QED BY <1>1, <2>2, <2>6, <2>7, ApplyTurns
  <1> QED BY <1>2, <1>3

\* The timer of an attempt fires.
LEMMA TimedOutTurns ==
    ASSUME EngineInv, LoopKnows, StoredKnows, NEW key \in work.timers, TimedOut(key)
    PROVE  Turns(loadSnapshot(store).snap, loadSnapshot(store').snap)
  <1>1. pc = "loop" /\ mem.snap \in Snap
    BY DEF EngineInv, TimedOut, Receiving, Typed, Loaded, Snap
  <1>2. CASE key \notin work.active
    <2>1. store' = store
      BY <1>2 DEF TimedOut, IsActive
    <2> QED BY <2>1 DEF Turns
  <1>3. CASE key \in work.active
    <2>1. PICK t : t = key[1]
      OBVIOUS
    <2>2. /\ t \in Task /\ {t} \in SUBSET Task /\ Now \in Int
          /\ mem.snap.status \notin WorkflowTerminal
      BY <1>1, <1>3, <2>1, ActiveApplies DEF Now
    <2>3. PICK outcome : outcome = [x \in {t} |-> "timed_out"]
      OBVIOUS
    <2>4. outcome \in [{t} -> AttemptStatus \ {"running"}]
      BY <2>3 DEF AttemptStatus
    <2>5. PICK s : s = EndAttempts(mem.snap, {t}, outcome, Now)
      OBVIOUS
    <2>6. Moves(mem.snap, s) /\ s.status \in {mem.snap.status, "succeeded", "failed"}
      BY <1>1, <2>2, <2>4, <2>5, EndAttemptsMoves
    <2>7. PICK applied : applied = activeAttempt(mem.snap, key[1], key[2])
      OBVIOUS
    <2>8. PICK w : Apply(applied, s, t, w)
      BY <1>3, <2>1, <2>3, <2>5, <2>7 DEF TimedOut, IsActive
    <2>9. Follows(mem.snap, s) /\ GoesOn(mem.snap, s)
      BY <2>2, <2>6, MovesGoOn
    <2> QED BY <1>1, <2>2, <2>8, <2>9, ApplyTurns
  <1> QED BY <1>2, <1>3

\* A retry timer fires.
LEMMA RetryFiredTurns ==
    ASSUME EngineInv, LoopKnows, StoredKnows, NEW timer \in work.retries, RetryFired(timer)
    PROVE  Turns(loadSnapshot(store).snap, loadSnapshot(store').snap)
  <1>1. pc = "loop" /\ InLoop /\ mem.snap \in Snap /\ work \in Work
    BY DEF EngineInv, RetryFired, Receiving, InLoop, Typed, Loaded, Snap
  <1>2. PICK t \in Task, n \in Nat, at \in Int : timer = <<<<t, n>>, at>>
    BY <1>1 DEF Work, AttemptKey
  <1>3. PICK applied : applied = (/\ retryDue(mem.snap, t, at)
                                  /\ Len(mem.snap.attempts[t]) = n)
    OBVIOUS
  <1>4. PICK s : s = MakeRetryReady(mem.snap, t)
    OBVIOUS
  <1>5. PICK w : Apply(applied, s, t, w)
    BY <1>2, <1>3, <1>4 DEF RetryFired
  <1>6. ASSUME applied
        PROVE  /\ mem.snap.status \notin WorkflowTerminal
               /\ Follows(mem.snap, s) /\ GoesOn(mem.snap, s)
    <2>1. mem.snap.task[t] = "waiting_retry"
      BY <1>3, <1>6 DEF retryDue
    <2>2. mem.snap.status \notin WorkflowTerminal
      BY <1>1, <2>1, LoopOpen DEF TaskTerminal
    <2>3. Moves(mem.snap, s) /\ s.status = mem.snap.status
      BY <1>1, <1>4, TasksSteady DEF MakeRetryReady, TaskStatus, Steady
    <2> QED BY <2>2, <2>3, MovesGoOn
  <1> QED BY <1>1, <1>5, <1>6, ApplyTurns

\* The loop ends.
LEMMA LeaveTurns ==
    ASSUME EngineInv, StoredKnows, Leave
    PROVE  Turns(loadSnapshot(store).snap, loadSnapshot(store').snap)
  <1>1. pc = "loop" /\ mem.snap \in Snap /\ mem.snap.err = FALSE /\ mem.snap.status # "pending"
    BY DEF EngineInv, Leave, Receiving, InLoop, Typed, Loaded, Snap
  <1>2. CASE store' = store
    BY <1>2 DEF Turns
  <1>3. CASE store' # store
    <2>1. PICK to : to = IF \E t \in Task : mem.snap.task[t] = "failed" THEN "failed"
                         ELSE "succeeded"
      OBVIOUS
    <2>2. to \in {"failed", "succeeded"}
      BY <2>1
    <2>3. PICK s : s = transitionWorkflow(mem.snap, to)
      OBVIOUS
    <2>4. ~Terminal(mem) /\ Save(s, "idle", NoWork)
      BY <1>3, <2>1, <2>3 DEF Leave
    <2>5. mem.snap.status = "running"
      BY <1>1, <2>4 DEF Terminal, Snap, Snapshot, WorkflowStatus, WorkflowTerminal
    <2>6. to \in WorkflowStatus \ {"pending"} /\ to \in workflowTransitions(mem.snap.status)
      BY <2>2, <2>5 DEF WorkflowStatus, workflowTransitions
    <2>7. s.err = FALSE
      BY <1>1, <2>3, <2>6 DEF transitionWorkflow, Snap, Snapshot
    <2>8. Moves(mem.snap, s) /\ s.status \in {mem.snap.status, to}
      BY <1>1, <2>3, <2>6, WorkflowMoves
    <2>9. mem.snap.status \notin WorkflowTerminal
      BY <2>4 DEF Terminal
    <2>10. Follows(mem.snap, s) /\ GoesOn(mem.snap, s)
      BY <2>2, <2>8, <2>9, MovesGoOn
    <2> QED BY <1>1, <2>4, <2>7, <2>9, <2>10, SaveTurns DEF Executing
  <1> QED BY <1>2, <1>3

\* finalizeCancellation.
LEMMA FinalizeTurns ==
    ASSUME EngineInv, StoredKnows, Finalize
    PROVE  Turns(loadSnapshot(store).snap, loadSnapshot(store').snap)
  <1>1. Typed /\ pc \in Canceling /\ mem \in Loaded /\ mem.snap \in Snap /\ Good(mem.snap)
    BY DEF EngineInv, Finalize, Canceling, Typed, Loaded, Snap, StoredKnows
  <1>2. CASE store' = store
    BY <1>2 DEF Turns
  <1>3. CASE store' # store
    <2>1. PICK s : s = CancelRunSnapshot(mem.snap)
      OBVIOUS
    <2>2. ~Terminal(mem) /\ (Commit(s) \/ StorageError(s))
      BY <1>3, <2>1 DEF Finalize
    <2>3. Good(s) /\ s.status = "canceled" /\ s.err = FALSE
      BY <1>1, <2>1, <2>2, GoodCancel DEF Terminal
    <2>4. Follows(mem.snap, s) /\ s \in Snap /\ IsDropped(mem.snap, s)
      BY <1>1, <2>1, <2>3, CancelMoves, CancelDrops DEF Moves, Follows, Accepted
    <2>5. fresh /\ store' = applyChangeSet(store, Change(s))
      BY <1>3, <2>2 DEF Commit, StorageError
    <2>6. Saved(s) \in Loaded /\ Saved(s).snap = s
      BY <1>1, <2>4, SavedType
    <2>7. store = insertSnapshot(mem) /\ store' = insertSnapshot(Saved(s))
      BY <1>1, <2>3, <2>4, <2>5, WriteRows
    <2>8. loadSnapshot(store') = Saved(s) /\ loadSnapshot(store) = mem
      BY <1>1, <2>3, <2>6, <2>7, LoadInserted DEF Typed
    <2> QED BY <2>2, <2>4, <2>6, <2>8 DEF Turns, Terminal
  <1> QED BY <1>2, <1>3

\* Engine.Cancel of a Run nobody executes, and RequestCancel of the store.
LEMMA CancelTurns ==
    ASSUME EngineInv, StoredKnows, CancelIdle \/ RequestCancel
    PROVE  Turns(loadSnapshot(store).snap, loadSnapshot(store').snap)
  <1>1. PICK x : x = persisted
    OBVIOUS
  <1>2. /\ x \in Loaded /\ store = insertSnapshot(x) /\ x.snap \in Snap /\ Good(x.snap)
        /\ x = loadSnapshot(store) /\ x.snap.err = FALSE
    BY <1>1 DEF EngineInv, Kept, persisted, Loaded, Snap, StoredKnows
  <1>3. x.snap.status \notin WorkflowTerminal
    BY <1>1 DEF CancelIdle, RequestCancel, Ended, persisted, loadSnapshot
  <1>4. CASE CancelIdle
    <2>1. PICK s : s = CancelRunSnapshot(x.snap)
      OBVIOUS
    <2>2. Good(s) /\ s.status = "canceled" /\ s.err = FALSE
      BY <1>2, <1>3, <2>1, GoodCancel
    <2>3. Follows(x.snap, s) /\ s \in Snap /\ IsDropped(x.snap, s)
      BY <1>2, <2>1, <2>2, CancelMoves, CancelDrops DEF Moves, Follows, Accepted
    <2>4. PICK y : y = [x EXCEPT !.snap = s]
      OBVIOUS
    <2>5. y \in Loaded /\ y.snap = s
      BY <1>2, <2>3, <2>4 DEF Loaded, Snap
    <2>6. store' = applyChangeSet(store, changeSetFromSnapshots(x, y))
      BY <1>1, <1>4, <2>1, <2>4 DEF CancelIdle, canceledRun
    <2>7. store' = insertSnapshot(y)
      BY <1>2, <2>3, <2>4, <2>5, <2>6, ChangeApplied
    <2>8. loadSnapshot(store').snap = s
      BY <2>2, <2>5, <2>7, LoadInserted
    <2> QED BY <1>2, <1>3, <2>3, <2>8 DEF Turns
  <1>5. CASE RequestCancel
    <2>1. PICK y : y = [x EXCEPT !.cancel = TRUE]
      OBVIOUS
    <2>2. y \in Loaded /\ y.snap = x.snap
      BY <1>2, <2>1 DEF Loaded
    <2>3. store' = insertSnapshot(y)
      BY <1>2, <1>5, <2>1 DEF RequestCancel, insertSnapshot, RunRow, Loaded
    <2>4. loadSnapshot(store').snap = x.snap
      BY <1>2, <2>2, <2>3, LoadInserted
    <2> QED BY <1>2, <2>4 DEF Turns
  <1> QED BY <1>4, <1>5

\* Every step.
LEMMA StoreTurns ==
    ASSUME EngineInv, LoopKnows, StoredKnows, [Next]_vars
    PROVE  Turns(loadSnapshot(store).snap, loadSnapshot(store').snap)
  <1>1. CASE store' = store
    BY <1>1 DEF Turns
  <1>2. CASE store' # store
    <2>1. ~(Begin \/ LoadRun \/ AllStarted \/ StopNoticed \/ Restart \/ CancelActive \/ Shutdown
            \/ Crash \/ UNCHANGED vars)
      BY <1>2 DEF Begin, LoadRun, AllStarted, StopNoticed, Restart, CancelActive, Shutdown, Crash, vars
    <2> QED BY <2>1, PrepareTurns, EnterTurns, StartTaskTurns, TimedOutTurns, RetryFiredTurns,
               LeaveTurns, FinalizeTurns, CompletionTurns, CancelTurns DEF Next, Step
  <1> QED BY <1>1, <1>2

(* Whatever crashes, lost answers and resumes lie between two writes, the    *)
(* stored Run changes as WorkflowContract allows when the verdict may come   *)
(* after the last outcome.                                                   *)
THEOREM EngineContract == Spec => ImplementsLateContract
  <1> DEFINE o == [r \in {Local} |-> [t \in Task |->
                     IF persisted.snap.task[t] \in TaskTerminal
                     THEN persisted.snap.task[t] ELSE "open"]]
             v == [r \in {Local} |->
                     IF persisted.snap.status \in WorkflowTerminal
                     THEN persisted.snap.status ELSE "open"]
  <1>1. Init => Contract!Init
    <2> SUFFICES ASSUME Init PROVE Contract!Init
      OBVIOUS
    <2>1. persisted.snap = newRunSnapshot
      <3>1. mem \in Loaded /\ mem.snap = newRunSnapshot /\ mem.snap.err = FALSE /\ store = insertSnapshot(mem)
        BY NewRunSound DEF Init, Loaded, Sound, SnapshotInv
      <3> QED BY <3>1, LoadInserted DEF persisted
    <2>2. PICK s : s = persisted.snap
      OBVIOUS
    <2>3. s.status = "pending" /\ \A t \in Task : s.task[t] \in {"ready", "waiting_dependencies"}
      BY <2>1, <2>2 DEF newRunSnapshot
    <2> QED BY <2>2, <2>3 DEF Contract!Init, WorkflowTerminal, TaskTerminal
  <1>2. EngineInv /\ LoopKnows /\ StoredKnows /\ StoredKnows' /\ [Next]_vars
           => [Contract!NextLate]_<<o, v>>
    <2> SUFFICES ASSUME EngineInv, LoopKnows, StoredKnows, StoredKnows', [Next]_vars
                 PROVE  Contract!NextLate
      OBVIOUS
    <2>1. PICK s : s = loadSnapshot(store).snap
      OBVIOUS
    <2>2. PICK u : u = loadSnapshot(store').snap
      OBVIOUS
    <2>3. persisted.snap = s /\ (persisted.snap)' = u
      BY <2>1, <2>2 DEF persisted, loadSnapshot
    <2>4. Usable(s) /\ Usable(u)
      <3>1. Usable(s)
        BY <2>3 DEF StoredKnows, Good
      <3>2. Usable(persisted.snap)'
        BY DEF StoredKnows, Good
      <3> QED BY <2>3, <3>1, <3>2 DEF Usable, DependencyOrder, AttemptHistory, Counted, Verdict, Unsucceeded
    <2>5. Turns(s, u)
      BY <2>1, <2>2, StoreTurns
    <2>6. LateStepOf(OutcomeOf(s), OutcomeOf(u), VerdictOf(s), VerdictOf(u))
      BY <2>4, <2>5, TurnRefines
    <2>7. /\ o[Local] = OutcomeOf(s) /\ v[Local] = VerdictOf(s)
          /\ o'[Local] = OutcomeOf(u) /\ v'[Local] = VerdictOf(u)
      BY <2>3 DEF OutcomeOf, VerdictOf
    <2>8. o' \in [{Local} -> [Task -> Contract!Outcome]] /\ v' \in [{Local} -> Contract!Outcome]
      <3>1. u.status \in WorkflowStatus /\ \A t \in Task : u.task[t] \in TaskStatus
        BY <2>4 DEF Usable, Snap, Snapshot
      <3> QED BY <2>3, <3>1 DEF Contract!Outcome, WorkflowStatus, TaskStatus, WorkflowTerminal, TaskTerminal
    <2>9. \/ o'[Local] = o[Local] /\ v'[Local] = v[Local]
          \/ Contract!AdvanceLate(Local)
      <3>1. LateStepOf(o[Local], o'[Local], v[Local], v'[Local])
        BY <2>6, <2>7
      <3> HIDE DEF o, v
      <3>2. CASE o'[Local] = o[Local] /\ v'[Local] = v[Local]
        BY <3>2
      <3>3. CASE /\ v[Local] = "open" /\ EndsTasks(o[Local], o'[Local])
                 /\ v'[Local] \in {"open", VerdictFor(o'[Local])}
        BY <3>3 DEF EndsTasks, Finished, VerdictFor, Contract!AdvanceLate, Contract!EndLate,
                    Contract!EndTasks, Contract!Ending, Contract!Verdict, o, v
      <3>4. CASE /\ v[Local] = "open" /\ o'[Local] = o[Local]
                 /\ VerdictFor(o[Local]) # "open" /\ v'[Local] = VerdictFor(o[Local])
        BY <3>4 DEF VerdictFor, Contract!AdvanceLate, Contract!Settle, Contract!Verdict, o, v
      <3>5. CASE /\ v[Local] = "open" /\ v'[Local] = "canceled"
                 /\ o'[Local] = [t \in Task |-> IF o[Local][t] = "open" THEN "canceled" ELSE o[Local][t]]
        BY <3>5 DEF Contract!AdvanceLate, Contract!Cancel, o, v
      <3> QED BY <3>1, <3>2, <3>3, <3>4, <3>5 DEF LateStepOf
    <2> QED BY <2>8, <2>9 DEF Contract!NextLate
  <1>3. Spec => Contract!LateSpec
    BY <1>1, <1>2, EngineGood, PTL DEF Spec, Contract!LateSpec
  <1> QED BY <1>3 DEF ImplementsLateContract
=============================================================================
