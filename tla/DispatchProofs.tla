----------------------------- MODULE DispatchProofs -----------------------------
(***************************************************************************)
(* Every state of the dispatch repository is well typed, every stored Run  *)
(* is sound, task_dispatches and the Runs agree, the limits hold, leases   *)
(* stay within their deadlines and no transaction of the coordinator is    *)
(* refused, for any number of Runs, tasks, workers and dispatch rows, any  *)
(* acyclic definition and any limits.                                      *)
(*                                                                         *)
(* The first inductive invariant is TypeOK with Sound(runs[r]) for every   *)
(* Run: each transaction calls the state rules only in the states the      *)
(* lemmas of WorkflowStateProofs ask for, because it checks the task under *)
(* the lock of the Run.  The agreement between rows and attempts           *)
(* (OwnershipInv) is not needed for it.                                    *)
(*                                                                         *)
(* The second is a statement about one task and its rows: its status, its  *)
(* attempts and the rows of task_dispatches that name it.  Each            *)
(* transaction changes a task in one of five ways (it leaves it alone,     *)
(* opens a row, closes a pending row, starts or ends an attempt), and      *)
(* there is one lemma for each.                                            *)
(*                                                                         *)
(* The third (OverlapInv) is behind the limits.  A scan counts, and before *)
(* it inserts another scan may commit, so CapacityInv does not say enough: *)
(* the places and Runs that open scans have counted on are counted with    *)
(* what is active.                                                         *)
(***************************************************************************)
EXTENDS Dispatch, WorkflowStateProofs, WellFoundedInduction

(* firstTaskWithStatus and firstDueRetry return a member.                     *)
LEMMA FirstMember ==
    ASSUME NEW S, S \subseteq Nat, S # {}
    PROVE  First(S) \in S
  <1>1. \E x \in S : \A y \in S : ~(<<y, x>> \in OpToRel(<, Nat))
    BY NatLessThanWellFounded, WFMin
  <1>2. PICK x \in S : \A y \in S : ~(<<y, x>> \in OpToRel(<, Nat))
    BY <1>1
  <1>3. \A y \in S : x <= y
    <2> SUFFICES ASSUME NEW y \in S, ~(x <= y)
                 PROVE  FALSE
      OBVIOUS
    <2>1. <<y, x>> \in Nat \X Nat /\ y < x
      OBVIOUS
    <2>2. <<y, x>> \in OpToRel(<, Nat)
      BY <2>1 DEF OpToRel
    <2> QED BY <1>2, <2>2
  <1> QED BY <1>3 DEF First

-----------------------------------------------------------------------------
(* The inductive invariant.                                                  *)
DispatchInv == TypeOK /\ \A r \in Run : Sound(runs[r], Owner)

(* TasksOf and RowOf stay inside the tables.                                 *)
LEMMA TasksOfFacts ==
    ASSUME NEW D \in SUBSET DispatchID, NEW r \in Run
    PROVE  /\ TasksOf(D, r) \in SUBSET Task
           /\ \A t \in TasksOf(D, r) : \E d \in D : RunOf(d) = r /\ TaskOf(d) = t
           /\ \A t \in TasksOf(D, r) :
                 /\ RowOf(D, r, t) \in D
                 /\ RunOf(RowOf(D, r, t)) = r
                 /\ TaskOf(RowOf(D, r, t)) = t
  <1>1. TasksOf(D, r) \in SUBSET Task
    BY DEF TasksOf
  <1>2. \A t \in TasksOf(D, r) : \E d \in D : RunOf(d) = r /\ TaskOf(d) = t
    <2> SUFFICES ASSUME NEW t \in TasksOf(D, r)
                 PROVE  \E d \in D : RunOf(d) = r /\ TaskOf(d) = t
      OBVIOUS
    <2>1. PICK k \in RowId : <<r, t, k>> \in D
      BY DEF TasksOf
    <2>2. RunOf(<<r, t, k>>) = r /\ TaskOf(<<r, t, k>>) = t
      BY DEF RunOf, TaskOf
    <2> QED BY <2>1, <2>2
  <1> QED BY <1>1, <1>2 DEF RowOf

(* A transaction may start and commit in the same tick.                      *)
LEMMA AgeZero == 0 \in Age
  BY DispatchAssumption DEF Age

(* The rows a statement may write are rows of the table.                     *)
LEMMA RowTypes ==
    ASSUME NEW age \in Age
    PROVE  /\ UnusedRow \in Row
           /\ PendingRow(age) \in Row
           /\ \A w \in Worker, n \in Nat, t \in Task : LeasedRow(w, n, t, age) \in Row
           /\ \A row \in Row, status \in RowStatus, result \in ResultKind \cup {"none"} :
                 ClosedRow(row, status, result) \in Row
           /\ \A row \in Row :
                 [row EXCEPT !.lease = LeaseUntil(row.deadline, age)] \in Row
           /\ \A row \in Row : OlderRow(row) \in Row
  <1>1. age \in Int /\ MaxTxAge \in Int /\ LeaseDuration \in Int /\ Timeout \in [Task -> Int]
    BY DispatchAssumption DEF Age
  <1>2. UnusedRow \in Row
    BY DEF UnusedRow, Row, RowStatus
  <1>3. PendingRow(age) \in Row
    <2> DEFINE c == 0 - age
    <2>1. c \in Int
      BY <1>1
    <2>2. PendingRow(age) = [UnusedRow EXCEPT !.status = "pending", !.created = c]
      BY DEF PendingRow
    <2> HIDE DEF c
    <2>3. PendingRow(age) =
            [status |-> "pending", worker |-> NoWorker, attempt |-> 0, lease |-> 0,
             deadline |-> 0, created |-> c, result |-> "none"]
      BY <2>2 DEF UnusedRow
    <2> QED BY <2>1, <2>3 DEF Row, RowStatus
  <1>4. \A w \in Worker, n \in Nat, t \in Task : LeasedRow(w, n, t, age) \in Row
    <2> SUFFICES ASSUME NEW w \in Worker, NEW n \in Nat, NEW t \in Task
                 PROVE  LeasedRow(w, n, t, age) \in Row
      OBVIOUS
    <2> DEFINE e == Timeout[t] - age
               l == LeaseUntil(e, age)
    <2>1. e \in Int /\ l \in Int
      BY <1>1 DEF LeaseUntil
    <2>2. LeasedRow(w, n, t, age) =
            [UnusedRow EXCEPT !.status = "leased", !.worker = w, !.attempt = n,
                              !.deadline = e, !.lease = l]
      BY DEF LeasedRow
    <2> HIDE DEF e, l
    <2>3. LeasedRow(w, n, t, age) =
            [status |-> "leased", worker |-> w, attempt |-> n, lease |-> l,
             deadline |-> e, created |-> 0, result |-> "none"]
      BY <2>2 DEF UnusedRow
    <2> QED BY <2>1, <2>3 DEF Row, RowStatus
  <1>5. \A row \in Row, status \in RowStatus, result \in ResultKind \cup {"none"} :
           ClosedRow(row, status, result) \in Row
    <2> SUFFICES ASSUME NEW row \in Row, NEW status \in RowStatus,
                        NEW result \in ResultKind \cup {"none"}
                 PROVE  ClosedRow(row, status, result) \in Row
      OBVIOUS
    <2> DEFINE x == [row EXCEPT !.status = status]
               y == [x EXCEPT !.result = result]
               l == [y EXCEPT !.lease = 0]
               e == [l EXCEPT !.deadline = 0]
               z == [e EXCEPT !.created = 0]
    <2>1. ClosedRow(row, status, result) = z
      BY DEF ClosedRow
    <2>2. x \in Row
      BY DEF Row
    <2> HIDE DEF x
    <2>3. y \in Row
      BY <2>2 DEF Row
    <2> HIDE DEF y
    <2>4. l \in Row
      BY <2>3 DEF Row
    <2> HIDE DEF l
    <2>5. e \in Row
      BY <2>4 DEF Row
    <2> HIDE DEF e
    <2>6. z \in Row
      BY <2>5 DEF Row
    <2> HIDE DEF z
    <2> QED BY <2>1, <2>6
  <1>6. \A row \in Row : [row EXCEPT !.lease = LeaseUntil(row.deadline, age)] \in Row
    <2> SUFFICES ASSUME NEW row \in Row
                 PROVE  [row EXCEPT !.lease = LeaseUntil(row.deadline, age)] \in Row
      OBVIOUS
    <2> DEFINE l == LeaseUntil(row.deadline, age)
    <2>1. l \in Int
      BY <1>1 DEF LeaseUntil, Row
    <2> HIDE DEF l
    <2>2. [row EXCEPT !.lease = l] \in Row
      BY <2>1 DEF Row
    <2> QED BY <2>2 DEF l
  <1>7. \A row \in Row : OlderRow(row) \in Row
    <2> SUFFICES ASSUME NEW row \in Row PROVE OlderRow(row) \in Row
      OBVIOUS
    <2>1. Floor \in Int /\ row.lease \in Int /\ row.deadline \in Int /\ row.created \in Int
      BY <1>1 DEF Floor, Row
    <2>2. \A x \in Int : Earlier(x, Floor) \in Int
      BY <2>1 DEF Earlier
    <2> HIDE DEF Floor
    <2>3. CASE row.status = "leased"
      <3> DEFINE l == Earlier(row.lease, Floor)
                 e == Earlier(row.deadline, Floor)
      <3>1. OlderRow(row) = [row EXCEPT !.lease = l, !.deadline = e]
        BY <2>3 DEF OlderRow
      <3>2. l \in Int /\ e \in Int
        BY <2>1, <2>2
      <3> HIDE DEF l, e
      <3> QED BY <3>1, <3>2 DEF Row
    <2>4. CASE row.status = "pending"
      <3> DEFINE c == Earlier(row.created, Floor)
      <3>1. OlderRow(row) = [row EXCEPT !.created = c]
        BY <2>4 DEF OlderRow
      <3>2. c \in Int
        BY <2>1, <2>2
      <3> HIDE DEF c
      <3> QED BY <3>1, <3>2 DEF Row
    <2>5. CASE row.status \notin {"leased", "pending"}
      BY <2>5 DEF OlderRow
    <2> QED BY <2>3, <2>4, <2>5
  <1> QED BY <1>2, <1>3, <1>4, <1>5, <1>6, <1>7

(* ClosedRow changes the status, the result and the times.                   *)
LEMMA ClosedFacts ==
    ASSUME NEW row \in Row, NEW status, NEW result
    PROVE  LET c == ClosedRow(row, status, result) IN
           /\ c.status = status /\ c.result = result
           /\ c.worker = row.worker /\ c.attempt = row.attempt
  BY DEF ClosedRow, Row

(* A row is named by its Run, its task and a number.                         *)
LEMMA RowParts ==
    ASSUME NEW d \in DispatchID
    PROVE  /\ RunOf(d) \in Run /\ TaskOf(d) \in Task
           /\ \E k \in RowId : d = <<RunOf(d), TaskOf(d), k>>
  BY DEF DispatchID, RunOf, TaskOf

(* The clock leaves the owner of a row alone.                                *)
LEMMA TimesOnly ==
    ASSUME NEW row \in Row
    PROVE  LET u == OlderRow(row) IN
           /\ u.status = row.status /\ u.worker = row.worker
           /\ u.attempt = row.attempt /\ u.result = row.result
  <1> DEFINE e == Earlier(row.lease, Floor)
             f == Earlier(row.deadline, Floor)
             g == Earlier(row.created, Floor)
  <1>1. OlderRow(row) = CASE row.status = "leased" -> [row EXCEPT !.lease = e, !.deadline = f]
                          [] row.status = "pending" -> [row EXCEPT !.created = g]
                          [] OTHER -> row
    BY DEF OlderRow
  <1> HIDE DEF e, f, g
  <1> QED BY <1>1 DEF Row

(* The clock changes when a retry is due and nothing else.                   *)
LEMMA OlderKeeps ==
    ASSUME NEW s \in Snapshot(Owner)
    PROVE  LET u == OlderSnapshot(s) IN
           u.status = s.status /\ u.task = s.task /\ u.attempts = s.attempts
  <1> DEFINE at == [t \in Task |-> IF s.task[t] = "waiting_retry"
                                   THEN Earlier(s.readyAt[t], Floor)
                                   ELSE s.readyAt[t]]
  <1>1. OlderSnapshot(s) = [s EXCEPT !.readyAt = at]
    BY DEF OlderSnapshot
  <1> HIDE DEF at
  <1> QED BY <1>1 DEF Snapshot

(* The clock changes no more of a Run than when its retries are due.         *)
LEMMA OlderSnapshotSound ==
    ASSUME NEW s, Sound(s, Owner)
    PROVE  Sound(OlderSnapshot(s), Owner)
  <1> DEFINE readyAt == [t \in Task |->
                           IF s.task[t] = "waiting_retry" THEN Earlier(s.readyAt[t], Floor)
                           ELSE s.readyAt[t]]
             u == OlderSnapshot(s)
  <1>1. u = [s EXCEPT !.readyAt = readyAt]
    BY DEF OlderSnapshot
  <1>2. s \in Snapshot(Owner) /\ SnapshotInv(s)
    BY DEF Sound
  <1>3. readyAt \in [Task -> Int]
    <2>1. \A t \in Task : s.readyAt[t] \in Int /\ Floor \in Int
      BY <1>2, DispatchAssumption DEF Snapshot, Floor
    <2> QED BY <2>1 DEF Earlier
  <1> HIDE DEF readyAt, u
  <1>4. /\ u \in Snapshot(Owner)
        /\ u.status = s.status /\ u.task = s.task /\ u.attempts = s.attempts
        /\ u.remaining = s.remaining /\ u.err = s.err
    BY <1>1, <1>2, <1>3 DEF Snapshot
  <1>5. SnapshotInv(u)
    BY <1>2, <1>4 DEF SnapshotInv, RemainingExact, DependencyOrder, Unsucceeded,
                      AttemptHistory, StatusAgrees
  <1> QED BY <1>4, <1>5 DEF Sound, u

(* Ending attempts leaves the histories of the other tasks alone.            *)
LEMMA HistoryKept ==
    ASSUME NEW s, NEW u, NEW T, NEW outcome, NEW t \in Task,
           Sound(s, Owner), Sound(u, Owner), LastEnded(s, u, T, outcome), t \notin T
    PROVE  u.attempts[t] = s.attempts[t]
  <1> DEFINE a == s.attempts[t]
             b == u.attempts[t]
  <1>1. a \in Seq(AttemptOf(Owner)) /\ b \in Seq(AttemptOf(Owner))
    BY DEF Sound, Snapshot
  <1>2. Len(b) = Len(a) /\ \A i \in 1..Len(a) : b[i] = a[i]
    BY DEF LastEnded
  <1> HIDE DEF a, b
  <1>3. b = a
    BY <1>1, <1>2
  <1> QED BY <1>3 DEF a, b

-----------------------------------------------------------------------------
(* One lemma per transaction.                                                *)

(* The owner Claim records with the attempts it starts in Run r.             *)
Claimant(w, C, r) ==
    [t \in TasksOf(C, r) |-> [worker |-> w, dispatch |-> RowOf(C, r, t)]]

(* Claim starts attempts of queued tasks only.                               *)
LEMMA ClaimRuns ==
    ASSUME DispatchInv, NEW w \in Worker, NEW C \in SUBSET DispatchID, NEW age \in Age,
           Claim(w, C, age), NEW r \in Run
    PROVE  /\ Sound(runs'[r], Owner)
           /\ AttemptsStarted(runs[r], runs'[r], TasksOf(C, r), Claimant(w, C, r))
           /\ runs'[r] = StartQueuedAttempts(runs[r], TasksOf(C, r), Claimant(w, C, r))
           /\ \A t \in TasksOf(C, r) : runs[r].task[t] = "queued"
  <1> DEFINE T == TasksOf(C, r)
             owner == Claimant(w, C, r)
  <1>1. Sound(runs[r], Owner)
    BY DEF DispatchInv
  <1>2. T \in SUBSET Task
    BY TasksOfFacts
  <1>3. \A t \in T : runs[r].task[t] = "queued"
    <2>1. \A d \in C : runs[RunOf(d)].task[TaskOf(d)] = "queued"
      BY DEF Claim, Claimable
    <2>2. \A t \in T : \E d \in C : RunOf(d) = r /\ TaskOf(d) = t
      BY TasksOfFacts
    <2> QED BY <2>1, <2>2
  <1>4. owner \in [T -> Owner]
    <2>1. \A t \in T : RowOf(C, r, t) \in DispatchID
      BY TasksOfFacts
    <2> QED BY <2>1 DEF Owner, Claimant
  <1>5. runs'[r] = StartQueuedAttempts(runs[r], T, owner)
    BY DEF Claim, Claimant
  <1> HIDE DEF T, owner
  <1>6. /\ Sound(runs'[r], Owner)
        /\ AttemptsStarted(runs[r], runs'[r], T, owner)
    BY <1>1, <1>2, <1>3, <1>4, <1>5, StartQueuedSound
  <1> QED BY <1>3, <1>5, <1>6 DEF T, owner

\* Claim starts one attempt of each queued task it takes.
LEMMA ClaimStep ==
    ASSUME DispatchInv, NEW w \in Worker, NEW C \in SUBSET DispatchID, NEW age \in Age,
           Claim(w, C, age)
    PROVE  DispatchInv'
  <1>3. \A r \in Run : Sound(runs'[r], Owner)
    BY ClaimRuns
  <1>4. runs' \in [Run -> Snapshot(Owner)]
    <2>1. \A r \in Run : runs'[r] \in Snapshot(Owner)
      BY <1>3 DEF Sound
    <2>2. runs' = [r \in Run |-> runs'[r]]
      BY DEF Claim
    <2> QED BY <2>1, <2>2
  <1>5. dispatches' \in [DispatchID -> Row]
    <2>1. ASSUME NEW d \in DispatchID
          PROVE  LeasedRow(w, Len(runs[RunOf(d)].attempts[TaskOf(d)]) + 1, TaskOf(d), age) \in Row
      <3>1. RunOf(d) \in Run /\ TaskOf(d) \in Task
        BY <2>1 DEF DispatchID, RunOf, TaskOf
      <3>2. runs[RunOf(d)].attempts[TaskOf(d)] \in Seq(AttemptOf(Owner))
        BY <3>1 DEF DispatchInv, TypeOK, Snapshot
      <3>3. Len(runs[RunOf(d)].attempts[TaskOf(d)]) + 1 \in Nat
        BY <3>2
      <3> QED BY <3>1, <3>3, RowTypes
    <2>2. dispatches \in [DispatchID -> Row]
      BY DEF DispatchInv, TypeOK
    <2> QED BY <2>1, <2>2 DEF Claim
  <1> QED BY <1>3, <1>4, <1>5 DEF Claim, DispatchInv, TypeOK

(* Complete applies a result to a running task only.                         *)
LEMMA CompleteRuns ==
    ASSUME DispatchInv, NEW w \in Worker, NEW d \in DispatchID, NEW kind \in ResultKind,
           NEW age \in Age, Complete(w, d, kind, age)
    PROVE  /\ RunOf(d) \in Run /\ TaskOf(d) \in Task
           /\ runs[RunOf(d)].task[TaskOf(d)] = "running"
           /\ Sound(runs'[RunOf(d)], Owner)
           /\ Resolved(runs[RunOf(d)], runs'[RunOf(d)], {TaskOf(d)}, EndsAs(TaskOf(d), kind))
           /\ runs' = [runs EXCEPT ![RunOf(d)] = runs'[RunOf(d)]]
  <1> DEFINE r == RunOf(d)
             t == TaskOf(d)
             u == ApplyAttemptResult(runs[r], t, kind, 0 - age)
  <1>1. r \in Run /\ t \in Task /\ 0 - age \in Int
    BY DispatchAssumption DEF DispatchID, RunOf, TaskOf, Age
  <1>2. runs[r].task[t] = "running"
    BY DEF Complete, activeAttempt
  <1>3. runs' = [runs EXCEPT ![r] = u]
    BY DEF Complete
  <1>4. Sound(u, Owner) /\ Resolved(runs[r], u, {t}, EndsAs(t, kind))
    <2>1. Sound(runs[r], Owner)
      BY <1>1 DEF DispatchInv
    <2> HIDE DEF r, t
    <2> QED BY <1>1, <1>2, <2>1, ApplyAttemptResultSound
  <1> HIDE DEF r, t, u
  <1>5. runs'[r] = u
    BY <1>1, <1>3 DEF DispatchInv, TypeOK
  <1> QED BY <1>1, <1>2, <1>3, <1>4, <1>5 DEF r, t

\* Complete ends the attempt of its row with the result submitted.
LEMMA CompleteStep ==
    ASSUME DispatchInv, NEW w \in Worker, NEW d \in DispatchID, NEW kind \in ResultKind,
           NEW age \in Age, Complete(w, d, kind, age)
    PROVE  DispatchInv'
  <1> DEFINE r == RunOf(d)
             u == runs'[r]
             row == ClosedRow(dispatches[d], "completed", kind)
  <1>1. r \in Run /\ runs' = [runs EXCEPT ![r] = u]
    BY CompleteRuns
  <1>3. /\ dispatches' = [dispatches EXCEPT ![d] = row]
        /\ UNCHANGED <<cancelRequested, workers, scan>>
    BY DEF Complete
  <1>4. Sound(u, Owner)
    BY CompleteRuns
  <1>5. row \in Row
    <2>1. dispatches[d] \in Row
      BY DEF DispatchInv, TypeOK
    <2>2. "completed" \in RowStatus /\ kind \in ResultKind \cup {"none"}
      BY DEF RowStatus
    <2> QED BY <2>1, <2>2, RowTypes
  <1> HIDE DEF r, u, row
  <1>6. \A x \in Run : Sound(runs'[x], Owner)
    BY <1>1, <1>3, <1>4 DEF DispatchInv, TypeOK
  <1>7. runs' \in [Run -> Snapshot(Owner)] /\ dispatches' \in [DispatchID -> Row]
    BY <1>1, <1>3, <1>4, <1>5 DEF DispatchInv, TypeOK, Sound
  <1> QED BY <1>3, <1>6, <1>7 DEF DispatchInv, TypeOK

(* How ReapExpired ends the attempts of Run r.                               *)
Settled(X, r) == [t \in TasksOf(X, r) |-> Outcome(dispatches[RowOf(X, r, t)])]

(* ReapExpired ends attempts of running tasks only.                          *)
LEMMA ReapRuns ==
    ASSUME DispatchInv, NEW X \in SUBSET DispatchID, NEW age \in Age, ReapExpired(X, age),
           NEW r \in Run
    PROVE  /\ Sound(runs'[r], Owner)
           /\ \A t \in TasksOf(X, r) : runs[r].task[t] = "running"
           /\ Settled(X, r) \in [TasksOf(X, r) -> {"timed_out", "interrupted"}]
           /\ \/ TasksOf(X, r) = {} /\ runs'[r] = runs[r]
              \/ TasksOf(X, r) # {} /\ Resolved(runs[r], runs'[r], TasksOf(X, r), Settled(X, r))
  <1> DEFINE T == TasksOf(X, r)
             outcome == Settled(X, r)
  <1>1. Sound(runs[r], Owner) /\ runs'[r] = Reaped(r, X)
    BY DEF DispatchInv, ReapExpired
  <1>2. outcome \in [T -> {"timed_out", "interrupted"}]
    BY DEF Outcome, Settled
  <1>3. T \in SUBSET Task
    BY TasksOfFacts
  <1>4. \A t \in T : runs[r].task[t] = "running"
    <2>1. \A d \in X : runs[RunOf(d)].task[TaskOf(d)] = "running"
      BY DEF ReapExpired, activeAttempt
    <2>2. \A t \in T : \E d \in X : RunOf(d) = r /\ TaskOf(d) = t
      BY TasksOfFacts
    <2> QED BY <2>1, <2>2
  <1>5. CASE T = {}
    <2>1. runs'[r] = runs[r]
      BY <1>1, <1>5 DEF Reaped
    <2> QED BY <1>1, <1>2, <1>4, <1>5, <2>1
  <1>6. CASE T # {}
    <2>1. outcome \in [T -> RetryableEnd]
      BY <1>2 DEF RetryableEnd
    <2>2. Reaped(r, X) = EndAttempts(runs[r], T, outcome, 0)
      BY <1>6 DEF Reaped, Settled
    <2> HIDE DEF T, outcome
    <2>3. LET u == EndAttempts(runs[r], T, outcome, 0)
          IN  Sound(u, Owner) /\ Resolved(runs[r], u, T, outcome)
      <3>1. 0 \in Int
        OBVIOUS
      <3> QED BY <1>1, <1>3, <1>4, <1>6, <2>1, <3>1, EndAttemptsSound, Zenon
    <2> QED BY <1>1, <1>2, <1>4, <1>6, <2>2, <2>3 DEF T, outcome
  <1> QED BY <1>5, <1>6

\* ReapExpired ends or returns the attempts of the rows whose lease is over.
LEMMA ReapExpiredStep ==
    ASSUME DispatchInv, NEW X \in SUBSET DispatchID, NEW age \in Age, ReapExpired(X, age)
    PROVE  DispatchInv'
  <1>3. \A r \in Run : Sound(runs'[r], Owner)
    BY ReapRuns
  <1>4. runs' \in [Run -> Snapshot(Owner)]
    <2>1. \A r \in Run : runs'[r] \in Snapshot(Owner)
      BY <1>3 DEF Sound
    <2>2. runs' = [r \in Run |-> Reaped(r, X)]
      BY DEF ReapExpired
    <2> QED BY <2>1, <2>2
  <1>5. dispatches' \in [DispatchID -> Row]
    <2>1. dispatches \in [DispatchID -> Row]
      BY DEF DispatchInv, TypeOK
    <2>2. "expired" \in RowStatus
      BY DEF RowStatus
    <2>3. \A d \in DispatchID : ClosedRow(dispatches[d], "expired", "none") \in Row
      BY <2>1, <2>2, RowTypes
    <2> QED BY <2>1, <2>3 DEF ReapExpired
  <1>6. workers' \in [Worker -> WorkerRow]
    BY DEF ReapExpired, DispatchInv, TypeOK, WorkerRow, WorkerStatus
  <1> QED BY <1>3, <1>4, <1>5, <1>6 DEF ReapExpired, DispatchInv, TypeOK

(* CancelRun cancels open Runs only.                                         *)
LEMMA CancelRuns ==
    ASSUME DispatchInv, NEW r \in Run, CancelRun(r)
    PROVE  /\ Sound(runs'[r], Owner)
           /\ AllCanceled(runs[r], runs'[r])
           /\ runs[r].status \in {"pending", "running"}
           /\ runs' = [runs EXCEPT ![r] = runs'[r]]
  <1> DEFINE u == CancelRunSnapshot(runs[r])
  <1>1. Sound(runs[r], Owner) /\ runs[r].status \in {"pending", "running"}
    BY DEF DispatchInv, CancelRun, CancelRequestedRuns, WorkflowTerminal, Sound, Snapshot, WorkflowStatus
  <1>2. Sound(u, Owner) /\ AllCanceled(runs[r], u)
    BY <1>1, CancelSound
  <1>3. runs' = [runs EXCEPT ![r] = u]
    BY DEF CancelRun
  <1> HIDE DEF u
  <1>4. runs'[r] = u
    BY <1>3 DEF DispatchInv, TypeOK
  <1> QED BY <1>1, <1>2, <1>3, <1>4

\* CancelRun closes everything open in one Run.
LEMMA CancelRunStep ==
    ASSUME DispatchInv, NEW r \in Run, CancelRun(r)
    PROVE  DispatchInv'
  <1> DEFINE u == runs'[r]
  <1>1. Sound(u, Owner) /\ runs' = [runs EXCEPT ![r] = u]
    BY CancelRuns
  <1> HIDE DEF u
  <1>4. \A x \in Run : Sound(runs'[x], Owner)
    BY <1>1 DEF DispatchInv, TypeOK
  <1>5. runs' \in [Run -> Snapshot(Owner)]
    BY <1>1 DEF DispatchInv, TypeOK, Sound
  <1>6. dispatches' \in [DispatchID -> Row]
    <2>1. dispatches \in [DispatchID -> Row]
      BY DEF DispatchInv, TypeOK
    <2>2. "canceled" \in RowStatus
      BY DEF RowStatus
    <2>3. \A d \in DispatchID : ClosedRow(dispatches[d], "canceled", "none") \in Row
      BY <2>1, <2>2, RowTypes, AgeZero
    <2> QED BY <2>1, <2>3 DEF CancelRun
  <1> QED BY <1>4, <1>5, <1>6 DEF CancelRun, DispatchInv, TypeOK

(* p is s after a scan returned the tasks T to ready and promoted a retry,    *)
(* u is p after the scan queued its first ready task if it queued one.       *)
Promoted(s, p, T) ==
    /\ p.status = s.status
    /\ p.attempts = s.attempts
    /\ \A t \in T : s.task[t] = "queued" /\ p.task[t] = "ready"
    /\ \A t \in Task \ T : \/ p.task[t] = s.task[t]
                           \/ s.task[t] = "waiting_retry" /\ p.task[t] = "ready"

Queued(p, u, queue) ==
    LET t == First(ReadyTasks(p)) IN
    /\ ~queue => u = p
    /\ queue => /\ t \in Task /\ p.task[t] = "ready"
                /\ p.status \in {"pending", "running"} /\ u.status = "running"
                /\ u.attempts = p.attempts
                /\ \A x \in Task : u.task[x] = IF x = t THEN "queued" ELSE p.task[x]

\* The tables are finite.
LEMMA TablesFinite ==
    /\ IsFiniteSet(DispatchID)
    /\ IsFiniteSet(Task)
  <1>1. IsFiniteSet(Task) /\ IsFiniteSet(RowId) /\ IsFiniteSet(Run)
    BY FS_Interval, DispatchAssumption, DefinitionAssumption DEF Task, RowId
  <1> DEFINE S == (Run \X Task) \X RowId
             f == [x \in S |-> <<x[1][1], x[1][2], x[2]>>]
  <1>2. IsFiniteSet(S)
    <2>1. IsFiniteSet(Run \X Task)
      BY <1>1, FS_Product
    <2> QED BY <1>1, <2>1, FS_Product
  <1>3. f \in Surjection(S, DispatchID)
    <2>1. f \in [S -> DispatchID]
      BY DEF DispatchID
    <2>2. ASSUME NEW d \in DispatchID PROVE \E x \in S : f[x] = d
      <3>1. PICK r \in Run, t \in Task, k \in RowId : d = <<r, t, k>>
        BY DEF DispatchID
      <3>2. <<<<r, t>>, k>> \in S /\ f[<<<<r, t>>, k>>] = d
        BY <3>1
      <3> QED BY <3>2
    <2> QED BY <2>1, <2>2 DEF Surjection
  <1> HIDE DEF S, f
  <1> QED BY <1>1, <1>2, <1>3, FS_Surjection

(* What a scan counts fits the columns it is kept in.                        *)
LEMMA CapacityTypes ==
    ASSUME NEW c \in Coordinator
    PROVE  /\ [kind \in ExecutorKind |-> Capacity(c, kind)] \in [ExecutorKind -> Nat]
           /\ Available(c) \in 0..DispatchLimit
  <1>1. ASSUME NEW kind \in ExecutorKind PROVE Capacity(c, kind) \in Nat
    <2> DEFINE W == ActiveWorkers(kind)
               f == [w \in W |-> {w} \X (1..FreeSlots(w))]
               slots == UNION {{w} \X (1..FreeSlots(w)) : w \in W}
    <2>1. IsFiniteSet(W)
      <3>1. W \in SUBSET Worker
        BY DEF ActiveWorkers
      <3> QED BY <3>1, DispatchAssumption, FS_Subset
    <2>2. ASSUME NEW w \in W PROVE IsFiniteSet({w} \X (1..FreeSlots(w)))
      <3>1. Cardinality(LeasesOf(w)) \in Nat
        <4>1. LeasesOf(w) \in SUBSET DispatchID
          BY DEF LeasesOf
        <4> QED BY <4>1, TablesFinite, FS_Subset, FS_CardinalityType
      <3>2. FreeSlots(w) \in Int
        BY <3>1, DispatchAssumption DEF FreeSlots, ActiveWorkers
      <3>3. IsFiniteSet(1..FreeSlots(w))
        BY <3>2, FS_Interval
      <3> QED BY <3>3, FS_Singleton, FS_Product
    <2>3. IsFiniteSet({{w} \X (1..FreeSlots(w)) : w \in W})
      <3>1. f \in Surjection(W, {{w} \X (1..FreeSlots(w)) : w \in W})
        BY DEF Surjection
      <3> QED BY <2>1, <3>1, FS_Surjection
    <2>4. IsFiniteSet(slots)
      BY <2>2, <2>3, FS_UNION
    <2>5. Cardinality(slots) \in Nat
      BY <2>4, FS_CardinalityType
    <2>6. Cardinality(Waiting(c, kind)) \in Nat
      <3>1. Waiting(c, kind) \in SUBSET DispatchID
        BY DEF Waiting
      <3> QED BY <3>1, TablesFinite, FS_Subset, FS_CardinalityType
    <2>7. Capacity(c, kind) =
            IF Cardinality(slots) - Cardinality(Waiting(c, kind)) < 0 THEN 0
            ELSE Cardinality(slots) - Cardinality(Waiting(c, kind))
      BY DEF Capacity
    <2> HIDE DEF slots
    <2> QED BY <2>5, <2>6, <2>7
  <1>2. Available(c) \in 0..DispatchLimit
    <2>1. Cardinality(ActiveDispatches(c)) \in Nat
      <3>1. ActiveDispatches(c) \in SUBSET DispatchID
        BY DEF ActiveDispatches
      <3> QED BY <3>1, TablesFinite, FS_Subset, FS_CardinalityType
    <2> QED BY <2>1, DispatchAssumption DEF Available
  <1> QED BY <1>1, <1>2

(* The steps of a scan that only read.                                       *)
ReadsOnly(c) ==
    \/ BeginScan(c) \/ QueryCandidates(c) \/ AbortScan(c)
    \/ \E P \in SUBSET Run : CountDispatches(c, P)

LEMMA ReadsOnlyUnchanged ==
    ASSUME NEW c \in Coordinator, ReadsOnly(c)
    PROVE  UNCHANGED <<runs, cancelRequested, dispatches, workers>>
  BY DEF ReadsOnly, BeginScan, QueryCandidates, AbortScan, CountDispatches

LEMMA NoScanType == NoScan \in Scan
  <1>1. 0 \in 0..DispatchLimit
    BY DispatchAssumption
  <1> QED BY <1>1, AgeZero DEF NoScan, Scan

(* What a scan makes of a Run before it queues tasks: it returns the tasks of *)
(* orphaned rows and promotes a due retry.                                   *)
LEMMA PromotedRuns ==
    ASSUME DispatchInv, NEW c \in Coordinator, NEW r \in Run,
           \A d \in Orphans(c) : runs[RunOf(d)].task[TaskOf(d)] = "queued"
    PROVE  /\ Sound(promoted(c, r), Owner)
           /\ TasksOf(Orphans(c), r) \in SUBSET Task
           /\ Promoted(runs[r], promoted(c, r), TasksOf(Orphans(c), r))
  <1> DEFINE T == TasksOf(Orphans(c), r)
             a == afterOrphans(c, r)
             p == promoted(c, r)
  <1>1. Orphans(c) \in SUBSET DispatchID
    BY DEF Orphans, DispatchInv, TypeOK, Scan
  <1>2. T \in SUBSET Task /\ \A t \in T : runs[r].task[t] = "queued"
    <2>1. T \in SUBSET Task /\ \A t \in T : \E d \in Orphans(c) : RunOf(d) = r /\ TaskOf(d) = t
      BY <1>1, TasksOfFacts
    <2> QED BY <2>1
  <1>3. /\ Sound(a, Owner) /\ a.status = runs[r].status /\ a.attempts = runs[r].attempts
        /\ \A t \in Task : a.task[t] = IF t \in T THEN "ready" ELSE runs[r].task[t]
    <2>1. Sound(runs[r], Owner) /\ a = ReturnQueuedTasksToReady(runs[r], T)
      BY DEF DispatchInv, afterOrphans
    <2> HIDE DEF T, a
    <2> QED BY <1>2, <2>1, ReturnQueuedSound
  <1>4. Sound(p, Owner) /\ Promoted(runs[r], p, T)
    <2>1. CASE ~(r \in scan[c].retries /\ DueRetries(c, a) # {})
      <3>1. p = a
        BY <2>1 DEF promoted
      <3> HIDE DEF p, a, T
      <3> QED BY <1>2, <1>3, <3>1 DEF Promoted
    <2>2. CASE r \in scan[c].retries /\ DueRetries(c, a) # {}
      <3> DEFINE t == First(DueRetries(c, a))
      <3>1. DueRetries(c, a) # {} /\ DueRetries(c, a) \subseteq Nat
        BY <2>2 DEF DueRetries, Task
      <3>2. t \in DueRetries(c, a)
        BY <3>1, FirstMember
      <3>3. t \in Task /\ a.task[t] = "waiting_retry"
        BY <3>2 DEF DueRetries, retryDue
      <3>4. p = MakeRetryReady(a, t)
        BY <2>2 DEF promoted
      <3> HIDE DEF a, t, p, T
      <3>5. /\ Sound(p, Owner) /\ p.status = a.status /\ p.attempts = a.attempts
            /\ \A x \in Task : p.task[x] = IF x = t THEN "ready" ELSE a.task[x]
        BY <1>3, <3>3, <3>4, MakeRetryReadySound
      <3> QED BY <1>2, <1>3, <3>3, <3>5 DEF Promoted
    <2> QED BY <2>1, <2>2
  <1> QED BY <1>2, <1>4

(* CreateDispatches: orphaned rows, due retries and new rows, in this order. *)
LEMMA CreateRuns ==
    ASSUME DispatchInv, NEW c \in Coordinator, NEW Q \in SUBSET Run, CreateDispatches(c, Q),
           NEW r \in Run
    PROVE  /\ Sound(runs'[r], Owner)
           /\ Sound(promoted(c, r), Owner)
           /\ TasksOf(Orphans(c), r) \in SUBSET Task
           /\ Promoted(runs[r], promoted(c, r), TasksOf(Orphans(c), r))
           /\ Queued(promoted(c, r), runs'[r], r \in Q)
  <1> DEFINE T == TasksOf(Orphans(c), r)
             p == promoted(c, r)
  <1>4. Sound(p, Owner) /\ T \in SUBSET Task /\ Promoted(runs[r], p, T)
    BY PromotedRuns DEF CreateDispatches
  <1>5. Sound(runs'[r], Owner) /\ Queued(p, runs'[r], r \in Q)
    <2>1. runs'[r] = IF r \in Q THEN QueueTask(p, First(ReadyTasks(p))) ELSE p
      BY DEF CreateDispatches
    <2>2. CASE r \notin Q
      BY <1>4, <2>1, <2>2 DEF Queued
    <2>3. CASE r \in Q
      <3> DEFINE t == First(ReadyTasks(p))
      <3>1. Startable(p, r)
        BY <2>3 DEF CreateDispatches, Admitted
      <3> HIDE DEF p
      <3>2. /\ p.status \in {"pending", "running"}
            /\ ReadyTasks(p) # {} /\ ReadyTasks(p) \subseteq Nat
        BY <3>1 DEF Startable, ReadyTasks, Task
      <3>3. t \in ReadyTasks(p)
        BY <3>2, FirstMember
      <3>4. t \in Task /\ p.task[t] = "ready"
        BY <3>3 DEF ReadyTasks
      <3> HIDE DEF t
      <3>5. LET u == runs'[r] IN
            /\ Sound(u, Owner) /\ u.status = "running" /\ u.attempts = p.attempts
            /\ \A x \in Task : u.task[x] = IF x = t THEN "queued" ELSE p.task[x]
        BY <1>4, <2>1, <2>3, <3>2, <3>4, QueueTaskSound DEF t
      <3> QED BY <2>3, <3>2, <3>4, <3>5 DEF Queued, t
    <2> QED BY <2>2, <2>3
  <1> QED BY <1>4, <1>5

(* The row CreateDispatches inserts is unused until then.                    *)
LEMMA NewDispatchUnused ==
    ASSUME DispatchInv, NEW c \in Coordinator, NEW Q \in SUBSET Run, CreateDispatches(c, Q),
           NEW r \in Q
    PROVE  \E n \in RowId :
              /\ NewDispatch(promoted(c, r), r) = <<r, First(ReadyTasks(promoted(c, r))), n>>
              /\ dispatches[<<r, First(ReadyTasks(promoted(c, r))), n>>].status = "none"
  <1> DEFINE p == promoted(c, r)
             t == First(ReadyTasks(p))
             U == UnusedRows(r, t)
  <1>1. U # {}
    BY DEF CreateDispatches, Admitted
  <1>2. U # {} /\ U \subseteq Nat
    BY <1>1, DispatchAssumption DEF UnusedRows, RowId
  <1>3. First(U) \in U
    BY <1>2, FirstMember
  <1>4. NewDispatch(p, r) = <<r, t, First(U)>>
    BY DEF NewDispatch
  <1> HIDE DEF p, t
  <1>5. First(U) \in RowId /\ dispatches[<<r, t, First(U)>>].status = "none"
    BY <1>3 DEF UnusedRows
  <1> QED BY <1>4, <1>5 DEF p, t

(* What CreateDispatches does to the rows: close, insert or keep.            *)
Inserted(d, c, Q) == RunOf(d) \in Q /\ d = NewDispatch(promoted(c, RunOf(d)), RunOf(d))

\* What a scan does to one row: close an orphan, insert a new one, or nothing.
LEMMA CreatedRows ==
    ASSUME DispatchInv, NEW c \in Coordinator, NEW Q \in SUBSET Run, CreateDispatches(c, Q),
           NEW d \in DispatchID
    PROVE  /\ d \in Orphans(c) => /\ Pending(d) /\ ~Inserted(d, c, Q)
                               /\ dispatches'[d] = ClosedRow(dispatches[d], "canceled", "none")
           /\ Inserted(d, c, Q) => /\ dispatches[d].status = "none"
                                   /\ dispatches'[d] = PendingRow(scan[c].age)
           /\ d \notin Orphans(c) /\ ~Inserted(d, c, Q) => dispatches'[d] = dispatches[d]
  <1>1. d \in Orphans(c) => Pending(d)
    BY DEF Orphans
  <1>2. ASSUME Inserted(d, c, Q) PROVE dispatches[d].status = "none"
    <2>1. RunOf(d) \in Q /\ d = NewDispatch(promoted(c, RunOf(d)), RunOf(d))
      BY <1>2 DEF Inserted
    <2>2. PICK n \in RowId :
            /\ NewDispatch(promoted(c, RunOf(d)), RunOf(d)) =
                  <<RunOf(d), First(ReadyTasks(promoted(c, RunOf(d)))), n>>
            /\ dispatches[<<RunOf(d), First(ReadyTasks(promoted(c, RunOf(d)))), n>>].status = "none"
      BY <2>1, NewDispatchUnused
    <2> QED BY <2>1, <2>2
  <1>3. d \in Orphans(c) => ~Inserted(d, c, Q)
    BY <1>1, <1>2 DEF Pending
  <1>4. dispatches' =
          [x \in DispatchID |->
             CASE x \in Orphans(c) -> ClosedRow(dispatches[x], "canceled", "none")
               [] Inserted(x, c, Q) -> PendingRow(scan[c].age)
               [] OTHER -> dispatches[x]]
    BY DEF CreateDispatches, Inserted
  <1>5. dispatches'[d] = CASE d \in Orphans(c) -> ClosedRow(dispatches[d], "canceled", "none")
                           [] Inserted(d, c, Q) -> PendingRow(scan[c].age)
                           [] OTHER -> dispatches[d]
    BY <1>4
  <1> QED BY <1>1, <1>2, <1>3, <1>5

\* A scan returns the tasks of orphaned rows and queues those of new ones.
LEMMA CreateDispatchesStep ==
    ASSUME DispatchInv, NEW c \in Coordinator, NEW Q \in SUBSET Run, CreateDispatches(c, Q)
    PROVE  DispatchInv'
  <1> DEFINE s(r) == promoted(c, r)
  <1>5. \A r \in Run : Sound(runs'[r], Owner)
    BY CreateRuns
  <1>6. runs' \in [Run -> Snapshot(Owner)]
    <2>1. \A r \in Run : runs'[r] \in Snapshot(Owner)
      BY <1>5 DEF Sound
    <2>2. runs' = [r \in Run |-> runs'[r]]
      BY DEF CreateDispatches
    <2> QED BY <2>1, <2>2
  <1>7. dispatches' \in [DispatchID -> Row]
    <2>1. dispatches \in [DispatchID -> Row] /\ scan[c].age \in Age
      BY DEF DispatchInv, TypeOK, Scan
    <2>2. "canceled" \in RowStatus
      BY DEF RowStatus
    <2>3. \A d \in DispatchID : ClosedRow(dispatches[d], "canceled", "none") \in Row
      BY <2>1, <2>2, RowTypes
    <2>4. PendingRow(scan[c].age) \in Row
      BY <2>1, RowTypes
    <2>5. dispatches' =
            [d \in DispatchID |->
               CASE d \in Orphans(c) -> ClosedRow(dispatches[d], "canceled", "none")
                 [] RunOf(d) \in Q /\ d = NewDispatch(s(RunOf(d)), RunOf(d)) -> PendingRow(scan[c].age)
                 [] OTHER -> dispatches[d]]
      BY DEF CreateDispatches
    <2>6. ASSUME NEW d \in DispatchID
          PROVE  (CASE d \in Orphans(c) -> ClosedRow(dispatches[d], "canceled", "none")
                    [] RunOf(d) \in Q /\ d = NewDispatch(s(RunOf(d)), RunOf(d)) -> PendingRow(scan[c].age)
                    [] OTHER -> dispatches[d]) \in Row
      <3> DEFINE new == RunOf(d) \in Q /\ d = NewDispatch(s(RunOf(d)), RunOf(d))
      <3> HIDE DEF new
      <3>1. (CASE d \in Orphans(c) -> ClosedRow(dispatches[d], "canceled", "none")
               [] new -> PendingRow(scan[c].age)
               [] OTHER -> dispatches[d]) \in Row
        BY <2>1, <2>3, <2>4
      <3> QED BY <3>1 DEF new
    <2> QED BY <2>5, <2>6
  <1>8. scan' \in [Coordinator -> Scan]
    BY NoScanType DEF CreateDispatches, DispatchInv, TypeOK
  <1> QED BY <1>5, <1>6, <1>7, <1>8 DEF CreateDispatches, DispatchInv, TypeOK

(* Tick moves time columns only.                                             *)
LEMMA TickStep ==
    ASSUME DispatchInv, Tick
    PROVE  DispatchInv'
  <1>1. \A r \in Run : Sound(OlderSnapshot(runs[r]), Owner)
    BY OlderSnapshotSound DEF DispatchInv
  <1>2. runs' = [r \in Run |-> OlderSnapshot(runs[r])]
    BY DEF Tick
  <1>3. \A r \in Run : Sound(runs'[r], Owner)
    BY <1>1, <1>2
  <1>4. runs' \in [Run -> Snapshot(Owner)]
    BY <1>1, <1>2 DEF Sound
  <1>5. dispatches' \in [DispatchID -> Row]
    BY AgeZero, RowTypes DEF Tick, DispatchInv, TypeOK
  <1>6. workers' \in [Worker -> WorkerRow]
    <2>1. ASSUME NEW session \in WorkerRow
          PROVE  OlderSession(session) \in WorkerRow
      <3> DEFINE h == Earlier(session.lastHeartbeat, SilentFloor)
      <3>1. h \in Int
        BY DispatchAssumption DEF Earlier, SilentFloor, WorkerRow
      <3>2. OlderSession(session) \in {session, [session EXCEPT !.lastHeartbeat = h]}
        BY DEF OlderSession
      <3> HIDE DEF h
      <3> QED BY <3>1, <3>2 DEF WorkerRow
    <2> QED BY <2>1 DEF Tick, DispatchInv, TypeOK
  <1>7. scan' \in [Coordinator -> Scan]
    <2>1. ASSUME NEW c \in Coordinator, scan[c].at # "idle"
          PROVE  [scan[c] EXCEPT !.age = scan[c].age + 1] \in Scan
      <3>1. scan[c].age < MaxTxAge /\ scan[c] \in Scan
        BY <2>1 DEF Tick, DispatchInv, TypeOK
      <3>2. scan[c].age + 1 \in Age
        BY <3>1, DispatchAssumption DEF Scan, Age
      <3> QED BY <3>1, <3>2 DEF Scan
    <2> QED BY <2>1 DEF Tick, DispatchInv, TypeOK
  <1> QED BY <1>3, <1>4, <1>5, <1>6, <1>7 DEF Tick, DispatchInv, TypeOK

(* RegisterWorker and DrainWorker write the session only.                    *)
LEMMA SessionStep ==
    ASSUME DispatchInv, NEW w \in Worker, RegisterWorker(w) \/ DrainWorker(w)
    PROVE  DispatchInv'
  <1>1. workers' \in [Worker -> WorkerRow]
    BY DEF DispatchInv, TypeOK, RegisterWorker, DrainWorker, WorkerRow, WorkerStatus
  <1>2. UNCHANGED <<runs, cancelRequested, dispatches, scan>>
    BY DEF RegisterWorker, DrainWorker
  <1> QED BY <1>1, <1>2 DEF DispatchInv, TypeOK

(* Heartbeat writes the session and the renewed leases only.                 *)
LEMMA HeartbeatStep ==
    ASSUME DispatchInv, NEW w \in Worker, NEW L, NEW age \in Age, Heartbeat(w, L, age)
    PROVE  DispatchInv'
  <1>1. workers' \in [Worker -> WorkerRow]
    <2>1. 0 - age \in Int
      BY DispatchAssumption DEF Age
    <2> QED BY <2>1 DEF DispatchInv, TypeOK, Heartbeat, WorkerRow
  <1>2. dispatches' \in [DispatchID -> Row]
    <2>1. dispatches \in [DispatchID -> Row]
      BY DEF DispatchInv, TypeOK
    <2>2. \A d \in DispatchID :
            [dispatches[d] EXCEPT !.lease = LeaseUntil(dispatches[d].deadline, age)] \in Row
      BY <2>1, RowTypes
    <2> QED BY <2>1, <2>2 DEF Heartbeat
  <1>3. UNCHANGED <<runs, cancelRequested, scan>>
    BY DEF Heartbeat
  <1> QED BY <1>1, <1>2, <1>3 DEF DispatchInv, TypeOK

(* The steps of a scan before its commit write nothing but what it has read. *)
LEMMA ReadStep ==
    ASSUME DispatchInv, NEW c \in Coordinator, ReadsOnly(c)
    PROVE  DispatchInv'
  <1>1. scan' \in [Coordinator -> Scan]
    <2>1. scan \in [Coordinator -> Scan] /\ scan[c] \in Scan
      BY DEF DispatchInv, TypeOK
    <2>2. CASE BeginScan(c)
      <3>1. PICK O \in SUBSET Orphaned :
               scan' = [scan EXCEPT ![c] = [NoScan EXCEPT !.at = "listed", !.orphans = O]]
        BY <2>2 DEF BeginScan
      <3>2. O \in SUBSET DispatchID
        BY DEF Orphaned
      <3>3. [NoScan EXCEPT !.at = "listed", !.orphans = O] \in Scan
        BY <3>2, NoScanType DEF Scan
      <3> QED BY <2>1, <3>1, <3>3
    <2>3. CASE AbortScan(c)
      BY <2>1, <2>3, NoScanType DEF AbortScan
    <2>4. CASE QueryCandidates(c)
      <3> DEFINE K == {r \in Run : Candidate(promoted(c, r), r)}
      <3>1. K \in SUBSET Run
            /\ scan' = [scan EXCEPT ![c] = [@ EXCEPT !.at = "chosen", !.candidates = K]]
        BY <2>4 DEF QueryCandidates
      <3> HIDE DEF K
      <3>2. [scan[c] EXCEPT !.at = "chosen", !.candidates = K] \in Scan
        BY <2>1, <3>1 DEF Scan
      <3> QED BY <2>1, <3>1, <3>2
    <2>5. ASSUME NEW P \in SUBSET Run, CountDispatches(c, P)
          PROVE  scan' \in [Coordinator -> Scan]
      <3> DEFINE k == [kind \in ExecutorKind |-> Capacity(c, kind)]
                 n == Available(c)
                 at == IF n = 0 \/ \A kind \in ExecutorKind : k[kind] = 0
                       THEN "chosen" ELSE "counted"
      <3>1. scan' = [scan EXCEPT ![c] = [@ EXCEPT !.at = at, !.retries = P,
                                                  !.available = n, !.capacity = k]]
        BY <2>5 DEF CountDispatches
      <3>2. k \in [ExecutorKind -> Nat] /\ n \in 0..DispatchLimit
        BY CapacityTypes
      <3>3. at \in {"counted", "chosen"}
        OBVIOUS
      <3> HIDE DEF k, n, at
      <3>4. [scan[c] EXCEPT !.at = at, !.retries = P, !.available = n, !.capacity = k] \in Scan
        BY <2>1, <3>2, <3>3 DEF Scan
      <3> QED BY <2>1, <3>1, <3>4
    <2> QED BY <2>2, <2>3, <2>4, <2>5 DEF ReadsOnly
  <1>2. UNCHANGED <<runs, cancelRequested, dispatches, workers>>
    BY ReadsOnlyUnchanged
  <1> QED BY <1>1, <1>2 DEF DispatchInv, TypeOK

(* RequestCancel records the request only.                                   *)
LEMMA RequestCancelStep ==
    ASSUME DispatchInv, NEW r \in Run, RequestCancel(r)
    PROVE  DispatchInv'
  BY DEF DispatchInv, TypeOK, RequestCancel

-----------------------------------------------------------------------------
(* The invariant holds of freshly created Runs.                              *)
LEMMA InitInv == Init => DispatchInv
  <1> SUFFICES ASSUME Init PROVE DispatchInv
    OBVIOUS
  <1>1. Sound(newRunSnapshot, Owner)
    BY NewRunSound
  <1>2. /\ \A r \in Run : Sound(runs[r], Owner)
        /\ runs \in [Run -> Snapshot(Owner)]
    BY <1>1 DEF Init, Sound
  <1>3. dispatches \in [DispatchID -> Row]
    BY AgeZero, RowTypes DEF Init
  <1>4. workers \in [Worker -> WorkerRow] /\ scan \in [Coordinator -> Scan] /\ cancelRequested \in [Run -> BOOLEAN]
    BY NoScanType DEF Init, WorkerRow, WorkerStatus
  <1> QED BY <1>2, <1>3, <1>4 DEF DispatchInv, TypeOK

(* Every transaction preserves the invariant.                                *)
LEMMA NextInv == DispatchInv /\ [Next]_vars => DispatchInv'
  <1> SUFFICES ASSUME DispatchInv, [Next]_vars PROVE DispatchInv'
    OBVIOUS
  <1>1. ASSUME NEW w \in Worker, RegisterWorker(w) \/ DrainWorker(w) PROVE DispatchInv'
    BY <1>1, SessionStep
  <1>2. ASSUME NEW w \in Worker, NEW age \in Age, NEW L \in SUBSET LeasesOf(w),
               Heartbeat(w, L, age)
        PROVE  DispatchInv'
    BY <1>2, HeartbeatStep
  <1>3. ASSUME NEW w \in Worker, NEW age \in Age,
               NEW C \in SUBSET {d \in DispatchID : Claimable(d, w)}, Claim(w, C, age)
        PROVE  DispatchInv'
    <2>1. C \in SUBSET DispatchID
      OBVIOUS
    <2> QED BY <1>3, <2>1, ClaimStep
  <1>4. ASSUME NEW w \in Worker, NEW age \in Age, NEW d \in DispatchID, NEW kind \in ResultKind,
               Complete(w, d, kind, age)
        PROVE  DispatchInv'
    BY <1>4, CompleteStep
  <1>5. ASSUME NEW age \in Age,
               NEW X \in SUBSET {d \in DispatchID : Expired(dispatches[d], 0 - age)},
               ReapExpired(X, age)
        PROVE  DispatchInv'
    <2>1. X \in SUBSET DispatchID
      OBVIOUS
    <2> QED BY <1>5, <2>1, ReapExpiredStep
  <1>6. ASSUME NEW c \in Coordinator, ReadsOnly(c) PROVE DispatchInv'
    BY <1>6, ReadStep
  <1>7. ASSUME NEW c \in Coordinator, NEW Q \in SUBSET Run, CreateDispatches(c, Q)
        PROVE  DispatchInv'
    BY <1>7, CreateDispatchesStep
  <1>8. ASSUME NEW r \in Run, RequestCancel(r) PROVE DispatchInv'
    BY <1>8, RequestCancelStep
  <1>9. ASSUME NEW r \in Run, CancelRun(r) PROVE DispatchInv'
    BY <1>9, CancelRunStep
  <1>10. CASE Tick
    BY <1>10, TickStep
  <1>11. CASE UNCHANGED vars
    BY <1>11 DEF vars, DispatchInv, TypeOK
  <1> QED BY <1>1, <1>2, <1>3, <1>4, <1>5, <1>6, <1>7, <1>8, <1>9, <1>10, <1>11
          DEF Next, ScanStep, ReadsOnly

(* The inductive invariant holds in every reachable state.                   *)
THEOREM Invariance == Spec => []DispatchInv
  BY InitInv, NextInv, PTL DEF Spec

(* Every table keeps its column types whatever the workers, the coordinator  *)
(* and the API do (the CHECK constraints of 0003_workers_and_dispatches).    *)
THEOREM TypeCorrect == Spec => []TypeOK
  <1>1. DispatchInv => TypeOK
    BY DEF DispatchInv
  <1> QED BY <1>1, Invariance, PTL

(* For every acyclic definition the counters that succeed lowers stay exact  *)
(* and no task gets ahead of its dependencies, however results, expired      *)
(* leases, retries and cancellations interleave.                             *)
THEOREM DependenciesRespected == Spec => []DependencyInv
  <1>1. DispatchInv => DependencyInv
    BY DEF DispatchInv, Sound, SnapshotInv, DependencyInv
  <1> QED BY <1>1, Invariance, PTL

(* Every attempt history is within its limit and agrees with its task.       *)
THEOREM HistoriesSound == Spec => []HistoryInv
  <1>1. DispatchInv => HistoryInv
    BY DEF DispatchInv, Sound, SnapshotInv, HistoryInv
  <1> QED BY <1>1, Invariance, PTL

(* settleWorkflowIfComplete settles a Run exactly when its tasks are, and an *)
(* open Run always has a task that is not waiting for a dependency: the      *)
(* argument descends the dependency graph, which Compile keeps acyclic.      *)
THEOREM RunsSettleCorrectly == Spec => []SettlementInv
  <1>1. DispatchInv => SettlementInv
    <2> SUFFICES ASSUME DispatchInv, NEW r \in Run
                 PROVE  StatusAgrees(runs[r]) /\ NeverStuck(runs[r])
      BY DEF SettlementInv
    <2>1. Sound(runs[r], Owner)
      BY DEF DispatchInv
    <2>2. runs[r] \in Snapshot(Owner) /\ SnapshotInv(runs[r])
      BY <2>1 DEF Sound
    <2> QED BY <2>2, OpenRunNeverStuck DEF SnapshotInv
  <1> QED BY <1>1, Invariance, PTL

-----------------------------------------------------------------------------
(* What a step may never do.  Every step changes a stored Run in one of five *)
(* ways, or not at all.                                                      *)

(* The state rules applied to no task change nothing.                        *)
LEMMA NothingMoved ==
    ASSUME NEW s \in Snapshot(Owner), NEW to, NEW owner
    PROVE  transitionTasks(s, {}, to) = s /\ StartQueuedAttempts(s, {}, owner) = s
  <1>1. transitionTasks(s, {}, to) = s
    <2> DEFINE f == [t \in Task |-> IF t \in {} THEN to ELSE s.task[t]]
               g == [t \in Task |-> IF t \in {} THEN 0 ELSE s.readyAt[t]]
    <2>1. transitionTasks(s, {}, to) = [s EXCEPT !.task = f, !.readyAt = g]
      BY DEF transitionTasks
    <2>2. f = s.task /\ g = s.readyAt
      BY DEF Snapshot
    <2> HIDE DEF f, g
    <2> QED BY <2>1, <2>2 DEF Snapshot
  <1>2. transitionTasks(s, {}, "running") = s
    <2> DEFINE f == [t \in Task |-> IF t \in {} THEN "running" ELSE s.task[t]]
               g == [t \in Task |-> IF t \in {} THEN 0 ELSE s.readyAt[t]]
    <2>1. transitionTasks(s, {}, "running") = [s EXCEPT !.task = f, !.readyAt = g]
      BY DEF transitionTasks
    <2>2. f = s.task /\ g = s.readyAt
      BY DEF Snapshot
    <2> HIDE DEF f, g
    <2> QED BY <2>1, <2>2 DEF Snapshot
  <1>3. StartQueuedAttempts(s, {}, owner) = s
    <2> DEFINE h == [t \in Task |->
                       IF t \in {}
                       THEN Append(s.attempts[t], [status |-> "running", owner |-> owner[t]])
                       ELSE s.attempts[t]]
    <2>1. StartQueuedAttempts(s, {}, owner) = [s EXCEPT !.attempts = h]
      BY <1>2 DEF StartQueuedAttempts
    <2>2. h = s.attempts
      BY DEF Snapshot
    <2> HIDE DEF h
    <2> QED BY <2>1, <2>2 DEF Snapshot
  <1> QED BY <1>1, <1>3

Open(s) == s.status \in {"pending", "running"}

(* Tasks move between statuses of an open Run and none ends.                 *)
Rescheduled(s, u) ==
    /\ Open(s) /\ Open(u)
    /\ u.attempts = s.attempts
    /\ \A t \in Task : \/ u.task[t] = s.task[t]
                       \/ s.task[t] \notin TaskTerminal /\ u.task[t] \notin TaskTerminal

(* Attempts of queued tasks start in a Run without a cancellation request.   *)
StartedIn(s, u, canceling) ==
    /\ Open(s) /\ ~canceling
    /\ \E w \in Worker, C \in SUBSET DispatchID, r \in Run :
          /\ TasksOf(C, r) \in SUBSET Task
          /\ \A t \in TasksOf(C, r) : s.task[t] = "queued"
          /\ AttemptsStarted(s, u, TasksOf(C, r), Claimant(w, C, r))

(* Attempts of running tasks end, successfully only without such a request.  *)
EndedIn(s, u, canceling) ==
    \E T \in SUBSET Task : \E outcome \in [T -> AttemptStatus] :
        /\ T # {} /\ \A t \in T : s.task[t] = "running"
        /\ Resolved(s, u, T, outcome)
        /\ canceling => \A t \in T : outcome[t] # "succeeded"

RunStep(s, u, canceling) ==
    \/ u = s
    \/ u = OlderSnapshot(s)
    \/ Rescheduled(s, u)
    \/ StartedIn(s, u, canceling)
    \/ EndedIn(s, u, canceling)
    \/ Open(s) /\ AllCanceled(s, u)

(* A task that is under way belongs to an open Run.                          *)
LEMMA OpenRun ==
    ASSUME NEW s, Sound(s, Owner), NEW t \in Task, s.task[t] \notin TaskTerminal
    PROVE  Open(s)
  BY DEF Sound, Snapshot, SnapshotInv, StatusAgrees, Open, WorkflowStatus, TaskTerminal

\* Every step of the platform changes each Run in one of the ways RunStep lists.
LEMMA EveryStep ==
    ASSUME DispatchInv, [Next]_vars, NEW r \in Run
    PROVE  RunStep(runs[r], runs'[r], cancelRequested[r])
  <1>1. /\ Sound(runs[r], Owner) /\ runs[r] \in Snapshot(Owner)
        /\ runs \in [Run -> Snapshot(Owner)]
    BY DEF DispatchInv, TypeOK
  <1>2. ASSUME NEW w \in Worker, NEW age \in Age,
               NEW C \in SUBSET {d \in DispatchID : Claimable(d, w)}, Claim(w, C, age)
        PROVE  RunStep(runs[r], runs'[r], cancelRequested[r])
    <2>1. C \in SUBSET DispatchID
      OBVIOUS
    <2>2. /\ AttemptsStarted(runs[r], runs'[r], TasksOf(C, r), Claimant(w, C, r))
          /\ runs'[r] = StartQueuedAttempts(runs[r], TasksOf(C, r), Claimant(w, C, r))
          /\ \A t \in TasksOf(C, r) : runs[r].task[t] = "queued"
      BY <1>2, <2>1, ClaimRuns
    <2>3. CASE TasksOf(C, r) = {}
      BY <1>1, <2>2, <2>3, NothingMoved DEF RunStep
    <2>4. CASE TasksOf(C, r) # {}
      <3>1. PICK t \in TasksOf(C, r) : TRUE
        BY <2>4
      <3>2. PICK d \in C : RunOf(d) = r
        BY <2>1, <3>1, TasksOfFacts
      <3>3. runs[r].status = "running" /\ ~cancelRequested[r]
        BY <1>2, <3>2 DEF Claim, Claimable
      <3>4. TasksOf(C, r) \in SUBSET Task
        BY <2>1, TasksOfFacts
      <3>5. StartedIn(runs[r], runs'[r], cancelRequested[r])
        BY <2>1, <2>2, <3>3, <3>4 DEF StartedIn, Open
      <3> QED BY <3>5 DEF RunStep
    <2> QED BY <2>3, <2>4
  <1>3. ASSUME NEW w \in Worker, NEW age \in Age, NEW d \in DispatchID, NEW kind \in ResultKind,
               Complete(w, d, kind, age)
        PROVE  RunStep(runs[r], runs'[r], cancelRequested[r])
    <2>1. /\ RunOf(d) \in Run /\ TaskOf(d) \in Task
          /\ runs[RunOf(d)].task[TaskOf(d)] = "running"
          /\ Resolved(runs[RunOf(d)], runs'[RunOf(d)], {TaskOf(d)}, EndsAs(TaskOf(d), kind))
          /\ runs' = [runs EXCEPT ![RunOf(d)] = runs'[RunOf(d)]]
      BY <1>3, CompleteRuns
    <2>2. CASE r # RunOf(d)
      BY <1>1, <2>1, <2>2 DEF RunStep
    <2>3. CASE r = RunOf(d)
      <3>1. ~cancelRequested[r]
        BY <1>3, <2>3 DEF Complete
      <3>2. EndsAs(TaskOf(d), kind) \in [{TaskOf(d)} -> AttemptStatus]
        BY DEF EndsAs, EndOf, AttemptStatus
      <3>3. {TaskOf(d)} \in SUBSET Task /\ {TaskOf(d)} # {}
        BY <2>1
      <3>4. EndedIn(runs[r], runs'[r], cancelRequested[r])
        BY <2>1, <2>3, <3>1, <3>2, <3>3 DEF EndedIn
      <3> QED BY <3>4 DEF RunStep
    <2> QED BY <2>2, <2>3
  <1>4. ASSUME NEW age \in Age,
               NEW X \in SUBSET {d \in DispatchID : Expired(dispatches[d], 0 - age)},
               ReapExpired(X, age)
        PROVE  RunStep(runs[r], runs'[r], cancelRequested[r])
    <2>1. X \in SUBSET DispatchID
      OBVIOUS
    <2>2. /\ \A t \in TasksOf(X, r) : runs[r].task[t] = "running"
          /\ Settled(X, r) \in [TasksOf(X, r) -> {"timed_out", "interrupted"}]
          /\ \/ TasksOf(X, r) = {} /\ runs'[r] = runs[r]
             \/ TasksOf(X, r) # {} /\ Resolved(runs[r], runs'[r], TasksOf(X, r), Settled(X, r))
      BY <1>4, <2>1, ReapRuns
    <2>3. TasksOf(X, r) \in SUBSET Task
      BY <2>1, TasksOfFacts
    <2>4. CASE TasksOf(X, r) # {}
      <3>1. /\ Settled(X, r) \in [TasksOf(X, r) -> AttemptStatus]
            /\ \A t \in TasksOf(X, r) : Settled(X, r)[t] # "succeeded"
        BY <2>2 DEF AttemptStatus
      <3>2. EndedIn(runs[r], runs'[r], cancelRequested[r])
        BY <2>2, <2>3, <2>4, <3>1 DEF EndedIn
      <3> QED BY <3>2 DEF RunStep
    <2> QED BY <2>2, <2>4 DEF RunStep
  <1>5. ASSUME NEW c \in Coordinator, NEW Q \in SUBSET Run, CreateDispatches(c, Q)
        PROVE  RunStep(runs[r], runs'[r], cancelRequested[r])
    <2> DEFINE T == TasksOf(Orphans(c), r)
               p == promoted(c, r)
    <2>1. T \in SUBSET Task /\ Promoted(runs[r], p, T) /\ Queued(p, runs'[r], r \in Q)
      BY <1>5, CreateRuns
    <2>2. CASE T = {} /\ ~(r \in scan[c].retries /\ DueRetries(c, afterOrphans(c, r)) # {}) /\ r \notin Q
      <3>1. runs'[r] = p
        BY <2>1, <2>2 DEF Queued
      <3>2. p = transitionTasks(runs[r], {}, "ready")
        BY <2>2 DEF promoted, afterOrphans, ReturnQueuedTasksToReady
      <3> QED BY <1>1, <3>1, <3>2, NothingMoved DEF RunStep
    <2>3. CASE T # {} \/ DueRetries(c, afterOrphans(c, r)) # {} \/ r \in Q
      <3>1. Open(runs[r])
        <4>1. CASE T # {}
          <5>1. PICK t \in T : runs[r].task[t] = "queued"
            BY <2>1, <4>1 DEF Promoted
          <5> QED BY <1>1, <2>1, <5>1, OpenRun DEF TaskTerminal
        <4>2. CASE T = {} /\ DueRetries(c, afterOrphans(c, r)) # {}
          <5>1. afterOrphans(c, r) = runs[r]
            BY <1>1, <4>2, NothingMoved DEF afterOrphans, ReturnQueuedTasksToReady
          <5>2. PICK t \in Task : runs[r].task[t] = "waiting_retry"
            BY <4>2, <5>1 DEF DueRetries, retryDue
          <5> QED BY <1>1, <5>2, OpenRun DEF TaskTerminal
        <4>3. CASE r \in Q
          BY <2>1, <4>3 DEF Queued, Promoted, Open
        <4> QED BY <2>3, <4>1, <4>2, <4>3
      <3> HIDE DEF T, p
      <3>2. Open(runs'[r]) /\ runs'[r].attempts = runs[r].attempts
        BY <2>1, <3>1 DEF Queued, Promoted, Open
      <3>3. ASSUME NEW t \in Task
            PROVE  \/ runs'[r].task[t] = runs[r].task[t]
                   \/ runs[r].task[t] \notin TaskTerminal /\ runs'[r].task[t] \notin TaskTerminal
        <4>1. \/ p.task[t] = runs[r].task[t]
              \/ runs[r].task[t] \notin TaskTerminal /\ p.task[t] = "ready"
          BY <2>1 DEF Promoted, TaskTerminal
        <4>2. \/ runs'[r].task[t] = p.task[t]
              \/ p.task[t] = "ready" /\ runs'[r].task[t] = "queued"
          BY <2>1 DEF Queued
        <4> QED BY <4>1, <4>2 DEF TaskTerminal
      <3>4. Rescheduled(runs[r], runs'[r])
        BY <3>1, <3>2, <3>3 DEF Rescheduled
      <3> QED BY <3>4 DEF RunStep
    <2> QED BY <2>2, <2>3
  <1>6. ASSUME NEW x \in Run, CancelRun(x)
        PROVE  RunStep(runs[r], runs'[r], cancelRequested[r])
    <2>1. /\ AllCanceled(runs[x], runs'[x]) /\ runs[x].status \in {"pending", "running"}
          /\ runs' = [runs EXCEPT ![x] = runs'[x]]
      BY <1>6, CancelRuns
    <2>2. CASE x = r
      BY <2>1, <2>2 DEF RunStep, Open
    <2>3. CASE x # r
      BY <1>1, <2>1, <2>3 DEF RunStep
    <2> QED BY <2>2, <2>3
  <1>7. CASE Tick
    <2>1. runs'[r] = OlderSnapshot(runs[r])
      BY <1>7 DEF Tick
    <2> QED BY <2>1 DEF RunStep
  <1>8. ASSUME UNCHANGED runs PROVE RunStep(runs[r], runs'[r], cancelRequested[r])
    BY <1>8 DEF RunStep
  <1> QED BY <1>2, <1>3, <1>4, <1>5, <1>6, <1>7, <1>8
          DEF Next, ScanStep, RegisterWorker, DrainWorker, Heartbeat, RequestCancel, vars,
              BeginScan, AbortScan, QueryCandidates, CountDispatches

(* The history of one task never shrinks and its ended attempts are kept.    *)
HistoryGrows(old, new) ==
    /\ Len(new) >= Len(old)
    /\ \A i \in 1..Len(old) : /\ new[i].owner = old[i].owner
                              /\ old[i].status # "running" => new[i] = old[i]

(* What each way to change a Run leaves alone.                               *)
LEMMA StepKeeps ==
    ASSUME NEW s, NEW u, NEW canceling, Sound(s, Owner), Sound(u, Owner),
           RunStep(s, u, canceling)
    PROVE  /\ ~Open(s) => u = s
           /\ \A t \in Task :
                /\ s.task[t] \in TaskTerminal => u.task[t] = s.task[t]
                /\ HistoryGrows(s.attempts[t], u.attempts[t])
                /\ canceling => /\ Len(u.attempts[t]) = Len(s.attempts[t])
                                /\ u.task[t] = "succeeded" => s.task[t] = "succeeded"
  <1> DEFINE Keeps(t) ==
               /\ s.task[t] \in TaskTerminal => u.task[t] = s.task[t]
               /\ HistoryGrows(s.attempts[t], u.attempts[t])
               /\ canceling => /\ Len(u.attempts[t]) = Len(s.attempts[t])
                               /\ u.task[t] = "succeeded" => s.task[t] = "succeeded"
             Goal == (~Open(s) => u = s) /\ \A t \in Task : Keeps(t)
  <1>0. /\ s \in Snapshot(Owner) /\ u \in Snapshot(Owner)
        /\ \A t \in Task : s.task[t] \in TaskStatus /\ u.task[t] \in TaskStatus
    BY DEF Sound, Snapshot
  <1>1. \A t \in Task : Len(s.attempts[t]) \in Nat
    <2>1. \A t \in Task : s.attempts[t] \in Seq(AttemptOf(Owner))
      BY <1>0 DEF Snapshot
    <2> QED BY <2>1
  <1>2. ASSUME u.attempts = s.attempts,
               \A t \in Task : \/ u.task[t] = s.task[t]
                               \/ s.task[t] \notin TaskTerminal /\ u.task[t] \notin TaskTerminal
        PROVE  \A t \in Task : Keeps(t)
    BY <1>1, <1>2 DEF HistoryGrows, TaskTerminal
  <1>3. CASE u = s
    BY <1>2, <1>3
  <1>4. CASE u = OlderSnapshot(s)
    <2>1. u.status = s.status /\ u.task = s.task /\ u.attempts = s.attempts
      BY <1>0, <1>4, OlderKeeps
    <2>2. \A t \in Task : Keeps(t)
      BY <1>2, <2>1
    <2>3. ASSUME ~Open(s) PROVE u = s
      <3>1. \A t \in Task : s.task[t] # "waiting_retry"
        <4>1. \A t \in Task : s.task[t] \notin TaskTerminal => Open(s)
          BY OpenRun
        <4> QED BY <2>3, <4>1 DEF TaskTerminal
      <3> DEFINE at == [t \in Task |-> IF s.task[t] = "waiting_retry"
                                       THEN Earlier(s.readyAt[t], Floor) ELSE s.readyAt[t]]
      <3>2. u = [s EXCEPT !.readyAt = at]
        BY <1>4 DEF OlderSnapshot
      <3>3. at = s.readyAt
        BY <1>0, <3>1 DEF Snapshot
      <3> HIDE DEF at
      <3> QED BY <1>0, <3>2, <3>3 DEF Snapshot
    <2> QED BY <2>2, <2>3
  <1>5. CASE Rescheduled(s, u)
    BY <1>2, <1>5 DEF Rescheduled
  <1>6. CASE StartedIn(s, u, canceling)
    <2>1. PICK w \in Worker, C \in SUBSET DispatchID, r \in Run :
             /\ TasksOf(C, r) \in SUBSET Task
             /\ \A t \in TasksOf(C, r) : s.task[t] = "queued"
             /\ AttemptsStarted(s, u, TasksOf(C, r), Claimant(w, C, r))
      BY <1>6 DEF StartedIn
    <2>2. Open(s) /\ ~canceling
      BY <1>6 DEF StartedIn
    <2>3. ASSUME NEW t \in Task
          PROVE  /\ s.task[t] \in TaskTerminal => u.task[t] = s.task[t]
                 /\ HistoryGrows(s.attempts[t], u.attempts[t])
      <3>1. CASE t \in TasksOf(C, r)
        <4>1. /\ s.task[t] = "queued"
              /\ Len(u.attempts[t]) = Len(s.attempts[t]) + 1
              /\ \A i \in 1..Len(s.attempts[t]) : u.attempts[t][i] = s.attempts[t][i]
          BY <2>1, <3>1 DEF AttemptsStarted
        <4> QED BY <1>1, <4>1, SMTT(60) DEF HistoryGrows, TaskTerminal
      <3>2. CASE t \notin TasksOf(C, r)
        <4>1. u.task[t] = s.task[t] /\ u.attempts[t] = s.attempts[t]
          BY <2>1, <3>2 DEF AttemptsStarted
        <4> QED BY <1>1, <4>1 DEF HistoryGrows
      <3> QED BY <3>1, <3>2
    <2> QED BY <2>2, <2>3
  <1>7. CASE EndedIn(s, u, canceling)
    <2>1. PICK T \in SUBSET Task : \E outcome \in [T -> AttemptStatus] :
             /\ T # {} /\ \A t \in T : s.task[t] = "running"
             /\ Resolved(s, u, T, outcome)
             /\ canceling => \A t \in T : outcome[t] # "succeeded"
      BY <1>7 DEF EndedIn
    <2>2. PICK outcome \in [T -> AttemptStatus] :
             /\ T # {} /\ \A t \in T : s.task[t] = "running"
             /\ Resolved(s, u, T, outcome)
             /\ canceling => \A t \in T : outcome[t] # "succeeded"
      BY <2>1
    <2>3. Open(s)
      BY <2>2, OpenRun DEF TaskTerminal
    <2>4. \A t \in Task : /\ TaskHistory(s.task[t], s.attempts[t], MaxAttempts[t])
                          /\ TaskHistory(u.task[t], u.attempts[t], MaxAttempts[t])
      BY DEF Sound, SnapshotInv, AttemptHistory
    <2>5. ASSUME NEW t \in Task PROVE Keeps(t)
      <3> DEFINE a == s.attempts[t]
                 b == u.attempts[t]
                 n == Len(a)
      <3>1. /\ Len(b) = n
            /\ \A i \in 1..n : /\ b[i].owner = a[i].owner
                               /\ t \in T /\ i = n => b[i].status = outcome[t]
                               /\ ~(t \in T /\ i = n) => b[i] = a[i]
        BY <2>2 DEF Resolved, LastEnded
      <3>2. t \in T => /\ s.task[t] = "running" /\ a[n].status = "running" /\ n > 0
                       /\ u.task[t] = "succeeded" => b[n].status = "succeeded"
        <4>1. TaskHistory(s.task[t], a, MaxAttempts[t]) /\ TaskHistory(u.task[t], b, MaxAttempts[t])
          BY <2>4
        <4> HIDE DEF a, b
        <4> QED BY <2>2, <3>1, <4>1 DEF TaskHistory
      <3>3. n \in Nat
        BY <1>1
      <3>4. t \notin T => \/ u.task[t] = s.task[t]
                          \/ s.task[t] = "waiting_dependencies" /\ u.task[t] \in {"ready", "skipped"}
        BY <2>2 DEF Resolved
      <3>5. canceling /\ t \in T => outcome[t] # "succeeded"
        BY <2>2
      <3> HIDE DEF a, b, n
      <3>6. HistoryGrows(a, b)
        BY <3>1, <3>2, <3>3 DEF HistoryGrows, n
      <3>7. canceling => (u.task[t] = "succeeded" => s.task[t] = "succeeded")
        BY <3>1, <3>2, <3>3, <3>4, <3>5
      <3>8. s.task[t] \in TaskTerminal => u.task[t] = s.task[t]
        BY <3>2, <3>4 DEF TaskTerminal
      <3> QED BY <3>1, <3>6, <3>7, <3>8 DEF a, b, n
    <2> QED BY <2>3, <2>5
  <1>8. CASE Open(s) /\ AllCanceled(s, u)
    <2> DEFINE T == {t \in Task : s.task[t] = "running"}
               outcome == [t \in T |-> "canceled"]
    <2>1. /\ \A t \in Task : u.task[t] = IF s.task[t] \in TaskTerminal THEN s.task[t] ELSE "canceled"
          /\ LastEnded(s, u, T, outcome)
      BY <1>8 DEF AllCanceled
    <2>2. \A t \in Task : TaskHistory(s.task[t], s.attempts[t], MaxAttempts[t])
      BY DEF Sound, SnapshotInv, AttemptHistory
    <2>3. ASSUME NEW t \in Task PROVE Keeps(t)
      <3> DEFINE a == s.attempts[t]
                 b == u.attempts[t]
                 n == Len(a)
      <3>1. /\ Len(b) = n
            /\ \A i \in 1..n : /\ b[i].owner = a[i].owner
                               /\ ~(t \in T /\ i = n) => b[i] = a[i]
        BY <2>1 DEF LastEnded
      <3>2. t \in T => a[n].status = "running"
        <4>1. TaskHistory(s.task[t], a, MaxAttempts[t])
          BY <2>2
        <4> HIDE DEF a
        <4> QED BY <4>1 DEF TaskHistory
      <3>3. n \in Nat
        BY <1>1
      <3>4. u.task[t] = IF s.task[t] \in TaskTerminal THEN s.task[t] ELSE "canceled"
        BY <2>1
      <3> HIDE DEF a, b, n, T, outcome
      <3>5. HistoryGrows(a, b)
        BY <3>1, <3>2, <3>3 DEF HistoryGrows, n
      <3> QED BY <3>1, <3>4, <3>5 DEF a, b, n
    <2> QED BY <1>8, <2>3
  <1>9. Goal
    BY <1>3, <1>4, <1>5, <1>6, <1>7, <1>8 DEF RunStep, Rescheduled
  <1> QED BY <1>9

\* What no step does to a Run: reopen it, undo an outcome, rewrite its history, or give it new
\* work once its cancellation is recorded.
LEMMA StepsKeep ==
    ASSUME DispatchInv, [Next]_vars, NEW r \in Run
    PROVE  /\ ~Open(runs[r]) => runs'[r] = runs[r]
           /\ \A t \in Task :
                /\ runs[r].task[t] \in TaskTerminal => runs'[r].task[t] = runs[r].task[t]
                /\ HistoryGrows(runs[r].attempts[t], runs'[r].attempts[t])
                /\ cancelRequested[r] =>
                     /\ Len(runs'[r].attempts[t]) = Len(runs[r].attempts[t])
                     /\ runs'[r].task[t] = "succeeded" => runs[r].task[t] = "succeeded"
  <1>1. Sound(runs[r], Owner) /\ Sound(runs'[r], Owner)
    BY NextInv DEF DispatchInv
  <1>2. RunStep(runs[r], runs'[r], cancelRequested[r])
    BY EveryStep
  <1> QED BY <1>1, <1>2, StepKeeps

(* A closed row is never written again.                                      *)
LEMMA ClosedRowsKept ==
    ASSUME DispatchInv, [Next]_vars, NEW d \in DispatchID,
           dispatches[d].status \in {"completed", "expired", "canceled"}
    PROVE  dispatches'[d] = dispatches[d]
  <1>1. ASSUME NEW w \in Worker, NEW age \in Age, NEW L, Heartbeat(w, L, age)
        PROVE  dispatches'[d] = dispatches[d]
    BY <1>1 DEF Heartbeat, LeaseAlive
  <1>2. ASSUME NEW w \in Worker, NEW age \in Age, NEW C, Claim(w, C, age)
        PROVE  dispatches'[d] = dispatches[d]
    <2>1. d \notin C
      BY <1>2 DEF Claim, Claimable, Pending
    <2> QED BY <1>2, <2>1 DEF Claim
  <1>3. ASSUME NEW w \in Worker, NEW age \in Age, NEW x \in DispatchID, NEW kind \in ResultKind,
               Complete(w, x, kind, age)
        PROVE  dispatches'[d] = dispatches[d]
    <2>1. d # x
      BY <1>3 DEF Complete, LeaseAlive
    <2> QED BY <1>3, <2>1 DEF Complete, DispatchInv, TypeOK
  <1>4. ASSUME NEW age \in Age, NEW X, ReapExpired(X, age) PROVE dispatches'[d] = dispatches[d]
    <2>1. d \notin X
      BY <1>4 DEF ReapExpired, Expired
    <2> QED BY <1>4, <2>1 DEF ReapExpired
  <1>5. ASSUME NEW c \in Coordinator, NEW Q \in SUBSET Run, CreateDispatches(c, Q)
        PROVE  dispatches'[d] = dispatches[d]
    BY <1>5, CreatedRows DEF Pending
  <1>6. ASSUME NEW r \in Run, CancelRun(r) PROVE dispatches'[d] = dispatches[d]
    <2>1. ~Active(d)
      BY DEF Active, Pending, Leased
    <2> QED BY <1>6, <2>1 DEF CancelRun
  <1>7. CASE Tick
    <2>1. dispatches'[d] = OlderRow(dispatches[d])
      BY <1>7 DEF Tick
    <2> QED BY <2>1 DEF OlderRow
  <1>8. ASSUME UNCHANGED dispatches PROVE dispatches'[d] = dispatches[d]
    BY <1>8
  <1> QED BY <1>1, <1>2, <1>3, <1>4, <1>5, <1>6, <1>7, <1>8
          DEF Next, ScanStep, RegisterWorker, DrainWorker, RequestCancel, vars,
              BeginScan, AbortScan, QueryCandidates, CountDispatches

(* Once cancel_requested_at is set, Claim starts no attempt of the Run and   *)
(* Complete accepts no success for it, even before CancelRun settles it.     *)
THEOREM CancellationBars == Spec => CancelBarrier
  <1> DEFINE A == \A r \in Run, t \in Task : cancelRequested[r] =>
                    /\ Len(runs'[r].attempts[t]) = Len(runs[r].attempts[t])
                    /\ runs'[r].task[t] = "succeeded" => runs[r].task[t] = "succeeded"
  <1>1. DispatchInv /\ [Next]_vars => A
    BY StepsKeep
  <1>2. Spec => [][A]_vars
    BY <1>1, Invariance, PTL DEF Spec
  <1> QED BY <1>2 DEF CancelBarrier

(* A settled Run, an ended task, an ended attempt and a closed row are final *)
(* whatever transactions are late, repeated or concurrent.                   *)
THEOREM OutcomesFinal == Spec => ResultsAreFinal
  <1> DEFINE A ==
       /\ \A r \in Run :
            /\ runs[r].status \in WorkflowTerminal => runs'[r] = runs[r]
            /\ \A t \in Task :
                 LET old == runs[r].attempts[t]
                     new == runs'[r].attempts[t]
                 IN  /\ runs[r].task[t] \in TaskTerminal =>
                           runs'[r].task[t] = runs[r].task[t]
                     /\ Len(new) >= Len(old)
                     /\ \A i \in 1..Len(old) :
                           /\ new[i].owner = old[i].owner
                           /\ old[i].status # "running" => new[i] = old[i]
       /\ \A d \in DispatchID :
            dispatches[d].status \in {"completed", "expired", "canceled"} =>
                dispatches'[d] = dispatches[d]
  <1>1. DispatchInv /\ [Next]_vars => A
    <2> SUFFICES ASSUME DispatchInv, [Next]_vars PROVE A
      OBVIOUS
    <2>1. \A d \in DispatchID :
            dispatches[d].status \in {"completed", "expired", "canceled"} =>
                dispatches'[d] = dispatches[d]
      BY ClosedRowsKept
    <2>2. ASSUME NEW r \in Run, runs[r].status \in WorkflowTerminal PROVE runs'[r] = runs[r]
      <3>1. ~Open(runs[r])
        BY <2>2 DEF Open, WorkflowTerminal
      <3> QED BY <3>1, StepsKeep
    <2>3. ASSUME NEW r \in Run, NEW t \in Task
          PROVE  /\ runs[r].task[t] \in TaskTerminal => runs'[r].task[t] = runs[r].task[t]
                 /\ HistoryGrows(runs[r].attempts[t], runs'[r].attempts[t])
      BY StepsKeep
    <2> QED BY <2>1, <2>2, <2>3 DEF HistoryGrows
  <1>2. Spec => [][A]_vars
    BY <1>1, Invariance, PTL DEF Spec
  <1> QED BY <1>2 DEF ResultsAreFinal

-----------------------------------------------------------------------------
(* The refinement.  One Run of the contract moves by StepOf: its outcomes    *)
(* and verdict stay, or it is open and tasks end or everything is canceled.  *)

StepOf(o, p, v, x) ==
    \/ p = o /\ x = v
    \/ /\ v = "open"
       /\ \/ EndsTasks(o, p) /\ x = VerdictFor(p)
          \/ /\ p = [t \in Task |-> IF o[t] = "open" THEN "canceled" ELSE o[t]]
             /\ x = "canceled"

\* Each way of changing a Run is a step of the contract, or leaves its outcomes alone.
LEMMA StepRefines ==
    ASSUME NEW s, NEW u, NEW canceling, Sound(s, Owner), Sound(u, Owner),
           RunStep(s, u, canceling)
    PROVE  StepOf(OutcomeOf(s), OutcomeOf(u), VerdictOf(s), VerdictOf(u))
  <1>1. ASSUME VerdictOf(u) = VerdictOf(s),
               \A t \in Task : \/ u.task[t] = s.task[t]
                               \/ s.task[t] \notin TaskTerminal /\ u.task[t] \notin TaskTerminal
        PROVE  StepOf(OutcomeOf(s), OutcomeOf(u), VerdictOf(s), VerdictOf(u))
    <2>1. OutcomeOf(u) = OutcomeOf(s)
      BY <1>1 DEF OutcomeOf
    <2> QED BY <1>1, <2>1 DEF StepOf
  <1>2. CASE u = s
    BY <1>2 DEF StepOf
  <1>3. CASE u = OlderSnapshot(s)
    <2>1. u.status = s.status /\ u.task = s.task
      BY <1>3, OlderKeeps DEF Sound
    <2> QED BY <1>1, <2>1 DEF VerdictOf
  <1>4. CASE Rescheduled(s, u)
    <2>1. VerdictOf(u) = VerdictOf(s)
      BY <1>4 DEF Rescheduled, Open, VerdictOf, WorkflowTerminal
    <2> QED BY <1>1, <1>4, <2>1 DEF Rescheduled
  <1>5. CASE StartedIn(s, u, canceling)
    <2>1. PICK w \in Worker, C \in SUBSET DispatchID, r \in Run :
             /\ TasksOf(C, r) \in SUBSET Task
             /\ \A t \in TasksOf(C, r) : s.task[t] = "queued"
             /\ AttemptsStarted(s, u, TasksOf(C, r), Claimant(w, C, r))
      BY <1>5 DEF StartedIn
    <2>2. u.status = s.status
      BY <2>1 DEF AttemptsStarted
    <2>3. \A t \in Task : \/ u.task[t] = s.task[t]
                          \/ s.task[t] \notin TaskTerminal /\ u.task[t] \notin TaskTerminal
      BY <2>1 DEF AttemptsStarted, TaskTerminal
    <2> QED BY <1>1, <2>2, <2>3 DEF VerdictOf
  <1>6. CASE EndedIn(s, u, canceling)
    <2>1. PICK T \in SUBSET Task : \E outcome \in [T -> AttemptStatus] :
             /\ T # {} /\ \A t \in T : s.task[t] = "running"
             /\ Resolved(s, u, T, outcome)
      BY <1>6 DEF EndedIn
    <2>2. PICK outcome \in [T -> AttemptStatus] :
             /\ T # {} /\ \A t \in T : s.task[t] = "running"
             /\ Resolved(s, u, T, outcome)
      BY <2>1
    <2>3. /\ VerdictOf(s) = "open"
          /\ VerdictOf(u) = VerdictFor(OutcomeOf(u))
          /\ \/ OutcomeOf(u) = OutcomeOf(s) /\ VerdictOf(u) = "open"
             \/ EndsTasks(OutcomeOf(s), OutcomeOf(u))
      BY <2>2, EndedAdvances
    <2> QED BY <2>3 DEF StepOf
  <1>7. CASE Open(s) /\ AllCanceled(s, u)
    <2>1. VerdictOf(s) = "open" /\ VerdictOf(u) = "canceled"
      BY <1>7 DEF Open, AllCanceled, VerdictOf, WorkflowTerminal
    <2>2. \A t \in Task : u.task[t] = IF s.task[t] \in TaskTerminal THEN s.task[t] ELSE "canceled"
      BY <1>7 DEF AllCanceled
    <2>3. OutcomeOf(u) = [t \in Task |-> IF OutcomeOf(s)[t] = "open" THEN "canceled"
                                         ELSE OutcomeOf(s)[t]]
      <3>1. ASSUME NEW t \in Task
            PROVE  OutcomeOf(u)[t] = IF OutcomeOf(s)[t] = "open" THEN "canceled" ELSE OutcomeOf(s)[t]
        BY <2>2 DEF OutcomeOf, TaskTerminal
      <3>2. OutcomeOf(u) = [t \in Task |-> OutcomeOf(u)[t]]
        BY DEF OutcomeOf
      <3> QED BY <3>1, <3>2
    <2> QED BY <2>1, <2>3 DEF StepOf
  <1> QED BY <1>2, <1>3, <1>4, <1>5, <1>6, <1>7 DEF RunStep

(* Leases, retries, reaping, orphaned rows and cancellation implement        *)
(* WorkflowContract: every transaction maps to one of its steps or to none.  *)
THEOREM ContractImplemented == Spec => ImplementsContract
  <1> DEFINE o == [r \in Run |-> [t \in Task |->
                     IF runs[r].task[t] \in TaskTerminal THEN runs[r].task[t] ELSE "open"]]
             v == [r \in Run |->
                     IF runs[r].status \in WorkflowTerminal THEN runs[r].status ELSE "open"]
  <1>1. Init => Contract!Init
    <2> SUFFICES ASSUME Init PROVE Contract!Init
      OBVIOUS
    <2>1. \A r \in Run : /\ runs[r].status = "pending"
                         /\ \A t \in Task : runs[r].task[t] \in {"ready", "waiting_dependencies"}
      BY DEF Init, newRunSnapshot
    <2> QED BY <2>1 DEF Contract!Init, WorkflowTerminal, TaskTerminal
  <1>2. DispatchInv /\ [Next]_vars => [Contract!Next]_<<o, v>>
    <2> SUFFICES ASSUME DispatchInv, [Next]_vars PROVE Contract!Next
      OBVIOUS
    <2>0. DispatchInv'
      BY NextInv
    <2>1. \A r \in Run : /\ o[r] = OutcomeOf(runs[r]) /\ v[r] = VerdictOf(runs[r])
                         /\ o'[r] = OutcomeOf(runs'[r]) /\ v'[r] = VerdictOf(runs'[r])
      BY DEF OutcomeOf, VerdictOf
    <2>2. o' \in [Run -> [Task -> Contract!Outcome]] /\ v' \in [Run -> Contract!Outcome]
      <3>1. \A r \in Run : /\ runs'[r].status \in WorkflowStatus
                           /\ \A t \in Task : runs'[r].task[t] \in TaskStatus
        BY <2>0 DEF DispatchInv, TypeOK, Snapshot
      <3> QED BY <3>1 DEF Contract!Outcome, WorkflowStatus, TaskStatus, WorkflowTerminal, TaskTerminal
    <2>3. ASSUME NEW r \in Run
          PROVE  \/ o'[r] = o[r] /\ v'[r] = v[r]
                 \/ Contract!Advance(r)
      <3>1. Sound(runs[r], Owner) /\ Sound(runs'[r], Owner)
        BY <2>0 DEF DispatchInv
      <3>2. RunStep(runs[r], runs'[r], cancelRequested[r])
        BY EveryStep
      <3>3. StepOf(o[r], o'[r], v[r], v'[r])
        BY <2>1, <3>1, <3>2, StepRefines
      <3> HIDE DEF o, v
      <3>4. CASE o'[r] = o[r] /\ v'[r] = v[r]
        BY <3>4
      <3>5. CASE v[r] = "open" /\ EndsTasks(o[r], o'[r]) /\ v'[r] = VerdictFor(o'[r])
        BY <3>5 DEF EndsTasks, Finished, VerdictFor, Contract!Advance, Contract!End,
                    Contract!EndTasks, Contract!Ending, Contract!Verdict, o, v
      <3>6. CASE /\ v[r] = "open" /\ v'[r] = "canceled"
                 /\ o'[r] = [t \in Task |-> IF o[r][t] = "open" THEN "canceled" ELSE o[r][t]]
        BY <3>6 DEF Contract!Advance, Contract!Cancel, o, v
      <3> QED BY <3>3, <3>4, <3>5, <3>6 DEF StepOf
    <2> QED BY <2>2, <2>3 DEF Contract!Next
  <1>3. Spec => Contract!Spec
    BY <1>1, <1>2, Invariance, PTL DEF Spec, Contract!Spec
  <1> QED BY <1>3 DEF ImplementsContract

-----------------------------------------------------------------------------
(* Rows and Runs.                                                            *)

(* A closed row tells how its attempt a ended.                               *)
EndsAgree(row, a) ==
    /\ row.status = "completed" /\ row.result = "success" => a.status = "succeeded"
    /\ row.status = "completed" /\ row.result # "success" => a.status = "failed"
    /\ row.status = "expired" => a.status \in {"interrupted", "timed_out"}
    /\ row.status = "canceled" => a.status = "canceled"

(* The row d of a task in this status with these attempts.                   *)
RowAgrees(d, row, status, attempts) ==
    /\ row.status = "pending" => status = "queued"
    /\ row.status = "leased" => status = "running" /\ row.attempt = Len(attempts)
    /\ row.status \in {"none", "pending"} => row.worker = NoWorker
    /\ row.status \in {"leased", "completed", "expired"} => row.worker # NoWorker
    /\ row.worker = NoWorker => row.attempt = 0
    /\ row.worker # NoWorker =>
          /\ row.attempt \in 1..Len(attempts)
          /\ attempts[row.attempt].owner = [worker |-> row.worker, dispatch |-> d]
          /\ EndsAgree(row, attempts[row.attempt])

(* The rows of task t of Run r, by number, when it is in this status.        *)
TaskRows(r, t, status, attempts, row) ==
    /\ \A k \in RowId : RowAgrees(<<r, t, k>>, row[k], status, attempts)
    /\ \A k, l \in RowId :
          row[k].status \in {"pending", "leased"} /\ row[l].status \in {"pending", "leased"} => k = l
    /\ status \in {"queued", "running"} =>
          \E k \in RowId : row[k].status \in {"pending", "leased"}
    /\ \A i \in 1..Len(attempts) :
          \E k \in RowId : attempts[i].owner.dispatch = <<r, t, k>> /\ row[k].attempt = i

RowsOf(D, r, t) == [k \in RowId |-> D[<<r, t, k>>]]

AllRows ==
    \A r \in Run, t \in Task :
        TaskRows(r, t, runs[r].task[t], runs[r].attempts[t], RowsOf(dispatches, r, t))

RowsInv == DispatchInv /\ AllRows

-----------------------------------------------------------------------------
(* One task and its rows.                                                    *)

(* Rows that differ in their times only, and a task that stays where it is   *)
(* or moves between statuses without a row.                                  *)
LEMMA TaskLeftAlone ==
    ASSUME NEW r, NEW t, NEW st, NEW su, NEW a, NEW row, NEW rov,
           TaskRows(r, t, st, a, row),
           \A k \in RowId : /\ rov[k].status = row[k].status
                            /\ rov[k].worker = row[k].worker
                            /\ rov[k].attempt = row[k].attempt
                            /\ rov[k].result = row[k].result,
           \/ su = st
           \/ st \notin {"queued", "running"} /\ su \notin {"queued", "running"}
    PROVE  TaskRows(r, t, su, a, rov)
  <1>1. ASSUME NEW k \in RowId PROVE RowAgrees(<<r, t, k>>, rov[k], su, a)
    <2>1. RowAgrees(<<r, t, k>>, row[k], st, a)
      BY DEF TaskRows
    <2> QED BY <2>1 DEF RowAgrees, EndsAgree
  <1> QED BY <1>1 DEF TaskRows

(* Row n is inserted.                                                        *)
Opens(row, rov, n, age) ==
    /\ row[n].status = "none"
    /\ rov[n] = PendingRow(age)
    /\ \A k \in RowId \ {n} : rov[k] = row[k]

(* A new pending row for a task that has none.                               *)
LEMMA RowOpened ==
    ASSUME NEW r, NEW t, NEW st, NEW a, NEW row, NEW rov, NEW n \in RowId, NEW age \in Age,
           TaskRows(r, t, st, a, row), Len(a) \in Nat,
           st \notin {"queued", "running"},
           Opens(row, rov, n, age)
    PROVE  TaskRows(r, t, "queued", a, rov)
  <1> USE DEF Opens
  <1>1. /\ rov[n].status = "pending" /\ rov[n].worker = NoWorker /\ rov[n].attempt = 0
    BY DEF PendingRow, UnusedRow
  <1>2. row[n].worker = NoWorker /\ row[n].attempt = 0
    BY DEF TaskRows, RowAgrees
  <1>3. \A k \in RowId : row[k].status \notin {"pending", "leased"}
    BY DEF TaskRows, RowAgrees
  <1>4. ASSUME NEW k \in RowId PROVE RowAgrees(<<r, t, k>>, rov[k], "queued", a)
    <2>1. CASE k = n
      BY <1>1, <2>1 DEF RowAgrees
    <2>2. CASE k # n
      <3>1. RowAgrees(<<r, t, k>>, row[k], st, a) /\ rov[k] = row[k]
        BY <2>2 DEF TaskRows
      <3> QED BY <1>3, <3>1 DEF RowAgrees
    <2> QED BY <2>1, <2>2
  <1>5. \A k, l \in RowId :
          rov[k].status \in {"pending", "leased"} /\ rov[l].status \in {"pending", "leased"} => k = l
    BY <1>3
  <1>6. \E k \in RowId : rov[k].status \in {"pending", "leased"}
    BY <1>1
  <1>7. ASSUME NEW i \in 1..Len(a)
        PROVE  \E k \in RowId : a[i].owner.dispatch = <<r, t, k>> /\ rov[k].attempt = i
    <2>1. PICK k \in RowId : a[i].owner.dispatch = <<r, t, k>> /\ row[k].attempt = i
      BY DEF TaskRows
    <2>2. k # n
      BY <1>2, <2>1
    <2> QED BY <2>1, <2>2
  <1> QED BY <1>4, <1>5, <1>6, <1>7 DEF TaskRows

(* The pending row of a queued task is closed without an attempt.            *)
LEMMA PendingClosed ==
    ASSUME NEW r, NEW t, NEW su, NEW a, NEW row, NEW rov, NEW n \in RowId,
           TaskRows(r, t, "queued", a, row),
           row[n] \in Row, row[n].status = "pending",
           rov[n] = ClosedRow(row[n], "canceled", "none"),
           \A k \in RowId \ {n} : rov[k] = row[k],
           su \notin {"queued", "running"}
    PROVE  TaskRows(r, t, su, a, rov)
  <1>1. /\ rov[n].status = "canceled" /\ rov[n].worker = row[n].worker
        /\ rov[n].attempt = row[n].attempt
    BY ClosedFacts
  <1>2. row[n].worker = NoWorker /\ row[n].attempt = 0
    BY DEF TaskRows, RowAgrees
  <1>3. \A k \in RowId \ {n} : row[k].status \notin {"pending", "leased"}
    BY DEF TaskRows
  <1>4. ASSUME NEW k \in RowId PROVE RowAgrees(<<r, t, k>>, rov[k], su, a)
    <2>1. CASE k = n
      BY <1>1, <1>2, <2>1 DEF RowAgrees
    <2>2. CASE k # n
      <3>1. RowAgrees(<<r, t, k>>, row[k], "queued", a) /\ rov[k] = row[k]
        BY <2>2 DEF TaskRows
      <3> QED BY <1>3, <2>2, <3>1 DEF RowAgrees
    <2> QED BY <2>1, <2>2
  <1>5. \A k, l \in RowId :
          rov[k].status \in {"pending", "leased"} /\ rov[l].status \in {"pending", "leased"} => k = l
    BY <1>1, <1>3
  <1>6. \A k \in RowId : rov[k].attempt = row[k].attempt
    BY <1>1
  <1> QED BY <1>4, <1>5, <1>6 DEF TaskRows

(* Row n of w is leased for the attempt that is appended to a.               *)
Starts(r, t, a, b, row, rov, n, w) ==
    /\ row[n].status = "pending"
    /\ rov[n].status = "leased" /\ rov[n].worker = w /\ rov[n].attempt = Len(a) + 1
    /\ \A k \in RowId \ {n} : rov[k] = row[k]
    /\ Len(b) = Len(a) + 1
    /\ \A i \in 1..Len(a) : b[i] = a[i]
    /\ b[Len(a) + 1].owner = [worker |-> w, dispatch |-> <<r, t, n>>]

(* A pending row is claimed and the attempt it stands for appended.          *)
LEMMA AttemptStarted ==
    ASSUME NEW r, NEW t, NEW a, NEW b, NEW row, NEW rov, NEW n \in RowId, NEW w \in Worker,
           TaskRows(r, t, "queued", a, row), Len(a) \in Nat,
           Starts(r, t, a, b, row, rov, n, w)
    PROVE  TaskRows(r, t, "running", b, rov)
  <1> USE DEF Starts
  <1>1. row[n].worker = NoWorker /\ row[n].attempt = 0
    BY DEF TaskRows, RowAgrees
  <1>2. \A k \in RowId \ {n} : row[k].status \notin {"pending", "leased"}
    BY DEF TaskRows
  <1>3. b[Len(a) + 1].owner = [worker |-> w, dispatch |-> <<r, t, n>>]
    OBVIOUS
  <1>4. b[Len(a) + 1].owner.dispatch = <<r, t, n>>
    BY <1>3
  <1>5. NoWorker \notin Worker
    BY DispatchAssumption
  <1>6. ASSUME NEW k \in RowId PROVE RowAgrees(<<r, t, k>>, rov[k], "running", b)
    <2>1. CASE k = n
      BY <1>3, <1>5, <2>1 DEF RowAgrees, EndsAgree
    <2>2. CASE k # n
      <3>1. RowAgrees(<<r, t, k>>, row[k], "queued", a) /\ rov[k] = row[k]
        BY <2>2 DEF TaskRows
      <3>2. row[k].attempt \in 1..Len(a) =>
               row[k].attempt \in 1..Len(b) /\ b[row[k].attempt] = a[row[k].attempt]
        OBVIOUS
      <3> QED BY <1>2, <2>2, <3>1, <3>2 DEF RowAgrees
    <2> QED BY <2>1, <2>2
  <1>7. \A k, l \in RowId :
          rov[k].status \in {"pending", "leased"} /\ rov[l].status \in {"pending", "leased"} => k = l
    BY <1>2
  <1>8. \E k \in RowId : rov[k].status \in {"pending", "leased"}
    OBVIOUS
  <1>9. ASSUME NEW i \in 1..Len(b)
        PROVE  \E k \in RowId : b[i].owner.dispatch = <<r, t, k>> /\ rov[k].attempt = i
    <2>1. CASE i = Len(a) + 1
      BY <1>4, <2>1
    <2>2. CASE i # Len(a) + 1
      <3>1. i \in 1..Len(a)
        BY <2>2
      <3>2. PICK k \in RowId : a[i].owner.dispatch = <<r, t, k>> /\ row[k].attempt = i
        BY <3>1 DEF TaskRows
      <3>3. k # n
        BY <1>1, <3>1, <3>2
      <3> QED BY <3>1, <3>2, <3>3
    <2> QED BY <2>1, <2>2
  <1> QED BY <1>6, <1>7, <1>8, <1>9 DEF TaskRows

(* The attempt of a leased row ends, and the row is closed accordingly.      *)
LEMMA AttemptEnded ==
    ASSUME NEW r, NEW t, NEW su, NEW a, NEW b, NEW row, NEW rov, NEW n \in RowId,
           NEW status, NEW result,
           TaskRows(r, t, "running", a, row), Len(a) \in Nat,
           row[n] \in Row, row[n].status = "leased",
           rov[n] = ClosedRow(row[n], status, result),
           \A k \in RowId \ {n} : rov[k] = row[k],
           status \in {"completed", "expired", "canceled"},
           su \notin {"queued", "running"},
           Len(b) = Len(a),
           \A i \in 1..Len(a) : b[i].owner = a[i].owner,
           \A i \in 1..Len(a) : i # Len(a) => b[i] = a[i],
           EndsAgree(rov[n], b[Len(a)])
    PROVE  TaskRows(r, t, su, b, rov)
  <1>1. /\ rov[n].status = status /\ rov[n].worker = row[n].worker
        /\ rov[n].attempt = row[n].attempt
    BY ClosedFacts
  <1>2. /\ row[n].worker # NoWorker /\ row[n].attempt = Len(a) /\ Len(a) \in 1..Len(a)
        /\ a[Len(a)].owner = [worker |-> row[n].worker, dispatch |-> <<r, t, n>>]
    BY DEF TaskRows, RowAgrees
  <1>3. \A k \in RowId \ {n} : row[k].status \notin {"pending", "leased"}
    BY DEF TaskRows
  <1>4. ASSUME NEW k \in RowId PROVE RowAgrees(<<r, t, k>>, rov[k], su, b)
    <2>1. CASE k = n
      <3>1. /\ rov[n].attempt \in 1..Len(b) /\ rov[n].worker # NoWorker
            /\ b[rov[n].attempt].owner = [worker |-> rov[n].worker, dispatch |-> <<r, t, n>>]
            /\ EndsAgree(rov[n], b[rov[n].attempt])
        BY <1>1, <1>2
      <3> QED BY <1>1, <2>1, <3>1 DEF RowAgrees
    <2>2. CASE k # n
      <3>1. RowAgrees(<<r, t, k>>, row[k], "running", a) /\ rov[k] = row[k]
        BY <2>2 DEF TaskRows
      <3>2. row[k].worker # NoWorker => row[k].attempt \in 1..Len(a) /\ row[k].attempt # Len(a)
        <4> SUFFICES ASSUME row[k].worker # NoWorker, row[k].attempt = Len(a) PROVE FALSE
          BY <3>1 DEF RowAgrees
        <4>1. a[Len(a)].owner = [worker |-> row[k].worker, dispatch |-> <<r, t, k>>]
          BY <3>1 DEF RowAgrees
        <4>2. <<r, t, k>> = <<r, t, n>>
          <5>1. [worker |-> row[k].worker, dispatch |-> <<r, t, k>>].dispatch =
                [worker |-> row[n].worker, dispatch |-> <<r, t, n>>].dispatch
            BY <1>2, <4>1
          <5> QED BY <5>1
        <4> QED BY <2>2, <4>2
      <3> QED BY <1>3, <2>2, <3>1, <3>2 DEF RowAgrees
    <2> QED BY <2>1, <2>2
  <1>5. \A k, l \in RowId :
          rov[k].status \in {"pending", "leased"} /\ rov[l].status \in {"pending", "leased"} => k = l
    BY <1>1, <1>3
  <1>6. \A k \in RowId : rov[k].attempt = row[k].attempt
    BY <1>1
  <1>7. \A i \in 1..Len(b) :
          \E k \in RowId : b[i].owner.dispatch = <<r, t, k>> /\ rov[k].attempt = i
    BY <1>6 DEF TaskRows
  <1> QED BY <1>4, <1>5, <1>7 DEF TaskRows

-----------------------------------------------------------------------------
(* One lemma per transaction.                                                *)

\* The parts of a row identifier.
LEMMA RowNames ==
    ASSUME NEW r \in Run, NEW t \in Task, NEW k \in RowId
    PROVE  /\ <<r, t, k>> \in DispatchID
           /\ RunOf(<<r, t, k>>) = r /\ TaskOf(<<r, t, k>>) = t
           /\ RowsOf(dispatches, r, t)[k] = dispatches[<<r, t, k>>]
           /\ RowsOf(dispatches', r, t)[k] = dispatches'[<<r, t, k>>]
  BY DEF DispatchID, RunOf, TaskOf, RowsOf

\* The attempt counter is a natural number.
LEMMA AttemptsLength ==
    ASSUME DispatchInv, NEW r \in Run, NEW t \in Task
    PROVE  Len(runs[r].attempts[t]) \in Nat
  <1>1. runs[r].attempts[t] \in Seq(AttemptOf(Owner))
    BY DEF DispatchInv, TypeOK, Snapshot
  <1> QED BY <1>1

(* Registration, drain, heartbeat, the start and the end of a scan, a        *)
(* cancellation request and the clock change no task and no row's owner.     *)
LEMMA QuietRows ==
    ASSUME AllRows,
           \A r \in Run, t \in Task : /\ runs'[r].task[t] = runs[r].task[t]
                                      /\ runs'[r].attempts[t] = runs[r].attempts[t],
           \A d \in DispatchID : /\ dispatches'[d].status = dispatches[d].status
                                 /\ dispatches'[d].worker = dispatches[d].worker
                                 /\ dispatches'[d].attempt = dispatches[d].attempt
                                 /\ dispatches'[d].result = dispatches[d].result
    PROVE  AllRows'
  <1> SUFFICES ASSUME NEW r \in Run, NEW t \in Task
               PROVE  TaskRows(r, t, runs'[r].task[t], runs'[r].attempts[t], RowsOf(dispatches', r, t))
    BY DEF AllRows
  <1>1. TaskRows(r, t, runs[r].task[t], runs[r].attempts[t], RowsOf(dispatches, r, t))
    BY DEF AllRows
  <1>2. ASSUME NEW k \in RowId
        PROVE  /\ RowsOf(dispatches', r, t)[k].status = RowsOf(dispatches, r, t)[k].status
               /\ RowsOf(dispatches', r, t)[k].worker = RowsOf(dispatches, r, t)[k].worker
               /\ RowsOf(dispatches', r, t)[k].attempt = RowsOf(dispatches, r, t)[k].attempt
               /\ RowsOf(dispatches', r, t)[k].result = RowsOf(dispatches, r, t)[k].result
    BY RowNames, ZenonT(60)
  <1>3. TaskRows(r, t, runs[r].task[t], runs[r].attempts[t], RowsOf(dispatches', r, t))
    BY <1>1, <1>2, TaskLeftAlone
  <1> QED BY <1>3

(* The active row of a task is its only one.                                 *)
LEMMA OnlyActive ==
    ASSUME AllRows, NEW r \in Run, NEW t \in Task, NEW k \in RowId, NEW l \in RowId,
           Active(<<r, t, k>>), Active(<<r, t, l>>)
    PROVE  k = l
  <1>1. TaskRows(r, t, runs[r].task[t], runs[r].attempts[t], RowsOf(dispatches, r, t))
    BY DEF AllRows
  <1>2. RowsOf(dispatches, r, t)[k].status \in {"pending", "leased"} /\ RowsOf(dispatches, r, t)[l].status \in {"pending", "leased"}
    BY RowNames DEF Active, Pending, Leased
  <1> QED BY <1>1, <1>2 DEF TaskRows

\* A claimed row is leased under the number of the attempt that starts with it.
LEMMA ClaimRows ==
    ASSUME DispatchInv, AllRows, NEW w \in Worker, NEW C \in SUBSET DispatchID, NEW age \in Age,
           Claim(w, C, age)
    PROVE  AllRows'
  <1> SUFFICES ASSUME NEW r \in Run, NEW t \in Task
               PROVE  TaskRows(r, t, runs'[r].task[t], runs'[r].attempts[t], RowsOf(dispatches', r, t))
    BY DEF AllRows
  <1> DEFINE a == runs[r].attempts[t]
             b == runs'[r].attempts[t]
             row == RowsOf(dispatches, r, t)
             rov == RowsOf(dispatches', r, t)
  <1>1. TaskRows(r, t, runs[r].task[t], a, row) /\ Len(a) \in Nat
    BY AttemptsLength DEF AllRows
  <1>2. AttemptsStarted(runs[r], runs'[r], TasksOf(C, r), Claimant(w, C, r))
    BY ClaimRuns
  <1>3. \A d \in C : Pending(d)
    BY DEF Claim, Claimable
  <1>4. \A d \in DispatchID :
           dispatches'[d] = IF d \in C
                            THEN LeasedRow(w, Len(runs[RunOf(d)].attempts[TaskOf(d)]) + 1, TaskOf(d), age)
                            ELSE dispatches[d]
    BY DEF Claim
  <1>5. CASE t \notin TasksOf(C, r)
    <2>1. runs'[r].task[t] = runs[r].task[t] /\ b = a
      BY <1>2, <1>5 DEF AttemptsStarted
    <2>2. \A k \in RowId : rov[k] = row[k]
      <3>1. \A k \in RowId : <<r, t, k>> \notin C
        BY <1>5 DEF TasksOf
      <3> QED BY <1>4, <3>1, RowNames, ZenonT(60)
    <2> HIDE DEF a, b, row, rov
    <2>3. TaskRows(r, t, runs[r].task[t], a, rov)
      BY <1>1, <2>2, TaskLeftAlone
    <2> QED BY <2>1, <2>3 DEF a, b, row, rov
  <1>6. CASE t \in TasksOf(C, r)
    <2> DEFINE d == RowOf(C, r, t)
    <2>1. d \in C /\ RunOf(d) = r /\ TaskOf(d) = t
      BY <1>6, TasksOfFacts
    <2>2. PICK n \in RowId : d = <<r, t, n>>
      BY <2>1, RowParts
    <2>3. runs[r].task[t] = "queued" /\ runs'[r].task[t] = "running"
      <3>1. runs[r].task[t] = "queued"
        BY <1>6, ClaimRuns
      <3> QED BY <1>2, <1>6, <3>1 DEF AttemptsStarted
    <2>4. row[n].status = "pending"
      BY <1>3, <2>1, <2>2, RowNames DEF Pending
    <2>5. rov[n].status = "leased" /\ rov[n].worker = w /\ rov[n].attempt = Len(a) + 1
      <3>1. rov[n] = LeasedRow(w, Len(a) + 1, t, age)
        BY <1>4, <2>1, <2>2, RowNames
      <3> QED BY <3>1 DEF LeasedRow, UnusedRow
    <2>6. \A k \in RowId \ {n} : rov[k] = row[k]
      <3>1. ASSUME NEW k \in RowId, <<r, t, k>> \in C PROVE k = n
        <4>1. Active(<<r, t, k>>) /\ Active(<<r, t, n>>)
          BY <1>3, <2>1, <2>2, <3>1 DEF Active
        <4> QED BY <4>1, OnlyActive
      <3>2. ASSUME NEW k \in RowId \ {n} PROVE rov[k] = row[k]
        <4>1. <<r, t, k>> \notin C
          BY <3>1
        <4> QED BY <1>4, <4>1, RowNames
      <3> QED BY <3>2
    <2>7. /\ Len(b) = Len(a) + 1
          /\ \A i \in 1..Len(a) : b[i] = a[i]
          /\ b[Len(a) + 1] = [status |-> "running", owner |-> Claimant(w, C, r)[t]]
      BY <1>2, <1>6 DEF AttemptsStarted
    <2>8. Claimant(w, C, r)[t] = [worker |-> w, dispatch |-> <<r, t, n>>]
      BY <1>6, <2>2 DEF Claimant
    <2> HIDE DEF a, b, row, rov, d
    <2>9. TaskRows(r, t, "running", b, rov)
      <3>1. TaskRows(r, t, "queued", a, row) /\ Len(a) \in Nat
        BY <1>1, <2>3
      <3>2. b[Len(a) + 1].owner = [worker |-> w, dispatch |-> <<r, t, n>>]
        BY <2>7, <2>8
      <3>3. Starts(r, t, a, b, row, rov, n, w)
        BY <2>4, <2>5, <2>6, <2>7, <3>2 DEF Starts
      <3> QED BY <3>1, <3>3, AttemptStarted
    <2> QED BY <2>3, <2>9 DEF b, rov
  <1> QED BY <1>5, <1>6

(* Ending the attempt of the leased row n of a running task.                  *)
LEMMA EndedRows ==
    ASSUME DispatchInv, AllRows, NEW r \in Run, NEW t \in Task, NEW n \in RowId,
           NEW T \in SUBSET Task, t \in T, NEW outcome, NEW status, NEW result,
           LastEnded(runs[r], runs'[r], T, outcome),
           runs[r].task[t] = "running", runs'[r].task[t] \notin {"queued", "running"},
           Leased(<<r, t, n>>),
           status \in {"completed", "expired", "canceled"},
           dispatches'[<<r, t, n>>] = ClosedRow(dispatches[<<r, t, n>>], status, result),
           \A k \in RowId \ {n} : dispatches'[<<r, t, k>>] = dispatches[<<r, t, k>>],
           status = "completed" /\ result = "success" => outcome[t] = "succeeded",
           status = "completed" /\ result # "success" => outcome[t] = "failed",
           status = "expired" => outcome[t] \in {"interrupted", "timed_out"},
           status = "canceled" => outcome[t] = "canceled"
    PROVE  TaskRows(r, t, runs'[r].task[t], runs'[r].attempts[t], RowsOf(dispatches', r, t))
  <1> DEFINE a == runs[r].attempts[t]
             b == runs'[r].attempts[t]
             row == RowsOf(dispatches, r, t)
             rov == RowsOf(dispatches', r, t)
  <1>1. TaskRows(r, t, "running", a, row) /\ Len(a) \in Nat
    BY AttemptsLength DEF AllRows
  <1>2. row[n] \in Row /\ row[n].status = "leased"
    BY RowNames DEF DispatchInv, TypeOK, Leased
  <1>3. rov[n] = ClosedRow(row[n], status, result) /\ \A k \in RowId \ {n} : rov[k] = row[k]
    BY RowNames
  <1>4. /\ Len(b) = Len(a)
        /\ \A i \in 1..Len(a) : b[i].owner = a[i].owner
        /\ \A i \in 1..Len(a) : i # Len(a) => b[i] = a[i]
        /\ Len(a) \in 1..Len(a) => b[Len(a)].status = outcome[t]
    BY DEF LastEnded
  <1> HIDE DEF a, b, row, rov
  <1>5. Len(a) \in 1..Len(a)
    BY <1>1, <1>2 DEF TaskRows, RowAgrees
  <1>6. EndsAgree(rov[n], b[Len(a)])
    BY <1>2, <1>3, <1>4, <1>5, ClosedFacts DEF EndsAgree
  <1>7. TaskRows(r, t, runs'[r].task[t], b, rov)
    BY <1>1, <1>2, <1>3, <1>4, <1>6, AttemptEnded
  <1> QED BY <1>7 DEF b, rov

(* A task whose rows stay and which is neither queued nor running afterwards *)
(* unless it was in the same status before.                                  *)
LEMMA UntouchedRows ==
    ASSUME AllRows, NEW r \in Run, NEW t \in Task,
           runs'[r].attempts[t] = runs[r].attempts[t],
           \A k \in RowId : dispatches'[<<r, t, k>>] = dispatches[<<r, t, k>>],
           \/ runs'[r].task[t] = runs[r].task[t]
           \/ /\ runs[r].task[t] \notin {"queued", "running"}
              /\ runs'[r].task[t] \notin {"queued", "running"}
    PROVE  TaskRows(r, t, runs'[r].task[t], runs'[r].attempts[t], RowsOf(dispatches', r, t))
  <1> DEFINE a == runs[r].attempts[t]
             row == RowsOf(dispatches, r, t)
             rov == RowsOf(dispatches', r, t)
             st == runs[r].task[t]
             su == runs'[r].task[t]
  <1>1. TaskRows(r, t, st, a, row)
    BY DEF AllRows
  <1>2. \A k \in RowId : rov[k] = row[k]
    BY RowNames
  <1> HIDE DEF a, row, rov, st, su
  <1>3. su = st \/ (st \notin {"queued", "running"} /\ su \notin {"queued", "running"})
    BY DEF st, su
  <1>4. TaskRows(r, t, su, a, rov)
    BY <1>1, <1>2, <1>3, TaskLeftAlone
  <1> QED BY <1>4 DEF a, rov, su

\* Complete closes the row whose attempt it ends.
LEMMA CompleteRows ==
    ASSUME DispatchInv, AllRows, NEW w \in Worker, NEW d \in DispatchID, NEW kind \in ResultKind,
           NEW age \in Age, Complete(w, d, kind, age)
    PROVE  AllRows'
  <1> SUFFICES ASSUME NEW r \in Run, NEW t \in Task
               PROVE  TaskRows(r, t, runs'[r].task[t], runs'[r].attempts[t], RowsOf(dispatches', r, t))
    BY DEF AllRows
  <1>1. PICK n \in RowId : d = <<RunOf(d), TaskOf(d), n>>
    BY RowParts
  <1>2. /\ runs[RunOf(d)].task[TaskOf(d)] = "running"
        /\ Sound(runs'[RunOf(d)], Owner)
        /\ Resolved(runs[RunOf(d)], runs'[RunOf(d)], {TaskOf(d)}, EndsAs(TaskOf(d), kind))
        /\ runs' = [runs EXCEPT ![RunOf(d)] = runs'[RunOf(d)]]
    BY CompleteRuns
  <1>3. /\ dispatches' = [dispatches EXCEPT ![d] = ClosedRow(dispatches[d], "completed", kind)]
        /\ Leased(d)
        /\ dispatches \in [DispatchID -> Row] /\ runs \in [Run -> Snapshot(Owner)]
    BY DEF Complete, LeaseAlive, Leased, DispatchInv, TypeOK
  <1>4. CASE r = RunOf(d) /\ t = TaskOf(d)
    <2>1. d = <<r, t, n>>
      BY <1>1, <1>4
    <2>2. /\ LastEnded(runs[r], runs'[r], {t}, EndsAs(t, kind))
          /\ runs[r].task[t] = "running" /\ runs'[r].task[t] \notin {"queued", "running"}
      BY <1>2, <1>4 DEF Resolved
    <2>3. /\ Leased(<<r, t, n>>)
          /\ dispatches'[<<r, t, n>>] = ClosedRow(dispatches[<<r, t, n>>], "completed", kind)
      BY <1>3, <2>1
    <2>4. \A k \in RowId \ {n} : dispatches'[<<r, t, k>>] = dispatches[<<r, t, k>>]
      BY <1>3, <2>1, RowNames
    <2>5. EndsAs(t, kind)[t] = EndOf(kind)
      BY DEF EndsAs
    <2>6. /\ kind = "success" => EndsAs(t, kind)[t] = "succeeded"
          /\ kind # "success" => EndsAs(t, kind)[t] = "failed"
      BY <2>5 DEF EndOf
    <2> QED BY <2>2, <2>3, <2>4, <2>6, EndedRows
  <1>5. CASE ~(r = RunOf(d) /\ t = TaskOf(d))
    <2>1. \A k \in RowId : dispatches'[<<r, t, k>>] = dispatches[<<r, t, k>>]
      <3>1. \A k \in RowId : <<r, t, k>> # d
        BY <1>1, <1>5, RowNames
      <3> QED BY <1>3, <3>1, RowNames
    <2>2. CASE r # RunOf(d)
      <3>1. runs'[r] = runs[r]
        BY <1>2, <1>3, <2>2
      <3> QED BY <2>1, <3>1, UntouchedRows
    <2>3. CASE r = RunOf(d) /\ t # TaskOf(d)
      <3>1. Sound(runs[r], Owner) /\ Sound(runs'[r], Owner)
        BY <1>2, <2>3 DEF DispatchInv
      <3>2. /\ LastEnded(runs[r], runs'[r], {TaskOf(d)}, EndsAs(TaskOf(d), kind))
            /\ \/ runs'[r].task[t] = runs[r].task[t]
               \/ /\ runs[r].task[t] \notin {"queued", "running"}
                  /\ runs'[r].task[t] \notin {"queued", "running"}
        BY <1>2, <2>3 DEF Resolved
      <3>3. runs'[r].attempts[t] = runs[r].attempts[t]
        BY <2>3, <3>1, <3>2, HistoryKept
      <3> QED BY <2>1, <3>2, <3>3, UntouchedRows
    <2> QED BY <1>5, <2>2, <2>3
  <1> QED BY <1>4, <1>5

\* ReapExpired closes the rows whose attempts it ends.
LEMMA ReapRows ==
    ASSUME DispatchInv, AllRows, NEW X \in SUBSET DispatchID, NEW age \in Age,
           ReapExpired(X, age)
    PROVE  AllRows'
  <1> SUFFICES ASSUME NEW r \in Run, NEW t \in Task
               PROVE  TaskRows(r, t, runs'[r].task[t], runs'[r].attempts[t], RowsOf(dispatches', r, t))
    BY DEF AllRows
  <1> DEFINE T == TasksOf(X, r)
             outcome == Settled(X, r)
  <1>1. /\ Sound(runs[r], Owner) /\ Sound(runs'[r], Owner)
        /\ \A x \in T : runs[r].task[x] = "running"
        /\ outcome \in [T -> {"timed_out", "interrupted"}]
        /\ \/ T = {} /\ runs'[r] = runs[r]
           \/ T # {} /\ Resolved(runs[r], runs'[r], T, outcome)
    BY ReapRuns DEF DispatchInv
  <1>2. T \in SUBSET Task
    BY TasksOfFacts
  <1>3. \A d \in X : Leased(d)
    BY DEF ReapExpired, Expired, Leased
  <1>4. \A d \in DispatchID : dispatches'[d] = IF d \in X THEN ClosedRow(dispatches[d], "expired", "none")
                                               ELSE dispatches[d]
    BY DEF ReapExpired
  <1>5. CASE t \in T
    <2>1. PICK n \in RowId : <<r, t, n>> \in X
      BY <1>5 DEF TasksOf
    <2>2. ASSUME NEW k \in RowId \ {n} PROVE dispatches'[<<r, t, k>>] = dispatches[<<r, t, k>>]
      <3>1. <<r, t, k>> \notin X
        <4> SUFFICES ASSUME <<r, t, k>> \in X PROVE FALSE
          OBVIOUS
        <4>1. Active(<<r, t, k>>) /\ Active(<<r, t, n>>)
          BY <1>3, <2>1 DEF Active
        <4>2. k = n
          BY <4>1, OnlyActive
        <4> QED BY <4>2
      <3> QED BY <1>4, <3>1, RowNames
    <2>3. /\ dispatches'[<<r, t, n>>] = ClosedRow(dispatches[<<r, t, n>>], "expired", "none")
          /\ Leased(<<r, t, n>>)
      BY <1>3, <1>4, <2>1, RowNames
    <2>4. /\ LastEnded(runs[r], runs'[r], T, outcome)
          /\ runs[r].task[t] = "running" /\ runs'[r].task[t] \notin {"queued", "running"}
          /\ outcome[t] \in {"timed_out", "interrupted"}
      BY <1>1, <1>5 DEF Resolved
    <2> HIDE DEF T, outcome
    <2> QED BY <1>2, <1>5, <2>2, <2>3, <2>4, EndedRows
  <1>6. CASE t \notin T
    <2>1. \A k \in RowId : dispatches'[<<r, t, k>>] = dispatches[<<r, t, k>>]
      BY <1>4, <1>6, RowNames DEF TasksOf
    <2>2. CASE runs'[r] = runs[r]
      BY <2>1, <2>2, UntouchedRows
    <2>3. CASE Resolved(runs[r], runs'[r], T, outcome)
      <3> HIDE DEF T, outcome
      <3>1. /\ LastEnded(runs[r], runs'[r], T, outcome)
            /\ \/ runs'[r].task[t] = runs[r].task[t]
               \/ /\ runs[r].task[t] \notin {"queued", "running"}
                  /\ runs'[r].task[t] \notin {"queued", "running"}
        BY <1>6, <2>3 DEF Resolved
      <3>2. runs'[r].attempts[t] = runs[r].attempts[t]
        BY <1>1, <1>6, <3>1, HistoryKept
      <3> QED BY <2>1, <3>1, <3>2, UntouchedRows
    <2> QED BY <1>1, <2>2, <2>3
  <1> QED BY <1>5, <1>6

\* CancelRun leaves no active row of its Run.
LEMMA CancelRows ==
    ASSUME DispatchInv, AllRows, NEW x \in Run, CancelRun(x)
    PROVE  AllRows'
  <1> SUFFICES ASSUME NEW r \in Run, NEW t \in Task
               PROVE  TaskRows(r, t, runs'[r].task[t], runs'[r].attempts[t], RowsOf(dispatches', r, t))
    BY DEF AllRows
  <1>1. /\ Sound(runs'[x], Owner) /\ Sound(runs[x], Owner)
        /\ AllCanceled(runs[x], runs'[x])
        /\ runs' = [runs EXCEPT ![x] = runs'[x]]
    BY CancelRuns DEF DispatchInv
  <1>2. \A d \in DispatchID : dispatches'[d] = IF RunOf(d) = x /\ Active(d)
                                               THEN ClosedRow(dispatches[d], "canceled", "none")
                                               ELSE dispatches[d]
    BY DEF CancelRun
  <1>3. CASE r # x
    <2>1. \A k \in RowId : dispatches'[<<r, t, k>>] = dispatches[<<r, t, k>>]
      BY <1>2, <1>3, RowNames
    <2>2. runs'[r] = runs[r]
      BY <1>1, <1>3 DEF DispatchInv, TypeOK
    <2> QED BY <2>1, <2>2, UntouchedRows
  <1>4. CASE r = x
    <2> DEFINE T == {y \in Task : runs[r].task[y] = "running"}
               outcome == [y \in T |-> "canceled"]
               st == runs[r].task[t]
               su == runs'[r].task[t]
    <2>1. /\ LastEnded(runs[r], runs'[r], T, outcome)
          /\ su = IF st \in TaskTerminal THEN st ELSE "canceled"
      BY <1>1, <1>4 DEF AllCanceled
    <2>2. su \notin {"queued", "running"}
      BY <2>1 DEF TaskTerminal
    <2>3. TaskRows(r, t, st, runs[r].attempts[t], RowsOf(dispatches, r, t))
      BY DEF AllRows
    <2>4. ASSUME NEW n \in RowId, Active(<<r, t, n>>)
          PROVE  /\ dispatches'[<<r, t, n>>] = ClosedRow(dispatches[<<r, t, n>>], "canceled", "none")
                 /\ \A k \in RowId \ {n} : dispatches'[<<r, t, k>>] = dispatches[<<r, t, k>>]
      <3>1. dispatches'[<<r, t, n>>] = ClosedRow(dispatches[<<r, t, n>>], "canceled", "none")
        BY <1>2, <1>4, <2>4, RowNames
      <3>2. ASSUME NEW k \in RowId \ {n} PROVE dispatches'[<<r, t, k>>] = dispatches[<<r, t, k>>]
        <4>1. ~Active(<<r, t, k>>)
          BY <2>4, OnlyActive
        <4> QED BY <1>2, <4>1, RowNames
      <3> QED BY <3>1, <3>2
    <2>5. CASE st = "running"
      <3>1. PICK n \in RowId : RowsOf(dispatches, r, t)[n].status \in {"pending", "leased"}
        BY <2>3, <2>5 DEF TaskRows
      <3>2. Leased(<<r, t, n>>) /\ Active(<<r, t, n>>)
        <4>1. RowAgrees(<<r, t, n>>, RowsOf(dispatches, r, t)[n], st, runs[r].attempts[t])
          BY <2>3 DEF TaskRows
        <4>2. RowsOf(dispatches, r, t)[n].status = "leased"
          BY <2>5, <3>1, <4>1 DEF RowAgrees
        <4> QED BY <4>2, RowNames DEF Leased, Active
      <3>3. t \in T /\ outcome[t] = "canceled" /\ T \in SUBSET Task
        BY <2>5
      <3> HIDE DEF T, outcome
      <3> QED BY <2>1, <2>2, <2>4, <2>5, <3>2, <3>3, EndedRows
    <2>6. CASE st # "running"
      <3>1. runs'[r].attempts[t] = runs[r].attempts[t]
        <4>1. t \notin T
          BY <2>6
        <4> HIDE DEF T, outcome
        <4> QED BY <1>1, <1>4, <2>1, <4>1, HistoryKept
      <3>2. CASE st = "queued"
        <4>1. PICK n \in RowId : RowsOf(dispatches, r, t)[n].status \in {"pending", "leased"}
          BY <2>3, <3>2 DEF TaskRows
        <4>2. RowsOf(dispatches, r, t)[n].status = "pending"
          <5>1. RowAgrees(<<r, t, n>>, RowsOf(dispatches, r, t)[n], st, runs[r].attempts[t])
            BY <2>3 DEF TaskRows
          <5> QED BY <3>2, <4>1, <5>1 DEF RowAgrees
        <4>3. Active(<<r, t, n>>)
          BY <4>2, RowNames DEF Pending, Active
        <4> DEFINE row == RowsOf(dispatches, r, t)
                   rov == RowsOf(dispatches', r, t)
                   a == runs[r].attempts[t]
        <4>4. /\ rov[n] = ClosedRow(row[n], "canceled", "none")
              /\ row[n] \in Row
          BY <2>4, <4>3, RowNames DEF DispatchInv, TypeOK
        <4>5. \A k \in RowId \ {n} : rov[k] = row[k]
          BY <2>4, <4>3, RowNames
        <4>6. TaskRows(r, t, "queued", a, row) /\ row[n].status = "pending"
          BY <2>3, <3>2, <4>2
        <4> HIDE DEF row, rov, a, su
        <4>7. TaskRows(r, t, su, a, rov)
          BY <2>2, <4>4, <4>5, <4>6, PendingClosed
        <4> QED BY <3>1, <4>7 DEF rov, a, su
      <3>3. CASE st # "queued"
        <4>1. ASSUME NEW k \in RowId PROVE dispatches'[<<r, t, k>>] = dispatches[<<r, t, k>>]
          <5>1. RowAgrees(<<r, t, k>>, RowsOf(dispatches, r, t)[k], st, runs[r].attempts[t])
            BY <2>3 DEF TaskRows
          <5>2. RowsOf(dispatches, r, t)[k].status \notin {"pending", "leased"}
            BY <2>6, <3>3, <5>1 DEF RowAgrees
          <5>3. ~Active(<<r, t, k>>)
            BY <5>2, RowNames DEF Active, Pending, Leased
          <5> QED BY <1>2, <5>3, RowNames
        <4> QED BY <2>2, <2>6, <3>1, <3>3, <4>1, UntouchedRows
      <3> QED BY <3>2, <3>3
    <2> QED BY <2>5, <2>6
  <1> QED BY <1>3, <1>4

\* A scan inserts rows for tasks without one and closes rows whose task it takes back.
LEMMA CreateRows ==
    ASSUME DispatchInv, AllRows, NEW c \in Coordinator, NEW Q \in SUBSET Run,
           CreateDispatches(c, Q)
    PROVE  AllRows'
  <1> SUFFICES ASSUME NEW r \in Run, NEW t \in Task
               PROVE  TaskRows(r, t, runs'[r].task[t], runs'[r].attempts[t], RowsOf(dispatches', r, t))
    BY DEF AllRows
  <1> DEFINE p == promoted(c, r)
             T == TasksOf(Orphans(c), r)
             a == runs[r].attempts[t]
             st == runs[r].task[t]
             row == RowsOf(dispatches, r, t)
             rov == RowsOf(dispatches', r, t)
             mid == [k \in RowId |-> IF <<r, t, k>> \in Orphans(c)
                                     THEN ClosedRow(dispatches[<<r, t, k>>], "canceled", "none")
                                     ELSE dispatches[<<r, t, k>>]]
             new(d) == Inserted(d, c, Q)
  <1>1. /\ T \in SUBSET Task
        /\ Promoted(runs[r], p, T)
        /\ Queued(p, runs'[r], r \in Q)
    BY CreateRuns
  <1>2. /\ Orphans(c) \in SUBSET DispatchID /\ \A d \in Orphans(c) : Pending(d)
        /\ scan[c].age \in Age /\ dispatches \in [DispatchID -> Row]
    BY DEF Orphans, DispatchInv, TypeOK, Scan
  <1>4. \A d \in DispatchID :
          /\ d \in Orphans(c) => dispatches'[d] = ClosedRow(dispatches[d], "canceled", "none")
          /\ new(d) => dispatches'[d] = PendingRow(scan[c].age)
          /\ d \notin Orphans(c) /\ ~new(d) => dispatches'[d] = dispatches[d]
    BY CreatedRows
  <1>5. TaskRows(r, t, st, a, row) /\ Len(a) \in Nat
    BY AttemptsLength DEF AllRows
  <1>6. \A k \in RowId : row[k] = dispatches[<<r, t, k>>] /\ rov[k] = dispatches'[<<r, t, k>>]
    BY RowNames
  <1>7. TaskRows(r, t, p.task[t], a, mid)
    <2>1. CASE t \in T
      <3>1. PICK n \in RowId : <<r, t, n>> \in Orphans(c)
        BY <2>1 DEF TasksOf
      <3>2. row[n] \in Row /\ row[n].status = "pending"
        BY <1>2, <1>6, <3>1, RowNames DEF Pending
      <3>3. ASSUME NEW k \in RowId \ {n} PROVE mid[k] = row[k]
        <4>1. <<r, t, k>> \notin Orphans(c)
          <5> SUFFICES ASSUME <<r, t, k>> \in Orphans(c) PROVE FALSE
            OBVIOUS
          <5>1. Active(<<r, t, k>>) /\ Active(<<r, t, n>>)
            BY <1>2, <3>1 DEF Active
          <5>2. k = n
            BY <5>1, OnlyActive
          <5> QED BY <5>2
        <4> QED BY <1>6, <4>1
      <3>4. mid[n] = ClosedRow(row[n], "canceled", "none")
        BY <1>6, <3>1
      <3>5. st = "queued" /\ p.task[t] = "ready"
        BY <1>1, <2>1 DEF Promoted
      <3>6. TaskRows(r, t, "queued", a, row)
        BY <1>5, <3>5
      <3> HIDE DEF mid, row, a, st, p
      <3> QED BY <3>2, <3>3, <3>4, <3>5, <3>6, PendingClosed
    <2>2. CASE t \notin T
      <3>1. \A k \in RowId : mid[k] = row[k]
        BY <1>6, <2>2 DEF TasksOf
      <3>2. \/ p.task[t] = st
            \/ st \notin {"queued", "running"} /\ p.task[t] \notin {"queued", "running"}
        BY <1>1, <2>2 DEF Promoted
      <3> DEFINE su == p.task[t]
      <3> HIDE DEF mid, row, a, st, su
      <3>3. TaskRows(r, t, su, a, mid)
        BY <1>5, <3>1, <3>2, TaskLeftAlone DEF su
      <3> QED BY <3>3 DEF su
    <2> QED BY <2>1, <2>2
  <1>8. runs'[r].attempts[t] = a
    BY <1>1 DEF Promoted, Queued
  <1>9. CASE r \in Q /\ t = First(ReadyTasks(p))
    <2>1. PICK n \in RowId : /\ NewDispatch(p, r) = <<r, t, n>>
                             /\ dispatches[<<r, t, n>>].status = "none"
      BY <1>9, NewDispatchUnused
    <2>2. new(<<r, t, n>>)
      BY <1>9, <2>1, RowNames DEF Inserted
    <2>3. mid[n].status = "none"
      BY <1>2, <2>1 DEF Pending
    <2>4. rov[n] = PendingRow(scan[c].age)
      BY <1>4, <1>6, <2>2, RowNames
    <2>5. ASSUME NEW k \in RowId \ {n} PROVE rov[k] = mid[k]
      <3>1. ~new(<<r, t, k>>)
        BY <2>1, RowNames DEF Inserted
      <3> HIDE DEF new
      <3> QED BY <1>4, <1>6, <3>1, RowNames
    <2>6. p.task[t] = "ready" /\ runs'[r].task[t] = "queued"
      BY <1>1, <1>9 DEF Queued
    <2> DEFINE su == p.task[t]
    <2>7. su \notin {"queued", "running"}
      BY <2>6
    <2> HIDE DEF mid, row, rov, a, st, su
    <2>8. TaskRows(r, t, "queued", a, rov)
      <3>1. Opens(mid, rov, n, scan[c].age)
        BY <2>3, <2>4, <2>5 DEF Opens
      <3>2. TaskRows(r, t, su, a, mid)
        BY <1>7 DEF su
      <3> QED BY <1>2, <1>5, <2>7, <3>1, <3>2, RowOpened
    <2> QED BY <1>8, <2>6, <2>8 DEF rov
  <1>10. CASE ~(r \in Q /\ t = First(ReadyTasks(p)))
    <2>1. runs'[r].task[t] = p.task[t]
      BY <1>1, <1>10 DEF Queued
    <2>2. ASSUME NEW k \in RowId PROVE rov[k] = mid[k]
      <3>1. ~new(<<r, t, k>>)
        BY <1>10, RowNames DEF NewDispatch, Inserted
      <3> HIDE DEF new
      <3> QED BY <1>4, <1>6, <3>1, RowNames
    <2> DEFINE su == p.task[t]
    <2> HIDE DEF mid, row, rov, a, st, su
    <2>3. TaskRows(r, t, su, a, rov)
      BY <1>7, <2>2, TaskLeftAlone DEF su
    <2> QED BY <1>8, <2>1, <2>3 DEF su, rov
  <1> QED BY <1>9, <1>10

\* Sessions, heartbeats, requests and time change no status of a row and no Run.
LEMMA QuietSteps ==
    ASSUME DispatchInv, AllRows,
           \/ \E w \in Worker : RegisterWorker(w) \/ DrainWorker(w)
           \/ \E w \in Worker, age \in Age : \E L \in SUBSET LeasesOf(w) : Heartbeat(w, L, age)
           \/ \E c \in Coordinator : ReadsOnly(c)
           \/ \E r \in Run : RequestCancel(r)
           \/ Tick
           \/ UNCHANGED vars
    PROVE  AllRows'
  <1>1. /\ \A d \in DispatchID : dispatches[d] \in Row
        /\ runs \in [Run -> Snapshot(Owner)]
    BY DEF DispatchInv, TypeOK
  <1>2. ASSUME UNCHANGED <<runs, dispatches>> PROVE AllRows'
    BY <1>2 DEF AllRows
  <1>3. ASSUME NEW w, NEW age, NEW L, Heartbeat(w, L, age) PROVE AllRows'
    <2>1. runs' = runs
      BY <1>3 DEF Heartbeat
    <2>2. ASSUME NEW d \in DispatchID
          PROVE  /\ dispatches'[d].status = dispatches[d].status
                 /\ dispatches'[d].worker = dispatches[d].worker
                 /\ dispatches'[d].attempt = dispatches[d].attempt
                 /\ dispatches'[d].result = dispatches[d].result
      <3> DEFINE l == LeaseUntil(dispatches[d].deadline, age)
      <3>1. \/ dispatches'[d] = [dispatches[d] EXCEPT !.lease = l]
            \/ dispatches'[d] = dispatches[d]
        BY <1>3 DEF Heartbeat
      <3> HIDE DEF l
      <3>2. dispatches[d] \in Row
        BY <1>1
      <3> QED BY <3>1, <3>2 DEF Row
    <2> QED BY <2>1, <2>2, QuietRows
  <1>4. CASE Tick
    <2>1. ASSUME NEW r \in Run
          PROVE  runs'[r].task = runs[r].task /\ runs'[r].attempts = runs[r].attempts
      BY <1>1, <1>4, OlderKeeps DEF Tick
    <2>2. ASSUME NEW d \in DispatchID
          PROVE  /\ dispatches'[d].status = dispatches[d].status
                 /\ dispatches'[d].worker = dispatches[d].worker
                 /\ dispatches'[d].attempt = dispatches[d].attempt
                 /\ dispatches'[d].result = dispatches[d].result
      <3>1. dispatches'[d] = OlderRow(dispatches[d])
        BY <1>4 DEF Tick
      <3> QED BY <1>1, <3>1, TimesOnly
    <2> QED BY <2>1, <2>2, QuietRows
  <1> QED BY <1>2, <1>3, <1>4, ReadsOnlyUnchanged
        DEF RegisterWorker, DrainWorker, RequestCancel, vars

(* A freshly created Run has neither rows nor attempts.                      *)
LEMMA InitRows == Init => AllRows
  <1> SUFFICES ASSUME Init, NEW r \in Run, NEW t \in Task
               PROVE  TaskRows(r, t, runs[r].task[t], runs[r].attempts[t], RowsOf(dispatches, r, t))
    BY DEF AllRows
  <1>1. /\ runs[r].attempts[t] = << >>
        /\ runs[r].task[t] \notin {"queued", "running"}
    BY DEF Init, newRunSnapshot
  <1>2. ASSUME NEW k \in RowId
        PROVE  /\ RowsOf(dispatches, r, t)[k].status = "none"
               /\ RowsOf(dispatches, r, t)[k].worker = NoWorker
               /\ RowsOf(dispatches, r, t)[k].attempt = 0
    <2>1. RowsOf(dispatches, r, t)[k] = UnusedRow
      BY RowNames DEF Init
    <2> QED BY <2>1 DEF UnusedRow
  <1>3. \A k \in RowId : RowAgrees(<<r, t, k>>, RowsOf(dispatches, r, t)[k],
                                   runs[r].task[t], runs[r].attempts[t])
    BY <1>2 DEF RowAgrees
  <1> QED BY <1>1, <1>2, <1>3 DEF TaskRows

\* Every step keeps the agreement of rows and Runs.
LEMMA NextRows == RowsInv /\ [Next]_vars => RowsInv'
  <1> SUFFICES ASSUME DispatchInv, AllRows, [Next]_vars PROVE RowsInv'
    BY DEF RowsInv
  <1>1. DispatchInv'
    BY NextInv
  <1>2. ASSUME NEW w \in Worker, NEW age \in Age,
               NEW C \in SUBSET {d \in DispatchID : Claimable(d, w)}, Claim(w, C, age)
        PROVE  AllRows'
    <2>1. C \in SUBSET DispatchID
      OBVIOUS
    <2> QED BY <1>2, <2>1, ClaimRows
  <1>3. ASSUME NEW w \in Worker, NEW age \in Age, NEW d \in DispatchID, NEW kind \in ResultKind,
               Complete(w, d, kind, age)
        PROVE  AllRows'
    BY <1>3, CompleteRows
  <1>4. ASSUME NEW age \in Age,
               NEW X \in SUBSET {d \in DispatchID : Expired(dispatches[d], 0 - age)},
               ReapExpired(X, age)
        PROVE  AllRows'
    <2>1. X \in SUBSET DispatchID
      OBVIOUS
    <2> QED BY <1>4, <2>1, ReapRows
  <1>5. ASSUME NEW c \in Coordinator, NEW Q \in SUBSET Run, CreateDispatches(c, Q)
        PROVE  AllRows'
    BY <1>5, CreateRows
  <1>6. ASSUME NEW r \in Run, CancelRun(r) PROVE AllRows'
    BY <1>6, CancelRows
  <1>7. ASSUME \/ \E w \in Worker : RegisterWorker(w) \/ DrainWorker(w)
               \/ \E w \in Worker, age \in Age : \E L \in SUBSET LeasesOf(w) : Heartbeat(w, L, age)
               \/ \E c \in Coordinator : ReadsOnly(c)
               \/ \E r \in Run : RequestCancel(r)
               \/ Tick
               \/ UNCHANGED vars
        PROVE  AllRows'
    BY <1>7, QuietSteps
  <1>8. AllRows'
    BY <1>2, <1>3, <1>4, <1>5, <1>6, <1>7 DEF Next, ScanStep, ReadsOnly
  <1> QED BY <1>1, <1>8 DEF RowsInv

(* The rows and the Runs agree in every reachable state.                     *)
THEOREM RowsAgree == Spec => []RowsInv
  <1>1. Init => RowsInv
    BY InitInv, InitRows DEF RowsInv
  <1> QED BY <1>1, NextRows, PTL DEF Spec

-----------------------------------------------------------------------------
(* What the agreement gives.                                                 *)

(* A leased row belongs to the attempt that runs, a pending row to a queued  *)
(* task.                                                                     *)
LEMMA ActiveRows ==
    ASSUME RowsInv, NEW r \in Run, NEW t \in Task, NEW k \in RowId
    PROVE  /\ Pending(<<r, t, k>>) => runs[r].task[t] = "queued"
           /\ Leased(<<r, t, k>>) => activeAttempt(runs[r], t, dispatches[<<r, t, k>>].attempt)
           /\ RowAgrees(<<r, t, k>>, dispatches[<<r, t, k>>], runs[r].task[t], runs[r].attempts[t])
  <1> DEFINE row == dispatches[<<r, t, k>>]
             a == runs[r].attempts[t]
  <1>1. RowAgrees(<<r, t, k>>, row, runs[r].task[t], a)
    <2>1. TaskRows(r, t, runs[r].task[t], a, RowsOf(dispatches, r, t))
      BY DEF RowsInv, AllRows
    <2>2. RowAgrees(<<r, t, k>>, RowsOf(dispatches, r, t)[k], runs[r].task[t], a)
      BY <2>1 DEF TaskRows
    <2> QED BY <2>2, RowNames
  <1>2. ASSUME row.status = "leased" PROVE activeAttempt(runs[r], t, row.attempt)
    <2>1. runs[r].task[t] = "running" /\ row.attempt = Len(a)
      BY <1>1, <1>2 DEF RowAgrees
    <2>2. TaskHistory(runs[r].task[t], a, MaxAttempts[t]) /\ a \in Seq(AttemptOf(Owner))
      BY DEF RowsInv, DispatchInv, TypeOK, Snapshot, Sound, SnapshotInv, AttemptHistory
    <2>3. Len(a) > 0 /\ a[Len(a)].status = "running"
      BY <2>1, <2>2 DEF TaskHistory
    <2>4. a # << >>
      BY <2>2, <2>3
    <2> QED BY <2>1, <2>3, <2>4 DEF activeAttempt
  <1>3. row.status = "pending" => runs[r].task[t] = "queued"
    BY <1>1 DEF RowAgrees
  <1> QED BY <1>1, <1>2, <1>3 DEF Pending, Leased

(* task_dispatches and the Runs agree on who executes what, whatever leases  *)
(* are lost, results late, rows orphaned and Runs canceled: the unique index *)
(* of active rows and the owner columns of attempts never contradict it.     *)
THEOREM OwnershipHolds == Spec => []OwnershipInv
  <1>1. RowsInv => OwnershipInv
    <2> SUFFICES ASSUME RowsInv PROVE OwnershipInv
      OBVIOUS
    <2>1. ASSUME NEW d \in DispatchID
          PROVE  LET s == runs[RunOf(d)]
                     t == TaskOf(d)
                     row == dispatches[d]
                     attempt == s.attempts[t][row.attempt]
                 IN
                 /\ row.status = "pending" => s.task[t] = "queued"
                 /\ row.status = "leased" => activeAttempt(s, t, row.attempt)
                 /\ row.worker # NoWorker =>
                       /\ row.attempt \in 1..Len(s.attempts[t])
                       /\ attempt.owner = [worker |-> row.worker, dispatch |-> d]
                       /\ row.status \in {"completed", "expired", "canceled"} =>
                             attempt.status \in
                               CASE row.status = "completed" /\ row.result = "success" -> {"succeeded"}
                                 [] row.status = "completed" /\ row.result # "success" -> {"failed"}
                                 [] row.status = "expired" -> {"interrupted", "timed_out"}
                                 [] row.status = "canceled" -> {"canceled"}
                 /\ row.worker = NoWorker => row.status \in {"none", "pending", "canceled"}
      <3> DEFINE r == RunOf(d)
                 t == TaskOf(d)
                 row == dispatches[d]
                 a == runs[r].attempts[t]
      <3>1. PICK k \in RowId : d = <<r, t, k>>
        BY RowParts
      <3>2. r \in Run /\ t \in Task
        BY RowParts
      <3>3. /\ row.status = "pending" => runs[r].task[t] = "queued"
            /\ row.status = "leased" => activeAttempt(runs[r], t, row.attempt)
            /\ RowAgrees(d, row, runs[r].task[t], a)
        BY <3>1, <3>2, ActiveRows DEF Pending, Leased
      <3>4. row.status \in RowStatus
        BY DEF RowsInv, DispatchInv, TypeOK, Row
      <3> HIDE DEF r, t, row, a
      <3>5. row.worker = NoWorker => row.status \in {"none", "pending", "canceled"}
        BY <3>3, <3>4 DEF RowAgrees, RowStatus
      <3>6. row.worker # NoWorker =>
              /\ row.attempt \in 1..Len(a)
              /\ a[row.attempt].owner = [worker |-> row.worker, dispatch |-> d]
              /\ row.status \in {"completed", "expired", "canceled"} =>
                    a[row.attempt].status \in
                      CASE row.status = "completed" /\ row.result = "success" -> {"succeeded"}
                        [] row.status = "completed" /\ row.result # "success" -> {"failed"}
                        [] row.status = "expired" -> {"interrupted", "timed_out"}
                        [] row.status = "canceled" -> {"canceled"}
        BY <3>3 DEF RowAgrees, EndsAgree
      <3> QED BY <3>3, <3>5, <3>6 DEF r, t, row, a
    <2>2. ASSUME NEW r \in Run, NEW t \in Task
          PROVE  Cardinality({k \in RowId : Active(<<r, t, k>>)}) =
                    IF runs[r].task[t] \in {"queued", "running"} THEN 1 ELSE 0
      <3> DEFINE A == {k \in RowId : Active(<<r, t, k>>)}
      <3>1. TaskRows(r, t, runs[r].task[t], runs[r].attempts[t], RowsOf(dispatches, r, t))
        BY DEF RowsInv, AllRows
      <3>2. CASE runs[r].task[t] \in {"queued", "running"}
        <4>1. PICK k \in RowId : RowsOf(dispatches, r, t)[k].status \in {"pending", "leased"}
          BY <3>1, <3>2 DEF TaskRows
        <4>2. k \in A
          BY <4>1, RowNames DEF Active, Pending, Leased
        <4>3. A = {k}
          BY <4>2, OnlyActive DEF RowsInv
        <4>4. Cardinality({k}) = 1
          BY FS_Singleton
        <4> QED BY <3>2, <4>3, <4>4
      <3>3. CASE runs[r].task[t] \notin {"queued", "running"}
        <4>1. A = {}
          BY <3>3, ActiveRows DEF Active, activeAttempt
        <4>2. Cardinality({}) = 0
          BY FS_EmptySet
        <4> QED BY <3>3, <4>1, <4>2
      <3> QED BY <3>2, <3>3
    <2>3. ASSUME NEW r \in Run, NEW t \in Task, NEW i \in 1..Len(runs[r].attempts[t])
          PROVE  LET d == runs[r].attempts[t][i].owner.dispatch
                 IN  RunOf(d) = r /\ TaskOf(d) = t /\ dispatches[d].attempt = i
      <3>1. TaskRows(r, t, runs[r].task[t], runs[r].attempts[t], RowsOf(dispatches, r, t))
        BY DEF RowsInv, AllRows
      <3>2. PICK k \in RowId : /\ runs[r].attempts[t][i].owner.dispatch = <<r, t, k>>
                               /\ RowsOf(dispatches, r, t)[k].attempt = i
        BY <3>1 DEF TaskRows
      <3> QED BY <3>2, RowNames
    <2>4. OwnershipInv!1
      BY <2>1
    <2>5. ASSUME NEW r \in Run, NEW t \in Task
          PROVE  /\ Cardinality({k \in RowId : Active(<<r, t, k>>)}) =
                       IF runs[r].task[t] \in {"queued", "running"} THEN 1 ELSE 0
                 /\ \A i \in 1..Len(runs[r].attempts[t]) :
                       LET d == runs[r].attempts[t][i].owner.dispatch
                       IN  RunOf(d) = r /\ TaskOf(d) = t /\ dispatches[d].attempt = i
      <3>1. \A i \in 1..Len(runs[r].attempts[t]) :
               LET d == runs[r].attempts[t][i].owner.dispatch
               IN  RunOf(d) = r /\ TaskOf(d) = t /\ dispatches[d].attempt = i
        BY <2>3
      <3> QED BY <2>2, <3>1
    <2>6. OwnershipInv!2
      BY <2>5
    <2> QED BY <2>4, <2>6 DEF OwnershipInv
  <1> QED BY <1>1, RowsAgree, PTL

(* The rows a scan has listed and finds pending belong to queued tasks.       *)
LEMMA OrphansQueued ==
    ASSUME RowsInv, NEW c \in Coordinator
    PROVE  \A d \in Orphans(c) : runs[RunOf(d)].task[TaskOf(d)] = "queued"
  <1> SUFFICES ASSUME NEW d \in Orphans(c)
               PROVE  runs[RunOf(d)].task[TaskOf(d)] = "queued"
    OBVIOUS
  <1>1. d \in DispatchID /\ Pending(d)
    BY DEF Orphans, RowsInv, DispatchInv, TypeOK, Scan
  <1>2. PICK k \in RowId : d = <<RunOf(d), TaskOf(d), k>>
    BY <1>1, RowParts
  <1>3. RunOf(d) \in Run /\ TaskOf(d) \in Task
    BY <1>1, RowParts
  <1> QED BY <1>1, <1>2, <1>3, ActiveRows

(* No transaction of the coordinator runs into its own consistency checks:   *)
(* ReapExpired, CancelRun and CreateDispatches find every row they may meet  *)
(* in the state they require, so scanLoop never fails on one.                *)
THEOREM CoordinatorProceeds == Spec => []CoordinatorNeverFails
  <1>1. RowsInv => CoordinatorNeverFails
    <2> SUFFICES ASSUME RowsInv PROVE CoordinatorNeverFails
      OBVIOUS
    <2>1. \A r \in Run : Sound(runs[r], Owner) /\ runs[r].status \in WorkflowStatus
      BY DEF RowsInv, DispatchInv, Sound, Snapshot
    <2>2. ASSUME NEW r \in Run, runs[r].status \notin WorkflowTerminal
          PROVE  ~CancelRunSnapshot(runs[r]).err
      <3>1. runs[r].status \in {"pending", "running"}
        BY <2>1, <2>2 DEF WorkflowStatus, WorkflowTerminal
      <3>2. Sound(CancelRunSnapshot(runs[r]), Owner)
        BY <2>1, <3>1, CancelSound
      <3> QED BY <3>2 DEF Sound, SnapshotInv
    <2>3. ASSUME NEW r \in Run, NEW t \in Task, runs[r].task[t] = "ready",
                 runs[r].status \in {"pending", "running"}
          PROVE  ~QueueTask(runs[r], t).err
      <3>1. Sound(QueueTask(runs[r], t), Owner)
        BY <2>1, <2>3, QueueTaskSound
      <3> QED BY <3>1 DEF Sound, SnapshotInv
    <2>4. ASSUME NEW r \in Run, NEW t \in Task, runs[r].task[t] = "ready", NEW k \in RowId
          PROVE  ~Active(<<r, t, k>>)
      BY <2>4, ActiveRows DEF Active, activeAttempt
    <2>5. ASSUME NEW r \in Run,
                 NEW T \in SUBSET {t \in Task : \E k \in RowId : Leased(<<r, t, k>>)}, T # {}
          PROVE  ~EndAttempts(runs[r], T, [t \in T |-> "interrupted"], 0).err
      <3> DEFINE outcome == [t \in T |-> "interrupted"]
      <3>1. T \in SUBSET Task
        OBVIOUS
      <3>2. \A t \in T : runs[r].task[t] = "running"
        BY ActiveRows DEF activeAttempt
      <3>3. outcome \in [T -> RetryableEnd] /\ 0 \in Int
        BY DEF RetryableEnd
      <3> HIDE DEF outcome
      <3>4. Sound(EndAttempts(runs[r], T, outcome, 0), Owner)
        BY <2>1, <2>5, <3>1, <3>2, <3>3, EndAttemptsSound, Zenon
      <3>5. ~EndAttempts(runs[r], T, outcome, 0).err
        BY <3>4 DEF Sound, SnapshotInv
      <3> QED BY <3>5 DEF outcome
    <2>6. ASSUME NEW d \in DispatchID
          PROVE  /\ Pending(d) => runs[RunOf(d)].task[TaskOf(d)] = "queued"
                 /\ Leased(d) => activeAttempt(runs[RunOf(d)], TaskOf(d), dispatches[d].attempt)
      <3>1. PICK k \in RowId : d = <<RunOf(d), TaskOf(d), k>>
        BY RowParts
      <3>2. RunOf(d) \in Run /\ TaskOf(d) \in Task
        BY RowParts
      <3> QED BY <3>1, <3>2, ActiveRows
    <2>7. \A c \in Coordinator : \A d \in Orphans(c) : runs[RunOf(d)].task[TaskOf(d)] = "queued"
      BY OrphansQueued
    <2> QED BY <2>2, <2>3, <2>4, <2>5, <2>6, <2>7 DEF CoordinatorNeverFails
  <1> QED BY <1>1, RowsAgree, PTL

-----------------------------------------------------------------------------
(* Leases.  A leased row keeps a session that has not stopped, and its lease *)
(* never outlives its deadline.                                              *)

\* leaseUntil never passes the deadline of the attempt.
LEMMA LeaseCut ==
    ASSUME NEW deadline \in Int, NEW age \in Age
    PROVE  LeaseUntil(deadline, age) <= deadline /\ LeaseUntil(deadline, age) \in Int
  BY DispatchAssumption DEF LeaseUntil, Age

(* What a step may do to leased rows and sessions.                           *)
LEMMA LeaseKept ==
    ASSUME RowsInv, LeaseInv,
           \A d \in DispatchID : dispatches'[d].status = "leased" =>
              \/ /\ Leased(d)
                 /\ dispatches'[d].worker = dispatches[d].worker
                 /\ dispatches'[d].lease <= dispatches'[d].deadline
              \/ /\ dispatches'[d].worker \in Worker
                 /\ workers[dispatches'[d].worker].status = "active"
                 /\ dispatches'[d].lease <= dispatches'[d].deadline,
           \A w \in Worker :
              \/ workers'[w].status = workers[w].status
              \/ workers'[w].status \in {"active", "draining", "offline"}
              \/ LeasesOf(w) = {} /\ dispatches' = dispatches
    PROVE  LeaseInv'
  <1> SUFFICES ASSUME NEW d \in DispatchID, dispatches'[d].status = "leased"
               PROVE  /\ workers'[dispatches'[d].worker].status \in {"active", "draining", "offline"}
                      /\ dispatches'[d].lease <= dispatches'[d].deadline
    BY DEF LeaseInv, Leased
  <1>1. CASE Leased(d) /\ dispatches'[d].worker = dispatches[d].worker
             /\ dispatches'[d].lease <= dispatches'[d].deadline
    <2> DEFINE w == dispatches[d].worker
    <2>1. workers[w].status \in {"active", "draining", "offline"}
      BY <1>1 DEF LeaseInv
    <2>2. w \in Worker
      <3>1. PICK k \in RowId : d = <<RunOf(d), TaskOf(d), k>>
        BY RowParts
      <3>2. RunOf(d) \in Run /\ TaskOf(d) \in Task
        BY RowParts
      <3>3. RowAgrees(d, dispatches[d], runs[RunOf(d)].task[TaskOf(d)], runs[RunOf(d)].attempts[TaskOf(d)])
        BY <3>1, <3>2, ActiveRows
      <3>4. dispatches[d].worker # NoWorker
        BY <1>1, <3>3 DEF RowAgrees, Leased
      <3> QED BY <3>4 DEF RowsInv, DispatchInv, TypeOK, Row
    <2>3. d \in LeasesOf(w)
      BY <1>1 DEF LeasesOf
    <2> HIDE DEF w
    <2>4. workers'[w].status \in {"active", "draining", "offline"}
      BY <2>1, <2>2, <2>3
    <2> QED BY <1>1, <2>4 DEF w
  <1>2. CASE /\ dispatches'[d].worker \in Worker
             /\ workers[dispatches'[d].worker].status = "active"
             /\ dispatches'[d].lease <= dispatches'[d].deadline
    <2>1. \/ dispatches' # dispatches
          \/ Leased(d) /\ dispatches'[d].worker = dispatches[d].worker
      BY DEF Leased
    <2> QED BY <1>1, <1>2, <2>1
  <1> QED BY <1>1, <1>2

\* Every step keeps leases within deadlines.
LEMMA NextLeases == RowsInv /\ LeaseInv /\ [Next]_vars => LeaseInv'
  <1> SUFFICES ASSUME RowsInv, LeaseInv, [Next]_vars PROVE LeaseInv'
    OBVIOUS
  <1>1. /\ \A d \in DispatchID : dispatches[d] \in Row
        /\ dispatches \in [DispatchID -> Row] /\ workers \in [Worker -> WorkerRow]
    BY DEF RowsInv, DispatchInv, TypeOK
  <1>2. \A d \in DispatchID : Leased(d) => dispatches[d].lease <= dispatches[d].deadline
    BY DEF LeaseInv
  <1>3. ASSUME \A d \in DispatchID :
                 dispatches'[d] = dispatches[d] \/ dispatches'[d].status # "leased",
               \A w \in Worker :
                 \/ workers'[w].status = workers[w].status
                 \/ workers'[w].status \in {"active", "draining", "offline"}
                 \/ LeasesOf(w) = {} /\ dispatches' = dispatches
        PROVE  LeaseInv'
    BY <1>2, <1>3, LeaseKept DEF Leased
  <1>4. ASSUME NEW row \in Row, NEW status, NEW result, status # "leased"
        PROVE  ClosedRow(row, status, result).status # "leased"
    BY <1>4, ClosedFacts
  <1>5. ASSUME NEW w \in Worker, RegisterWorker(w) \/ DrainWorker(w) PROVE LeaseInv'
    <2>1. \A x \in Worker :
                 \/ workers'[x].status = workers[x].status
                 \/ workers'[x].status \in {"active", "draining", "offline"}
                 \/ LeasesOf(x) = {} /\ dispatches' = dispatches
      BY <1>1, <1>5 DEF RegisterWorker, DrainWorker, WorkerRow
    <2>2. dispatches' = dispatches
      BY <1>5 DEF RegisterWorker, DrainWorker
    <2> QED BY <1>3, <2>1, <2>2
  <1>6. ASSUME NEW w \in Worker, NEW age \in Age, NEW L \in SUBSET LeasesOf(w), Heartbeat(w, L, age)
        PROVE  LeaseInv'
    <2>1. ASSUME NEW d \in DispatchID, dispatches'[d].status = "leased"
          PROVE  /\ Leased(d)
                 /\ dispatches'[d].worker = dispatches[d].worker
                 /\ dispatches'[d].lease <= dispatches'[d].deadline
      <3> DEFINE l == LeaseUntil(dispatches[d].deadline, age)
      <3>1. dispatches[d] \in Row /\ l <= dispatches[d].deadline /\ l \in Int
        BY <1>1, LeaseCut DEF Row
      <3>2. \/ dispatches'[d] = [dispatches[d] EXCEPT !.lease = l]
            \/ dispatches'[d] = dispatches[d]
        BY <1>6 DEF Heartbeat
      <3> HIDE DEF l
      <3>3. CASE dispatches'[d] = dispatches[d]
        BY <1>2, <2>1, <3>3 DEF Leased
      <3>4. CASE dispatches'[d] = [dispatches[d] EXCEPT !.lease = l]
        <4>1. /\ dispatches'[d].status = dispatches[d].status
              /\ dispatches'[d].worker = dispatches[d].worker
              /\ dispatches'[d].lease = l
              /\ dispatches'[d].deadline = dispatches[d].deadline
          BY <3>1, <3>4 DEF Row
        <4> QED BY <2>1, <3>1, <4>1 DEF Leased
      <3> QED BY <3>2, <3>3, <3>4
    <2>2. \A x \in Worker : workers'[x].status = workers[x].status
      BY <1>1, <1>6 DEF Heartbeat, WorkerRow
    <2> QED BY <2>1, <2>2, LeaseKept
  <1>7. ASSUME NEW w \in Worker, NEW age \in Age,
               NEW C \in SUBSET {d \in DispatchID : Claimable(d, w)}, Claim(w, C, age)
        PROVE  LeaseInv'
    <2>1. ASSUME NEW d \in DispatchID, dispatches'[d].status = "leased"
          PROVE  \/ /\ Leased(d)
                    /\ dispatches'[d].worker = dispatches[d].worker
                    /\ dispatches'[d].lease <= dispatches'[d].deadline
                 \/ /\ dispatches'[d].worker \in Worker
                    /\ workers[dispatches'[d].worker].status = "active"
                    /\ dispatches'[d].lease <= dispatches'[d].deadline
      <3>1. CASE d \in C
        <4> DEFINE n == Len(runs[RunOf(d)].attempts[TaskOf(d)]) + 1
                   e == Timeout[TaskOf(d)] - age
                   l == LeaseUntil(e, age)
        <4>1. dispatches'[d] = LeasedRow(w, n, TaskOf(d), age)
          BY <1>7, <3>1 DEF Claim
        <4>2. e \in Int /\ l <= e
          <5>1. TaskOf(d) \in Task
            BY RowParts
          <5>2. e \in Int
            BY <5>1, DispatchAssumption DEF Age
          <5> HIDE DEF e
          <5> QED BY <5>2, LeaseCut
        <4>3. dispatches'[d] = [UnusedRow EXCEPT !.status = "leased", !.worker = w, !.attempt = n,
                                                !.deadline = e, !.lease = l]
          BY <4>1 DEF LeasedRow
        <4> HIDE DEF n, e, l
        <4>4. dispatches'[d].worker = w /\ dispatches'[d].deadline = e /\ dispatches'[d].lease = l
          BY <4>3 DEF UnusedRow
        <4>5. workers[w].status = "active"
          BY <1>7 DEF Claim
        <4> QED BY <4>2, <4>4, <4>5
      <3>2. CASE d \notin C
        <4>1. dispatches'[d] = dispatches[d]
          BY <1>7, <3>2 DEF Claim
        <4> QED BY <1>2, <2>1, <4>1 DEF Leased
      <3> QED BY <3>1, <3>2
    <2>2. workers' = workers
      BY <1>7 DEF Claim
    <2> QED BY <2>1, <2>2, LeaseKept
  <1>8. ASSUME NEW w \in Worker, NEW age \in Age, NEW d \in DispatchID, NEW kind \in ResultKind,
               Complete(w, d, kind, age)
        PROVE  LeaseInv'
    <2>1. /\ dispatches' = [dispatches EXCEPT ![d] = ClosedRow(dispatches[d], "completed", kind)]
          /\ workers' = workers
      BY <1>8 DEF Complete
    <2>2. ClosedRow(dispatches[d], "completed", kind).status # "leased"
      BY <1>1, <1>4
    <2> QED BY <1>1, <1>3, <2>1, <2>2
  <1>9. ASSUME NEW age \in Age,
               NEW X \in SUBSET {d \in DispatchID : Expired(dispatches[d], 0 - age)},
               ReapExpired(X, age)
        PROVE  LeaseInv'
    <2>1. \A d \in DispatchID : \/ dispatches'[d] = ClosedRow(dispatches[d], "expired", "none")
                                \/ dispatches'[d] = dispatches[d]
      BY <1>9 DEF ReapExpired
    <2>2. \A d \in DispatchID : ClosedRow(dispatches[d], "expired", "none").status # "leased"
      BY <1>1, <1>4
    <2>3. \A w \in Worker : \/ workers'[w].status = "offline"
                            \/ workers'[w].status = workers[w].status
      BY <1>9 DEF ReapExpired
    <2> QED BY <1>3, <2>1, <2>2, <2>3
  <1>10. ASSUME NEW c \in Coordinator, NEW Q \in SUBSET Run, CreateDispatches(c, Q)
         PROVE  LeaseInv'
    <2>1. \A d \in DispatchID : \/ dispatches'[d] = ClosedRow(dispatches[d], "canceled", "none")
                                \/ dispatches'[d] = PendingRow(scan[c].age)
                                \/ dispatches'[d] = dispatches[d]
      BY <1>10, CreatedRows DEF RowsInv
    <2>2. \A d \in DispatchID : ClosedRow(dispatches[d], "canceled", "none").status # "leased"
      BY <1>1, <1>4
    <2>3. PendingRow(scan[c].age).status # "leased"
      BY DEF PendingRow, UnusedRow
    <2>4. workers' = workers
      BY <1>10 DEF CreateDispatches
    <2> QED BY <1>3, <2>1, <2>2, <2>3, <2>4
  <1>11. ASSUME NEW r \in Run, CancelRun(r) PROVE LeaseInv'
    <2>1. \A d \in DispatchID : \/ dispatches'[d] = ClosedRow(dispatches[d], "canceled", "none")
                                \/ dispatches'[d] = dispatches[d]
      BY <1>11 DEF CancelRun
    <2>2. \A d \in DispatchID : ClosedRow(dispatches[d], "canceled", "none").status # "leased"
      BY <1>1, <1>4
    <2>3. workers' = workers
      BY <1>11 DEF CancelRun
    <2> QED BY <1>3, <2>1, <2>2, <2>3
  <1>12. CASE Tick
    <2>1. ASSUME NEW d \in DispatchID, dispatches'[d].status = "leased"
          PROVE  /\ Leased(d)
                 /\ dispatches'[d].worker = dispatches[d].worker
                 /\ dispatches'[d].lease <= dispatches'[d].deadline
      <3> DEFINE l == Earlier(dispatches[d].lease, Floor)
                 e == Earlier(dispatches[d].deadline, Floor)
      <3>1. dispatches[d] \in Row /\ dispatches'[d] = OlderRow(dispatches[d])
        BY <1>1, <1>12 DEF Tick
      <3>2. /\ dispatches'[d].status = dispatches[d].status
            /\ dispatches'[d].worker = dispatches[d].worker
        BY <3>1, TimesOnly
      <3>3. dispatches'[d] = [dispatches[d] EXCEPT !.lease = l, !.deadline = e]
        BY <2>1, <3>1, <3>2 DEF OlderRow
      <3>4. l <= e
        <4>1. /\ dispatches[d].lease \in Int /\ dispatches[d].deadline \in Int
              /\ dispatches[d].lease <= dispatches[d].deadline
          BY <1>2, <2>1, <3>1, <3>2 DEF Row, Leased
        <4>2. Floor \in Int
          BY DispatchAssumption DEF Floor
        <4> QED BY <4>1, <4>2 DEF Earlier
      <3> HIDE DEF l, e
      <3>5. dispatches'[d].lease = l /\ dispatches'[d].deadline = e
        BY <3>1, <3>3 DEF Row
      <3> QED BY <2>1, <3>2, <3>4, <3>5 DEF Leased
    <2>2. ASSUME NEW w \in Worker PROVE workers'[w].status = workers[w].status
      <3> DEFINE h == Earlier(workers[w].lastHeartbeat, SilentFloor)
      <3>1. \/ workers'[w] = workers[w]
            \/ workers'[w] = [workers[w] EXCEPT !.lastHeartbeat = h]
        BY <1>12 DEF Tick, OlderSession
      <3> HIDE DEF h
      <3> QED BY <1>1, <3>1 DEF WorkerRow
    <2> QED BY <2>1, <2>2, LeaseKept
  <1>13. CASE \/ \E c \in Coordinator : ReadsOnly(c)
              \/ \E r \in Run : RequestCancel(r)
              \/ UNCHANGED vars
    <2>1. workers' = workers /\ dispatches' = dispatches
      BY <1>13, ReadsOnlyUnchanged DEF RequestCancel, vars
    <2> QED BY <1>3, <2>1
  <1> QED BY <1>5, <1>6, <1>7, <1>8, <1>9, <1>10, <1>11, <1>12, <1>13
          DEF Next, ScanStep, ReadsOnly

(* DrainWorker stops a session only when it holds no lease, Claim gives none *)
(* to a session that is not active, and no renewal moves a lease past the    *)
(* deadline of its attempt.                                                  *)
THEOREM LeasesHeld == Spec => []LeaseInv
  <1>1. Init => LeaseInv
    <2> SUFFICES ASSUME Init, NEW d \in DispatchID PROVE ~Leased(d)
      BY DEF LeaseInv
    <2>1. dispatches[d] = UnusedRow
      BY DEF Init
    <2> QED BY <2>1 DEF Leased, UnusedRow
  <1> QED BY <1>1, NextLeases, RowsAgree, PTL DEF Spec

-----------------------------------------------------------------------------
(* Limits.  A scan counts before it inserts, and another scan may commit in   *)
(* between: what an open scan may still insert (its free places, the Runs it  *)
(* has chosen) is counted with what is active, for every set S of scans that  *)
(* have counted.  The rows that the scans of S will close are left out, for   *)
(* they were left out of what these scans counted; nobody else closes or      *)
(* claims them, for their Runs are locked.                                    *)

ActiveRowSet(D) == {d \in DispatchID : D[d].status \in {"pending", "leased"}}
LeasedTo(D, w) == {d \in DispatchID : D[d].status = "leased" /\ D[d].worker = w}

CountedIn(sc) == {c \in Coordinator : sc[c].at \in {"counted", "chosen"}}
Listed(sc, D, i, d) == d \in sc[i].orphans /\ D[d].status = "pending"

Left(sc, D, S) == {d \in ActiveRowSet(D) : \A i \in S : ~Listed(sc, D, i, d)}
Places(sc, S) == {x \in S \X (1..DispatchLimit) : x[2] <= sc[x[1]].available}

Flying(sc, D, s, r, S) ==
    {t \in InFlight(s) : \A i \in S, k \in RowId : ~Listed(sc, D, i, <<r, t, k>>)}
Chosen(sc, S, r) == {i \in S : r \in sc[i].candidates}

RowBound == Cardinality(Coordinator) * DispatchLimit
RunBound == Concurrency + Cardinality(Coordinator) - 1

RowsFit(sc, D, S) == Cardinality(Left(sc, D, S)) + Cardinality(Places(sc, S)) <= RowBound
RunFits(sc, D, s, r, S) ==
    Cardinality(Flying(sc, D, s, r, S)) + Cardinality(Chosen(sc, S, r)) <= RunBound

(* The inductive invariant behind CapacityInv.                               *)
OverlapInv ==
    /\ \A c \in Coordinator : scan[c].at # "chosen" => scan[c].candidates = {}
    /\ \A S \in SUBSET CountedIn(scan) : RowsFit(scan, dispatches, S)
    /\ \A S \in SUBSET CountedIn(scan), r \in Run : RunFits(scan, dispatches, runs[r], r, S)
    /\ \A w \in Worker : Cardinality(LeasedTo(dispatches, w)) <= MaxConcurrency[w]

\* The bounds are numbers.
LEMMA BoundTypes ==
    /\ Cardinality(Coordinator) \in Nat \ {0} /\ IsFiniteSet(Coordinator)
    /\ DispatchLimit \in Nat /\ Concurrency \in Nat
    /\ RowBound \in Nat /\ RunBound \in Nat
    /\ \A w \in Worker : MaxConcurrency[w] \in Nat
  <1>1. Cardinality(Coordinator) \in Nat /\ Cardinality(Coordinator) # 0
    BY DispatchAssumption, FS_CardinalityType, FS_EmptySet
  <1>2. DispatchLimit \in Nat /\ Concurrency \in Nat \ {0}
        /\ \A w \in Worker : MaxConcurrency[w] \in Nat
    BY DispatchAssumption
  <1>3. \A n, m \in Nat : n * m \in Nat
    OBVIOUS
  <1>4. RowBound \in Nat
    BY <1>1, <1>2, <1>3 DEF RowBound
  <1> QED BY <1>1, <1>2, <1>4, DispatchAssumption DEF RunBound

(* A subset is no larger.                                                    *)
LEMMA NoMore ==
    ASSUME NEW S, NEW T, IsFiniteSet(S), T \subseteq S, NEW n \in Nat, Cardinality(S) <= n
    PROVE  Cardinality(T) <= n
  <1>1. T \in SUBSET S
    OBVIOUS
  <1>2. IsFiniteSet(T) /\ Cardinality(T) <= Cardinality(S)
    BY <1>1, FS_Subset
  <1>3. Cardinality(T) \in Nat /\ Cardinality(S) \in Nat
    BY <1>2, FS_CardinalityType
  <1> QED BY <1>2, <1>3

LEMMA Fewer ==
    ASSUME NEW A, NEW B, NEW P, NEW R, IsFiniteSet(B), IsFiniteSet(R),
           A \subseteq B, P \subseteq R, NEW n \in Nat, Cardinality(B) + Cardinality(R) <= n
    PROVE  Cardinality(A) + Cardinality(P) <= n
  <1>1. A \in SUBSET B /\ P \in SUBSET R
    OBVIOUS
  <1>2. /\ IsFiniteSet(A) /\ Cardinality(A) <= Cardinality(B)
        /\ IsFiniteSet(P) /\ Cardinality(P) <= Cardinality(R)
    BY <1>1, FS_Subset
  <1>3. /\ Cardinality(A) \in Nat /\ Cardinality(B) \in Nat
        /\ Cardinality(P) \in Nat /\ Cardinality(R) \in Nat
    BY <1>2, FS_CardinalityType
  <1> QED BY <1>2, <1>3

\* A union is no larger than its parts together.
LEMMA Together ==
    ASSUME NEW A, NEW B, NEW U, IsFiniteSet(A), IsFiniteSet(B), U \subseteq A \cup B
    PROVE  /\ IsFiniteSet(U) /\ Cardinality(U) \in Nat
           /\ Cardinality(A) \in Nat /\ Cardinality(B) \in Nat
           /\ Cardinality(U) <= Cardinality(A) + Cardinality(B)
  <1>1. IsFiniteSet(A \cup B) /\ IsFiniteSet(A \cap B)
    BY FS_Union, FS_Intersection
  <1>2. Cardinality(A \cup B) = Cardinality(A) + Cardinality(B) - Cardinality(A \cap B)
    BY FS_Union
  <1>3. U \in SUBSET (A \cup B)
    OBVIOUS
  <1>4. IsFiniteSet(U) /\ Cardinality(U) <= Cardinality(A \cup B)
    BY <1>1, <1>3, FS_Subset
  <1>5. /\ Cardinality(A) \in Nat /\ Cardinality(B) \in Nat /\ Cardinality(U) \in Nat
        /\ Cardinality(A \cap B) \in Nat /\ Cardinality(A \cup B) \in Nat
    BY <1>1, <1>4, FS_CardinalityType
  <1> QED BY <1>2, <1>4, <1>5

\* Disjoint sets add up.
LEMMA Disjoint ==
    ASSUME NEW A, NEW B, IsFiniteSet(A), IsFiniteSet(B), A \cap B = {}
    PROVE  /\ Cardinality(A) \in Nat /\ Cardinality(B) \in Nat
           /\ Cardinality(A \cup B) = Cardinality(A) + Cardinality(B)
  <1>1. Cardinality(A \cup B) = Cardinality(A) + Cardinality(B) - Cardinality({})
    BY FS_Union
  <1> QED BY <1>1, FS_EmptySet, FS_CardinalityType

\* These sets are finite.
LEMMA FiniteParts ==
    ASSUME NEW D, NEW w, NEW s, NEW sc, NEW r, NEW S, S \subseteq Coordinator
    PROVE  /\ IsFiniteSet(ActiveRowSet(D)) /\ IsFiniteSet(LeasedTo(D, w))
           /\ IsFiniteSet(InFlight(s))
           /\ IsFiniteSet(Left(sc, D, S)) /\ IsFiniteSet(Places(sc, S))
           /\ IsFiniteSet(Flying(sc, D, s, r, S)) /\ IsFiniteSet(Chosen(sc, S, r))
  <1>1. /\ ActiveRowSet(D) \in SUBSET DispatchID /\ LeasedTo(D, w) \in SUBSET DispatchID
        /\ InFlight(s) \in SUBSET Task /\ Flying(sc, D, s, r, S) \in SUBSET Task
        /\ Left(sc, D, S) \in SUBSET DispatchID
    BY DEF ActiveRowSet, LeasedTo, InFlight, Left, Flying
  <1>2. S \in SUBSET Coordinator /\ Chosen(sc, S, r) \in SUBSET Coordinator
    BY DEF Chosen
  <1>3. IsFiniteSet(S) /\ IsFiniteSet(Chosen(sc, S, r))
    BY <1>2, BoundTypes, FS_Subset
  <1>4. IsFiniteSet(S \X (1..DispatchLimit))
    <2>1. DispatchLimit \in Int /\ 1 \in Int
      BY BoundTypes
    <2>2. IsFiniteSet(1..DispatchLimit)
      BY <2>1, FS_Interval
    <2> QED BY <1>3, <2>2, FS_Product
  <1>5. Places(sc, S) \in SUBSET (S \X (1..DispatchLimit))
    BY DEF Places
  <1>6. IsFiniteSet(Places(sc, S))
    BY <1>4, <1>5, FS_Subset
  <1> QED BY <1>1, <1>3, <1>6, TablesFinite, FS_Subset

\* With no scan left out the invariant is CapacityInv.
LEMMA OverlapCapacity == OverlapInv => CapacityInv
  <1> SUFFICES ASSUME OverlapInv PROVE CapacityInv
    OBVIOUS
  <1>1. {} \in SUBSET CountedIn(scan)
    OBVIOUS
  <1>2. /\ Left(scan, dispatches, {}) = {d \in DispatchID : Active(d)}
        /\ \A r \in Run : Flying(scan, dispatches, runs[r], r, {}) = InFlight(runs[r])
        /\ \A w \in Worker : LeasedTo(dispatches, w) = LeasesOf(w)
    BY DEF Left, ActiveRowSet, Active, Pending, Leased, Flying, LeasedTo, LeasesOf
  <1>3. Places(scan, {}) = {} /\ \A r \in Run : Chosen(scan, {}, r) = {}
    BY DEF Places, Chosen
  <1>4. Cardinality({}) = 0
    BY FS_EmptySet
  <1>5. Cardinality({d \in DispatchID : Active(d)}) <= RowBound
    <2>1. RowsFit(scan, dispatches, {})
      BY <1>1 DEF OverlapInv
    <2>2. Cardinality(Left(scan, dispatches, {})) \in Nat
      BY FiniteParts, FS_CardinalityType
    <2>3. Cardinality(Left(scan, dispatches, {})) + 0 <= RowBound
      BY <1>3, <1>4, <2>1 DEF RowsFit
    <2>4. Cardinality(Left(scan, dispatches, {})) <= RowBound
      BY <2>2, <2>3
    <2> QED BY <1>2, <2>4
  <1>6. ASSUME NEW r \in Run PROVE Cardinality(InFlight(runs[r])) <= RunBound
    <2>1. RunFits(scan, dispatches, runs[r], r, {})
      BY <1>1 DEF OverlapInv
    <2>2. Cardinality(InFlight(runs[r])) \in Nat
      BY FiniteParts, FS_CardinalityType
    <2>3. Cardinality(InFlight(runs[r])) + 0 <= RunBound
      BY <1>2, <1>3, <1>4, <2>1 DEF RunFits
    <2> QED BY <2>2, <2>3
  <1>7. \A w \in Worker : Cardinality(LeasesOf(w)) <= MaxConcurrency[w]
    BY <1>2 DEF OverlapInv
  <1> QED BY <1>5, <1>6, <1>7 DEF CapacityInv, RowBound, RunBound

(* A step that starts no row and puts no task in flight, and leaves alone what *)
(* a scan that has counted knows: the rows it listed and what it counted.    *)
LEMMA LimitsKept ==
    ASSUME OverlapInv,
           \A r \in Run : InFlight(runs'[r]) \subseteq InFlight(runs[r]),
           ActiveRowSet(dispatches') \subseteq ActiveRowSet(dispatches),
           CountedIn(scan') \subseteq CountedIn(scan),
           \A i \in CountedIn(scan') : /\ scan'[i].orphans = scan[i].orphans
                                       /\ scan'[i].available = scan[i].available
                                       /\ scan'[i].candidates = scan[i].candidates,
           \A i \in CountedIn(scan') : \A d \in scan[i].orphans :
               dispatches[d].status = "pending" => dispatches'[d].status = "pending"
    PROVE  /\ \A S \in SUBSET CountedIn(scan') : RowsFit(scan', dispatches', S)
           /\ \A S \in SUBSET CountedIn(scan'), r \in Run :
                 RunFits(scan', dispatches', runs'[r], r, S)
  <1> SUFFICES ASSUME NEW S \in SUBSET CountedIn(scan')
               PROVE  /\ RowsFit(scan', dispatches', S)
                      /\ \A r \in Run : RunFits(scan', dispatches', runs'[r], r, S)
    OBVIOUS
  <1>1. S \in SUBSET CountedIn(scan) /\ S \subseteq Coordinator
    BY DEF CountedIn
  <1>2. \A i \in S : \A d : Listed(scan, dispatches, i, d) => Listed(scan', dispatches', i, d)
    BY DEF Listed
  <1>3. RowsFit(scan', dispatches', S)
    <2>1. Left(scan', dispatches', S) \subseteq Left(scan, dispatches, S)
      BY <1>2 DEF Left
    <2>2. Places(scan', S) \subseteq Places(scan, S)
      BY DEF Places
    <2>3. RowsFit(scan, dispatches, S)
      BY <1>1 DEF OverlapInv
    <2> QED BY <1>1, <2>1, <2>2, <2>3, FiniteParts, BoundTypes, Fewer DEF RowsFit
  <1>4. ASSUME NEW r \in Run PROVE RunFits(scan', dispatches', runs'[r], r, S)
    <2>1. Flying(scan', dispatches', runs'[r], r, S) \subseteq Flying(scan, dispatches, runs[r], r, S)
      BY <1>2 DEF Flying
    <2>2. Chosen(scan', S, r) \subseteq Chosen(scan, S, r)
      BY DEF Chosen
    <2>3. RunFits(scan, dispatches, runs[r], r, S)
      BY <1>1 DEF OverlapInv
    <2> QED BY <1>1, <2>1, <2>2, <2>3, FiniteParts, BoundTypes, Fewer DEF RunFits
  <1> QED BY <1>3, <1>4

(* The same, when the leases of no worker grow.                              *)
LEMMA LimitsAndLeasesKept ==
    ASSUME OverlapInv,
           \A r \in Run : InFlight(runs'[r]) \subseteq InFlight(runs[r]),
           ActiveRowSet(dispatches') \subseteq ActiveRowSet(dispatches),
           \A w \in Worker : LeasedTo(dispatches', w) \subseteq LeasedTo(dispatches, w),
           scan' = scan,
           \A i \in CountedIn(scan) : \A d \in scan[i].orphans :
               dispatches[d].status = "pending" => dispatches'[d].status = "pending"
    PROVE  OverlapInv'
  <1>1. /\ \A S \in SUBSET CountedIn(scan') : RowsFit(scan', dispatches', S)
        /\ \A S \in SUBSET CountedIn(scan'), r \in Run :
              RunFits(scan', dispatches', runs'[r], r, S)
    BY LimitsKept
  <1>2. \A w \in Worker : Cardinality(LeasedTo(dispatches', w)) <= MaxConcurrency[w]
    BY FiniteParts, NoMore, BoundTypes DEF OverlapInv
  <1> QED BY <1>1, <1>2 DEF OverlapInv

(* CountDispatches: the places it finds free are those that neither the rows  *)
(* it counts nor, at worst, the batches of the other scans take.             *)
LEMMA CountLimits ==
    ASSUME RowsInv, OverlapInv, NEW c \in Coordinator, NEW P \in SUBSET Run, CountDispatches(c, P)
    PROVE  OverlapInv'
  <1> DEFINE n == Available(c)
  <1>1. /\ runs' = runs /\ dispatches' = dispatches
        /\ \A i \in Coordinator \ {c} : scan'[i] = scan[i]
        /\ scan[c].at = "listed" /\ scan'[c].available = n
        /\ scan'[c].orphans = scan[c].orphans /\ scan'[c].candidates = scan[c].candidates
    <2> DEFINE k == [kind \in ExecutorKind |-> Capacity(c, kind)]
               at == IF n = 0 \/ \A kind \in ExecutorKind : k[kind] = 0
                     THEN "chosen" ELSE "counted"
    <2>1. /\ scan' = [scan EXCEPT ![c] = [@ EXCEPT !.at = at, !.retries = P,
                                                   !.available = n, !.capacity = k]]
          /\ runs' = runs /\ dispatches' = dispatches /\ scan[c].at = "listed"
      BY DEF CountDispatches
    <2>2. scan \in [Coordinator -> Scan] /\ scan[c] \in Scan
      BY DEF RowsInv, DispatchInv, TypeOK
    <2> HIDE DEF n, k, at
    <2>3. scan'[c] = [scan[c] EXCEPT !.at = at, !.retries = P, !.available = n, !.capacity = k]
      BY <2>1, <2>2
    <2> QED BY <2>1, <2>2, <2>3 DEF Scan
  <1>2. scan[c].candidates = {} /\ n \in 0..DispatchLimit
    BY <1>1, CapacityTypes DEF OverlapInv
  <1> HIDE DEF n
  <1>3. \A i \in Coordinator : scan'[i].at # "chosen" => scan'[i].candidates = {}
    BY <1>1, <1>2 DEF OverlapInv
  <1>4. ASSUME NEW S \in SUBSET CountedIn(scan')
        PROVE  /\ RowsFit(scan', dispatches', S)
               /\ \A r \in Run : RunFits(scan', dispatches', runs'[r], r, S)
    <2> DEFINE O == S \ {c}
    <2>1. S \subseteq Coordinator /\ O \in SUBSET CountedIn(scan) /\ O \subseteq Coordinator
      BY <1>1 DEF CountedIn
    <2>2. \A i \in O : \A d : Listed(scan', dispatches', i, d) <=> Listed(scan, dispatches, i, d)
      BY <1>1, <2>1 DEF Listed
    <2>3. Left(scan', dispatches', S) \subseteq Left(scan, dispatches, O)
      BY <1>1, <2>2 DEF Left
    <2>4. RowsFit(scan, dispatches, O) /\ \A r \in Run : RunFits(scan, dispatches, runs[r], r, O)
      BY <2>1 DEF OverlapInv
    <2>5. ASSUME c \notin S \/ n = 0 PROVE RowsFit(scan', dispatches', S)
      <3>1. Places(scan', S) \subseteq Places(scan, O)
        <4> SUFFICES ASSUME NEW x \in S \X (1..DispatchLimit), x[2] <= scan'[x[1]].available
                     PROVE  x[1] \in O /\ x[2] <= scan[x[1]].available
          BY DEF Places
        <4>1. x[1] \in S /\ x[2] \in 1..DispatchLimit
          OBVIOUS
        <4>2. x[1] # c
          BY <1>1, <2>5, <4>1, BoundTypes
        <4> QED BY <1>1, <2>1, <4>1, <4>2
      <3>2. IsFiniteSet(Left(scan, dispatches, O)) /\ IsFiniteSet(Places(scan, O))
        BY <2>1, FiniteParts
      <3> HIDE DEF O
      <3> QED BY <2>3, <2>4, <3>1, <3>2, BoundTypes, Fewer DEF RowsFit
    <2>6. ASSUME c \in S, n # 0 PROVE RowsFit(scan', dispatches', S)
      <3> DEFINE A == ActiveDispatches(c)
                 L == Left(scan', dispatches', S)
                 Q == Places(scan', S)
                 E == (Coordinator \ {c}) \X (1..DispatchLimit)
                 F == {c} \X (1..n)
      <3>1. L \subseteq A /\ IsFiniteSet(A)
        <4>1. L \subseteq A
          <5> SUFFICES ASSUME NEW d \in L PROVE d \in A
            OBVIOUS
          <5>1. d \in DispatchID /\ dispatches[d].status \in {"pending", "leased"}
            BY <1>1 DEF Left, ActiveRowSet
          <5>2. ~(d \in scan[c].orphans /\ dispatches[d].status = "pending")
            BY <1>1, <2>6 DEF Left, Listed
          <5> QED BY <5>1, <5>2 DEF ActiveDispatches, Orphans, Active, Pending, Leased
        <4>2. A \in SUBSET DispatchID
          BY DEF ActiveDispatches
        <4> QED BY <4>1, <4>2, TablesFinite, FS_Subset
      <3>2. Cardinality(A) \in Nat /\ Cardinality(A) = DispatchLimit - n
        <4>1. Cardinality(A) \in Nat
          BY <3>1, FS_CardinalityType
        <4> HIDE DEF A
        <4>2. n = IF DispatchLimit - Cardinality(A) < 0 THEN 0 ELSE DispatchLimit - Cardinality(A)
          BY DEF Available, n, A
        <4> QED BY <2>6, <4>1, <4>2, BoundTypes
      <3>3. /\ IsFiniteSet(E) /\ IsFiniteSet(F) /\ Cardinality(F) = n
            /\ Cardinality(E) = (Cardinality(Coordinator) - 1) * DispatchLimit
        <4>1. /\ IsFiniteSet(Coordinator \ {c})
              /\ Cardinality(Coordinator \ {c}) = Cardinality(Coordinator) - 1
          BY BoundTypes, FS_RemoveElement
        <4>2. n \in Int /\ 1 \in Int /\ DispatchLimit \in Int /\ n >= 1 /\ DispatchLimit >= 1
          BY <1>2, <2>6, DispatchAssumption
        <4>3. /\ IsFiniteSet(1..DispatchLimit) /\ IsFiniteSet(1..n)
              /\ Cardinality(1..DispatchLimit) = DispatchLimit /\ Cardinality(1..n) = n
          BY <4>2, FS_Interval
        <4>4. IsFiniteSet({c}) /\ Cardinality({c}) = 1
          BY FS_Singleton
        <4>5. IsFiniteSet(F) /\ Cardinality(F) = 1 * n
          BY <4>3, <4>4, FS_Product
        <4>6. IsFiniteSet(E) /\ Cardinality(E) = (Cardinality(Coordinator) - 1) * DispatchLimit
          BY <4>1, <4>3, FS_Product
        <4> QED BY <4>2, <4>5, <4>6
      <3>4. Q \subseteq E \cup F
        <4> SUFFICES ASSUME NEW x \in S \X (1..DispatchLimit), x[2] <= scan'[x[1]].available
                     PROVE  x \in E \cup F
          BY DEF Places
        <4>1. x[1] \in S /\ x[2] \in 1..DispatchLimit /\ x = <<x[1], x[2]>>
          OBVIOUS
        <4>2. CASE x[1] = c
          <5>1. x[2] \in 1..n
            BY <1>1, <1>2, <4>1, <4>2, BoundTypes
          <5> QED BY <4>1, <4>2, <5>1
        <4>3. CASE x[1] # c
          BY <2>1, <4>1, <4>3
        <4> QED BY <4>2, <4>3
      <3> HIDE DEF A, L, Q, E, F
      <3>5. /\ Cardinality(Q) <= Cardinality(E) + Cardinality(F) /\ Cardinality(Q) \in Nat
        BY <3>3, <3>4, Together
      <3>6. Cardinality(L) <= Cardinality(A) /\ Cardinality(L) \in Nat
        <4>1. L \in SUBSET A
          BY <3>1
        <4>2. IsFiniteSet(L) /\ Cardinality(L) <= Cardinality(A)
          BY <3>1, <4>1, FS_Subset
        <4> QED BY <4>2, FS_CardinalityType
      <3>7. \A m, l \in Int : (m - 1) * l = m * l - l
        OBVIOUS
      <3>8. Cardinality(E) = RowBound - DispatchLimit
        BY <3>3, <3>7, BoundTypes DEF RowBound
      <3>9. Cardinality(L) + Cardinality(Q) <= RowBound
        BY <1>2, <3>2, <3>3, <3>5, <3>6, <3>8, BoundTypes
      <3> QED BY <3>9 DEF RowsFit, L, Q
    <2>7. ASSUME NEW r \in Run PROVE RunFits(scan', dispatches', runs'[r], r, S)
      <3>1. Flying(scan', dispatches', runs'[r], r, S) \subseteq Flying(scan, dispatches, runs[r], r, O)
        BY <1>1, <2>2 DEF Flying
      <3>2. Chosen(scan', S, r) \subseteq Chosen(scan, O, r)
        BY <1>1, <1>2, <2>1 DEF Chosen
      <3>3. /\ IsFiniteSet(Flying(scan, dispatches, runs[r], r, O))
            /\ IsFiniteSet(Chosen(scan, O, r))
        BY <2>1, FiniteParts
      <3> HIDE DEF O
      <3> QED BY <2>4, <3>1, <3>2, <3>3, BoundTypes, Fewer DEF RunFits
    <2> QED BY <2>5, <2>6, <2>7
  <1>5. \A w \in Worker : Cardinality(LeasedTo(dispatches', w)) <= MaxConcurrency[w]
    BY <1>1 DEF OverlapInv
  <1> QED BY <1>3, <1>4, <1>5 DEF OverlapInv

(* QueryCandidates: a Run it chooses has a task fewer in flight than its     *)
(* concurrency, and every scan may have chosen it.                           *)
LEMMA QueryLimits ==
    ASSUME RowsInv, OverlapInv, NEW c \in Coordinator, QueryCandidates(c)
    PROVE  OverlapInv'
  <1> DEFINE K == {r \in Run : Candidate(promoted(c, r), r)}
  <1>1. /\ runs' = runs /\ dispatches' = dispatches
        /\ \A i \in Coordinator \ {c} : scan'[i] = scan[i]
        /\ scan[c].at = "counted" /\ scan'[c].at = "chosen" /\ scan'[c].candidates = K
        /\ scan'[c].orphans = scan[c].orphans /\ scan'[c].available = scan[c].available
    <2>1. /\ scan' = [scan EXCEPT ![c] = [@ EXCEPT !.at = "chosen", !.candidates = K]]
          /\ runs' = runs /\ dispatches' = dispatches /\ scan[c].at = "counted"
      BY DEF QueryCandidates
    <2>2. scan \in [Coordinator -> Scan] /\ scan[c] \in Scan
      BY DEF RowsInv, DispatchInv, TypeOK
    <2> HIDE DEF K
    <2> QED BY <2>1, <2>2 DEF Scan
  <1>2. \A i \in Coordinator : scan'[i].at # "chosen" => scan'[i].candidates = {}
    BY <1>1 DEF OverlapInv
  <1>3. CountedIn(scan') = CountedIn(scan) /\ c \in CountedIn(scan)
    BY <1>1 DEF CountedIn
  <1>4. ASSUME NEW S \in SUBSET CountedIn(scan')
        PROVE  RowsFit(scan', dispatches', S)
    <2>1. S \subseteq Coordinator
      BY DEF CountedIn
    <2>2. Left(scan', dispatches', S) = Left(scan, dispatches, S)
      BY <1>1, <2>1 DEF Left, Listed
    <2>3. Places(scan', S) = Places(scan, S)
      BY <1>1, <2>1 DEF Places
    <2> QED BY <1>3, <2>2, <2>3 DEF RowsFit, OverlapInv
  <1>5. ASSUME NEW S \in SUBSET CountedIn(scan'), NEW r \in Run
        PROVE  RunFits(scan', dispatches', runs'[r], r, S)
    <2> DEFINE F == Flying(scan', dispatches', runs'[r], r, S)
               p == promoted(c, r)
    <2>1. S \subseteq Coordinator
      BY DEF CountedIn
    <2>2. F = Flying(scan, dispatches, runs[r], r, S)
      BY <1>1, <2>1 DEF Flying, Listed
    <2>3. CASE c \notin S \/ r \notin K
      <3>1. Chosen(scan', S, r) \subseteq Chosen(scan, S, r)
        BY <1>1, <2>1, <2>3 DEF Chosen
      <3>2. RunFits(scan, dispatches, runs[r], r, S)
        BY <1>3 DEF OverlapInv
      <3> QED BY <2>1, <2>2, <3>1, <3>2, FiniteParts, BoundTypes, Fewer DEF RunFits
    <2>4. CASE c \in S /\ r \in K
      <3>1. \A d \in Orphans(c) : runs[RunOf(d)].task[TaskOf(d)] = "queued"
        BY OrphansQueued
      <3>2. Promoted(runs[r], p, TasksOf(Orphans(c), r))
        BY <3>1, PromotedRuns DEF RowsInv
      <3>3. F \subseteq InFlight(p)
        <4> SUFFICES ASSUME NEW t \in F PROVE t \in InFlight(p)
          OBVIOUS
        <4>1. /\ t \in Task /\ runs[r].task[t] \in {"queued", "running"}
              /\ \A k \in RowId : ~Listed(scan, dispatches, c, <<r, t, k>>)
          BY <2>2, <2>4 DEF Flying, InFlight
        <4>2. t \notin TasksOf(Orphans(c), r)
          BY <4>1 DEF TasksOf, Orphans, Listed, Pending
        <4>3. p.task[t] = runs[r].task[t]
          BY <3>2, <4>1, <4>2 DEF Promoted
        <4> QED BY <4>1, <4>3 DEF InFlight
      <3>4. Cardinality(InFlight(p)) < Concurrency
        BY <2>4 DEF Candidate
      <3>5. Chosen(scan', S, r) \subseteq Coordinator
        BY <2>1 DEF Chosen
      <3>6. Cardinality(InFlight(p)) + Cardinality(Coordinator) <= RunBound
        <4>1. Cardinality(InFlight(p)) \in Nat
          BY FiniteParts, FS_CardinalityType
        <4> HIDE DEF p
        <4> QED BY <3>4, <4>1, BoundTypes DEF RunBound
      <3>7. IsFiniteSet(InFlight(p))
        BY FiniteParts
      <3> HIDE DEF F, p, K
      <3>8. Cardinality(F) + Cardinality(Chosen(scan', S, r)) <= RunBound
        BY <3>3, <3>5, <3>6, <3>7, BoundTypes, Fewer
      <3> QED BY <3>8 DEF RunFits, F
    <2> QED BY <2>3, <2>4
  <1>6. \A w \in Worker : Cardinality(LeasedTo(dispatches', w)) <= MaxConcurrency[w]
    BY <1>1 DEF OverlapInv
  <1> QED BY <1>2, <1>4, <1>5, <1>6 DEF OverlapInv

(* No transaction but its own touches a row that a counted scan has listed:  *)
(* the Run of the row is locked.                                             *)
LEMMA ListedLocked ==
    ASSUME RowsInv, NEW i \in CountedIn(scan), NEW d \in scan[i].orphans
    PROVE  d \in DispatchID /\ ~Unlocked(RunOf(d))
  <1>1. i \in Coordinator /\ i \in Counted
    BY DEF CountedIn, Counted
  <1>2. RunOf(d) \in LockedRuns(i)
    BY <1>1 DEF LockedRuns
  <1>3. d \in DispatchID
    BY <1>1 DEF RowsInv, DispatchInv, TypeOK, Scan
  <1> QED BY <1>1, <1>2, <1>3 DEF Unlocked

(* Claim starts queued tasks on pending rows and fills free slots only.      *)
LEMMA ClaimLimits ==
    ASSUME RowsInv, OverlapInv, NEW w \in Worker, NEW age \in Age,
           NEW C \in SUBSET DispatchID, Claim(w, C, age)
    PROVE  OverlapInv'
  <1>1. scan' = scan
    BY DEF Claim
  <1>2. ASSUME NEW r \in Run PROVE InFlight(runs'[r]) \subseteq InFlight(runs[r])
    <2>1. /\ AttemptsStarted(runs[r], runs'[r], TasksOf(C, r), Claimant(w, C, r))
          /\ \A t \in TasksOf(C, r) : runs[r].task[t] = "queued"
      BY ClaimRuns DEF RowsInv
    <2> QED BY <2>1 DEF AttemptsStarted, InFlight
  <1>3. ASSUME NEW d \in DispatchID
        PROVE  /\ d \in C => /\ dispatches[d].status = "pending"
                             /\ dispatches'[d].status = "leased" /\ dispatches'[d].worker = w
               /\ d \notin C => dispatches'[d] = dispatches[d]
    <2>1. d \in C => dispatches[d].status = "pending"
      BY DEF Claim, Claimable, Pending
    <2>2. d \in C => dispatches'[d] =
              LeasedRow(w, Len(runs[RunOf(d)].attempts[TaskOf(d)]) + 1, TaskOf(d), age)
      BY DEF Claim
    <2>3. d \notin C => dispatches'[d] = dispatches[d]
      BY DEF Claim
    <2> QED BY <2>1, <2>2, <2>3 DEF LeasedRow, UnusedRow
  <1>4. ActiveRowSet(dispatches') \subseteq ActiveRowSet(dispatches)
    BY <1>3 DEF ActiveRowSet
  <1>5. ASSUME NEW i \in CountedIn(scan), NEW d \in scan[i].orphans
        PROVE  dispatches'[d] = dispatches[d]
    <2>1. d \in DispatchID /\ ~Unlocked(RunOf(d))
      BY ListedLocked
    <2>2. d \notin C
      BY <2>1 DEF Claim
    <2> QED BY <1>3, <2>1, <2>2
  <1>6. ASSUME NEW x \in Worker PROVE Cardinality(LeasedTo(dispatches', x)) <= MaxConcurrency[x]
    <2>1. CASE x # w
      <3>1. LeasedTo(dispatches', x) \subseteq LeasedTo(dispatches, x)
        BY <1>3, <2>1 DEF LeasedTo
      <3> QED BY <3>1, FiniteParts, NoMore, BoundTypes DEF OverlapInv
    <2>2. CASE x = w
      <3> DEFINE S == LeasedTo(dispatches, w)
      <3>1. IsFiniteSet(S) /\ IsFiniteSet(C)
        BY FiniteParts, TablesFinite, FS_Subset
      <3>2. LeasedTo(dispatches', w) \subseteq S \cup C
        BY <1>3 DEF LeasedTo
      <3>3. LeasesOf(w) = S
        BY DEF LeasesOf, LeasedTo, Leased
      <3>4. Cardinality(C) <= MaxConcurrency[w] - Cardinality(S)
        BY <3>3 DEF Claim, FreeSlots
      <3> HIDE DEF S
      <3>5. /\ Cardinality(LeasedTo(dispatches', w)) <= Cardinality(S) + Cardinality(C)
            /\ Cardinality(LeasedTo(dispatches', w)) \in Nat
            /\ Cardinality(S) \in Nat /\ Cardinality(C) \in Nat
        BY <3>1, <3>2, Together
      <3> QED BY <2>2, <3>4, <3>5, BoundTypes
    <2> QED BY <2>1, <2>2
  <1>7. /\ \A S \in SUBSET CountedIn(scan') : RowsFit(scan', dispatches', S)
        /\ \A S \in SUBSET CountedIn(scan'), r \in Run :
              RunFits(scan', dispatches', runs'[r], r, S)
    BY <1>1, <1>2, <1>4, <1>5, LimitsKept
  <1> QED BY <1>1, <1>6, <1>7 DEF OverlapInv

(* CreateDispatches takes the places and the Runs its scan had counted on.   *)
LEMMA CreateLimits ==
    ASSUME RowsInv, OverlapInv, NEW c \in Coordinator, NEW Q \in SUBSET Run,
           CreateDispatches(c, Q)
    PROVE  OverlapInv'
  <1>1. /\ scan' = [scan EXCEPT ![c] = NoScan] /\ scan[c].at = "chosen"
        /\ Q \subseteq scan[c].candidates /\ Cardinality(Q) <= scan[c].available
        /\ scan \in [Coordinator -> Scan] /\ scan[c].available \in 0..DispatchLimit
    BY DEF CreateDispatches, Admitted, RowsInv, DispatchInv, TypeOK, Scan
  <1>2. \A i \in Coordinator \ {c} : scan'[i] = scan[i]
    BY <1>1
  <1>3. c \in CountedIn(scan) /\ CountedIn(scan') \subseteq CountedIn(scan) \ {c}
    BY <1>1 DEF CountedIn, NoScan
  <1>4. \A i \in Coordinator : scan'[i].at # "chosen" => scan'[i].candidates = {}
    BY <1>1 DEF OverlapInv, NoScan
  <1>5. ASSUME NEW d \in DispatchID
        PROVE  /\ d \in Orphans(c) => dispatches'[d].status = "canceled"
               /\ Inserted(d, c, Q) => /\ dispatches[d].status = "none"
                                       /\ dispatches'[d].status = "pending"
               /\ d \notin Orphans(c) /\ ~Inserted(d, c, Q) => dispatches'[d] = dispatches[d]
    <2>1. /\ d \in Orphans(c) => dispatches'[d] = ClosedRow(dispatches[d], "canceled", "none")
          /\ Inserted(d, c, Q) => /\ dispatches[d].status = "none"
                                  /\ dispatches'[d] = PendingRow(scan[c].age)
          /\ d \notin Orphans(c) /\ ~Inserted(d, c, Q) => dispatches'[d] = dispatches[d]
      BY CreatedRows DEF RowsInv
    <2>2. ClosedRow(dispatches[d], "canceled", "none").status = "canceled"
      BY ClosedFacts DEF RowsInv, DispatchInv, TypeOK
    <2>3. PendingRow(scan[c].age).status = "pending"
      BY DEF PendingRow, UnusedRow
    <2> QED BY <2>1, <2>2, <2>3
  <1>6. \A x \in Worker : Cardinality(LeasedTo(dispatches', x)) <= MaxConcurrency[x]
    <2>1. \A x \in Worker : LeasedTo(dispatches', x) \subseteq LeasedTo(dispatches, x)
      BY <1>5 DEF LeasedTo
    <2> QED BY <2>1, FiniteParts, NoMore, BoundTypes DEF OverlapInv
  <1>7. ASSUME NEW S \in SUBSET CountedIn(scan')
        PROVE  /\ S \cup {c} \in SUBSET CountedIn(scan) /\ S \cup {c} \subseteq Coordinator
               /\ S \subseteq Coordinator \ {c}
               /\ \A d \in DispatchID : \A i \in S \cup {c} :
                     Listed(scan, dispatches, i, d) =>
                        \/ d \in Orphans(c)
                        \/ i \in S /\ Listed(scan', dispatches', i, d)
    <2>1. /\ S \cup {c} \in SUBSET CountedIn(scan) /\ S \cup {c} \subseteq Coordinator
          /\ S \subseteq Coordinator \ {c}
      BY <1>3 DEF CountedIn
    <2>2. ASSUME NEW d \in DispatchID, NEW i \in S \cup {c}, Listed(scan, dispatches, i, d),
                 d \notin Orphans(c)
          PROVE  i \in S /\ Listed(scan', dispatches', i, d)
      <3>1. i # c
        BY <2>2 DEF Listed, Orphans, Pending
      <3>2. i \in S /\ scan'[i] = scan[i]
        BY <1>2, <2>1, <3>1
      <3>3. dispatches[d].status = "pending"
        BY <2>2 DEF Listed
      <3>4. dispatches'[d] = dispatches[d]
        BY <1>5, <2>2, <3>3
      <3> QED BY <2>2, <3>2, <3>4 DEF Listed
    <2> QED BY <2>1, <2>2
  <1>8. ASSUME NEW S \in SUBSET CountedIn(scan') PROVE RowsFit(scan', dispatches', S)
    <2> DEFINE U == S \cup {c}
               new == [r \in Q |-> NewDispatch(promoted(c, r), r)]
               N == {new[r] : r \in Q}
               L == Left(scan, dispatches, U)
               M == Left(scan', dispatches', S)
               a == scan[c].available
               F == {c} \X (1..a)
    <2>1. M \subseteq L \cup N
      <3> SUFFICES ASSUME NEW d \in M PROVE d \in L \cup N
        OBVIOUS
      <3>1. /\ d \in DispatchID /\ dispatches'[d].status \in {"pending", "leased"}
            /\ \A i \in S : ~Listed(scan', dispatches', i, d)
        BY DEF Left, ActiveRowSet
      <3>2. CASE Inserted(d, c, Q)
        <4>1. RunOf(d) \in Q /\ d = new[RunOf(d)]
          BY <3>2 DEF Inserted
        <4> QED BY <4>1
      <3>3. CASE ~Inserted(d, c, Q)
        <4>1. d \notin Orphans(c) /\ dispatches'[d] = dispatches[d]
          BY <1>5, <3>1, <3>3
        <4>2. \A i \in U : ~Listed(scan, dispatches, i, d)
          BY <1>7, <3>1, <4>1
        <4> QED BY <3>1, <4>1, <4>2 DEF Left, ActiveRowSet
      <3> QED BY <3>2, <3>3
    <2>2. IsFiniteSet(N) /\ Cardinality(N) \in Nat /\ Cardinality(N) <= a
      <3>1. IsFiniteSet(Q)
        BY DispatchAssumption, FS_Subset
      <3>2. new \in Surjection(Q, N)
        BY DEF Surjection
      <3> HIDE DEF new, N
      <3>3. IsFiniteSet(N) /\ Cardinality(N) <= Cardinality(Q)
        BY <3>1, <3>2, FS_Surjection
      <3>4. Cardinality(N) \in Nat /\ Cardinality(Q) \in Nat
        BY <3>1, <3>3, FS_CardinalityType
      <3> QED BY <1>1, <3>3, <3>4, BoundTypes
    <2>3. IsFiniteSet(L) /\ IsFiniteSet(Places(scan', S))
      BY <1>7, FiniteParts
    <2>4. /\ Cardinality(M) <= Cardinality(L) + Cardinality(N)
          /\ Cardinality(M) \in Nat /\ Cardinality(L) \in Nat
      <3> HIDE DEF L, M, N
      <3> QED BY <2>1, <2>2, <2>3, Together
    <2>5. Cardinality(Places(scan, U)) = Cardinality(Places(scan', S)) + a
          /\ Cardinality(Places(scan', S)) \in Nat
      <3>1. Places(scan, U) = Places(scan', S) \cup F
        <4>1. ASSUME NEW x \in Places(scan, U) PROVE x \in Places(scan', S) \cup F
          <5>1. PICK i \in U, m \in 1..DispatchLimit : x = <<i, m>>
            BY DEF Places
          <5>2. m <= scan[i].available
            BY <5>1 DEF Places
          <5>3. CASE i = c
            <6>1. m \in 1..a
              BY <1>1, <5>2, <5>3, BoundTypes
            <6> QED BY <5>1, <5>3, <6>1
          <5>4. CASE i # c
            <6>1. i \in S /\ scan'[i] = scan[i]
              BY <1>2, <1>7, <5>4
            <6> QED BY <5>1, <5>2, <6>1 DEF Places
          <5> QED BY <5>3, <5>4
        <4>2. ASSUME NEW x \in Places(scan', S) PROVE x \in Places(scan, U)
          <5>1. PICK i \in S, m \in 1..DispatchLimit : x = <<i, m>>
            BY DEF Places
          <5>2. scan'[i] = scan[i] /\ i \in U
            BY <1>2, <1>7
          <5>3. m <= scan[i].available
            BY <5>1, <5>2 DEF Places
          <5> QED BY <5>1, <5>2, <5>3 DEF Places
        <4>3. ASSUME NEW x \in F PROVE x \in Places(scan, U)
          <5>1. PICK m \in 1..a : x = <<c, m>>
            OBVIOUS
          <5>2. m \in 1..DispatchLimit /\ m <= scan[c].available
            BY <1>1, BoundTypes
          <5> QED BY <5>1, <5>2 DEF Places
        <4> QED BY <4>1, <4>2, <4>3
      <3>2. Places(scan', S) \cap F = {}
        BY <1>7 DEF Places
      <3>3. IsFiniteSet(F) /\ Cardinality(F) = a
        <4>1. a \in Nat /\ 1 \in Int /\ a \in Int
          BY <1>1, BoundTypes
        <4> HIDE DEF a
        <4>2. IsFiniteSet(1..a) /\ Cardinality(1..a) = a
          BY <4>1, FS_Interval
        <4>3. IsFiniteSet({c}) /\ Cardinality({c}) = 1
          BY FS_Singleton
        <4>4. IsFiniteSet(F) /\ Cardinality(F) = 1 * a
          BY <4>2, <4>3, FS_Product
        <4> QED BY <4>1, <4>4
      <3> HIDE DEF F, U
      <3> QED BY <2>3, <3>1, <3>2, <3>3, Disjoint
    <2>6. Cardinality(L) + Cardinality(Places(scan, U)) <= RowBound
      BY <1>7 DEF OverlapInv, RowsFit
    <2>7. a \in Nat
      BY <1>1, BoundTypes
    <2> HIDE DEF L, M, N, U, a
    <2>8. Cardinality(M) + Cardinality(Places(scan', S)) <= RowBound
      BY <2>2, <2>4, <2>5, <2>6, <2>7, BoundTypes
    <2> QED BY <2>8 DEF RowsFit, M
  <1>9. ASSUME NEW S \in SUBSET CountedIn(scan'), NEW r \in Run
        PROVE  RunFits(scan', dispatches', runs'[r], r, S)
    <2> DEFINE U == S \cup {c}
               p == promoted(c, r)
               t0 == First(ReadyTasks(p))
               L == Flying(scan, dispatches, runs[r], r, U)
               M == Flying(scan', dispatches', runs'[r], r, S)
               K == Chosen(scan', S, r)
               J == Chosen(scan, U, r)
    <2>1. /\ Promoted(runs[r], p, TasksOf(Orphans(c), r))
          /\ Queued(p, runs'[r], r \in Q)
      BY CreateRuns DEF RowsInv
    <2>2. ASSUME NEW t \in M, t \in InFlight(p) PROVE t \in L
      <3>1. /\ t \in Task /\ p.task[t] \in {"queued", "running"}
            /\ \A i \in S, k \in RowId : ~Listed(scan', dispatches', i, <<r, t, k>>)
        BY <2>2 DEF Flying, InFlight
      <3>2. t \notin TasksOf(Orphans(c), r)
        BY <2>1, <3>1 DEF Promoted
      <3>3. t \in InFlight(runs[r])
        BY <2>1, <3>1, <3>2 DEF Promoted, InFlight
      <3>4. ASSUME NEW i \in U, NEW k \in RowId PROVE ~Listed(scan, dispatches, i, <<r, t, k>>)
        <4>1. <<r, t, k>> \in DispatchID
          BY <3>1 DEF DispatchID
        <4>2. <<r, t, k>> \notin Orphans(c)
          BY <3>1, <3>2 DEF TasksOf
        <4> QED BY <1>7, <3>1, <4>1, <4>2
      <3> QED BY <3>3, <3>4 DEF Flying
    <2>3. /\ IsFiniteSet(L) /\ IsFiniteSet(K) /\ IsFiniteSet(J)
      BY <1>7, FiniteParts
    <2>4. K \subseteq J /\ c \notin K
      BY <1>2, <1>7 DEF Chosen
    <2>5. Cardinality(L) + Cardinality(J) <= RunBound
      BY <1>7 DEF OverlapInv, RunFits
    <2>6. ASSUME r \notin Q PROVE Cardinality(M) + Cardinality(K) <= RunBound
      <3>1. runs'[r] = p
        BY <2>1, <2>6 DEF Queued
      <3>2. M \subseteq L
        BY <2>2, <3>1 DEF Flying
      <3> HIDE DEF L, M, K, J
      <3> QED BY <2>3, <2>4, <2>5, <3>2, BoundTypes, Fewer
    <2>7. ASSUME r \in Q PROVE Cardinality(M) + Cardinality(K) <= RunBound
      <3>1. M \subseteq L \cup {t0}
        <4> SUFFICES ASSUME NEW t \in M, t # t0 PROVE t \in L
          OBVIOUS
        <4>1. t \in Task /\ runs'[r].task[t] \in {"queued", "running"}
          BY DEF Flying, InFlight
        <4>2. t \in InFlight(p)
          BY <2>1, <2>7, <4>1 DEF Queued, InFlight
        <4> QED BY <2>2, <4>2
      <3>2. c \in J
        BY <1>1, <2>7 DEF Chosen
      <3>3. IsFiniteSet({t0}) /\ Cardinality({t0}) = 1 /\ IsFiniteSet({c}) /\ Cardinality({c}) = 1
        BY FS_Singleton
      <3> HIDE DEF L, M, K, J, t0
      <3>4. /\ Cardinality(M) <= Cardinality(L) + 1
            /\ Cardinality(M) \in Nat /\ Cardinality(L) \in Nat
        BY <2>3, <3>1, <3>3, Together
      <3>5. Cardinality(K) + 1 <= Cardinality(J) /\ Cardinality(K) \in Nat /\ Cardinality(J) \in Nat
        <4>1. K \cap {c} = {} /\ K \cup {c} \in SUBSET J
          BY <2>4, <3>2
        <4>2. Cardinality(K \cup {c}) = Cardinality(K) + 1 /\ Cardinality(K) \in Nat
          BY <2>3, <3>3, <4>1, Disjoint
        <4>3. Cardinality(K \cup {c}) <= Cardinality(J) /\ Cardinality(J) \in Nat
          BY <2>3, <4>1, FS_Subset, FS_CardinalityType
        <4> QED BY <4>2, <4>3
      <3> QED BY <2>5, <3>4, <3>5, BoundTypes
    <2>8. Cardinality(M) + Cardinality(K) <= RunBound
      BY <2>6, <2>7
    <2> QED BY <2>8 DEF RunFits
  <1> QED BY <1>4, <1>6, <1>8, <1>9 DEF OverlapInv

(* A step that closes rows and keeps the others.                             *)
LEMMA RowsClosed ==
    ASSUME \A d \in DispatchID :
              \/ /\ dispatches'[d].status = dispatches[d].status
                 /\ dispatches'[d].worker = dispatches[d].worker
              \/ dispatches'[d].status \notin {"pending", "leased"}
    PROVE  /\ ActiveRowSet(dispatches') \subseteq ActiveRowSet(dispatches)
           /\ \A w \in Worker : LeasedTo(dispatches', w) \subseteq LeasedTo(dispatches, w)
  BY DEF ActiveRowSet, LeasedTo

\* Ending attempts puts no task in flight.
LEMMA EndedInFlight ==
    ASSUME NEW s, NEW u, NEW T, NEW outcome, Resolved(s, u, T, outcome)
    PROVE  InFlight(u) \subseteq InFlight(s)
  <1> SUFFICES ASSUME NEW t \in Task, u.task[t] \in {"queued", "running"}
               PROVE  s.task[t] \in {"queued", "running"}
    BY DEF InFlight
  <1> QED BY DEF Resolved

\* Every step keeps what the scans have counted on.
LEMMA NextLimits == RowsInv /\ OverlapInv /\ [Next]_vars => OverlapInv'
  <1> SUFFICES ASSUME RowsInv, OverlapInv, [Next]_vars PROVE OverlapInv'
    OBVIOUS
  <1>1. /\ \A d \in DispatchID : dispatches[d] \in Row
        /\ dispatches \in [DispatchID -> Row] /\ scan \in [Coordinator -> Scan]
        /\ runs \in [Run -> Snapshot(Owner)] /\ DispatchInv
    BY DEF RowsInv, DispatchInv, TypeOK
  <1>2. ASSUME NEW status \in {"completed", "expired", "canceled"}, NEW result, scan' = scan,
               \A d \in DispatchID :
                   \/ dispatches'[d] = dispatches[d]
                   \/ /\ dispatches'[d] = ClosedRow(dispatches[d], status, result)
                      /\ dispatches[d].status = "pending" => Unlocked(RunOf(d)),
               \A r \in Run : InFlight(runs'[r]) \subseteq InFlight(runs[r])
        PROVE  OverlapInv'
    <2>1. \A d \in DispatchID : ClosedRow(dispatches[d], status, result).status = status
      BY <1>1, ClosedFacts
    <2>2. \A d \in DispatchID :
              \/ /\ dispatches'[d].status = dispatches[d].status
                 /\ dispatches'[d].worker = dispatches[d].worker
              \/ dispatches'[d].status \notin {"pending", "leased"}
      BY <1>2, <2>1
    <2>3. \A i \in CountedIn(scan) : \A d \in scan[i].orphans :
              dispatches[d].status = "pending" => dispatches'[d].status = "pending"
      BY <1>2, ListedLocked
    <2> QED BY <1>2, <2>2, <2>3, RowsClosed, LimitsAndLeasesKept
  <1>3. ASSUME NEW w \in Worker, NEW age \in Age,
               NEW C \in SUBSET {d \in DispatchID : Claimable(d, w)}, Claim(w, C, age)
        PROVE  OverlapInv'
    <2>1. C \in SUBSET DispatchID
      OBVIOUS
    <2> QED BY <1>3, <2>1, ClaimLimits
  <1>4. ASSUME NEW w \in Worker, NEW age \in Age, NEW d \in DispatchID, NEW kind \in ResultKind,
               Complete(w, d, kind, age)
        PROVE  OverlapInv'
    <2>1. scan' = scan /\ \A x \in DispatchID :
            \/ dispatches'[x] = dispatches[x]
            \/ /\ dispatches'[x] = ClosedRow(dispatches[x], "completed", kind)
               /\ dispatches[x].status = "pending" => Unlocked(RunOf(x))
      BY <1>1, <1>4 DEF Complete, LeaseAlive
    <2>2. /\ RunOf(d) \in Run /\ runs' = [runs EXCEPT ![RunOf(d)] = runs'[RunOf(d)]]
          /\ Resolved(runs[RunOf(d)], runs'[RunOf(d)], {TaskOf(d)}, EndsAs(TaskOf(d), kind))
      BY <1>1, <1>4, CompleteRuns
    <2>3. InFlight(runs'[RunOf(d)]) \subseteq InFlight(runs[RunOf(d)])
      BY <2>2, EndedInFlight
    <2>4. ASSUME NEW r \in Run PROVE InFlight(runs'[r]) \subseteq InFlight(runs[r])
      <3>1. r = RunOf(d) \/ runs'[r] = runs[r]
        BY <1>1, <2>2
      <3> QED BY <2>3, <3>1
    <2> QED BY <1>2, <2>1, <2>4
  <1>5. ASSUME NEW age \in Age,
               NEW X \in SUBSET {d \in DispatchID : Expired(dispatches[d], 0 - age)},
               ReapExpired(X, age)
        PROVE  OverlapInv'
    <2>1. scan' = scan /\ \A d \in DispatchID :
            \/ dispatches'[d] = dispatches[d]
            \/ /\ dispatches'[d] = ClosedRow(dispatches[d], "expired", "none")
               /\ dispatches[d].status = "pending" => Unlocked(RunOf(d))
      BY <1>5 DEF ReapExpired
    <2>2. ASSUME NEW r \in Run PROVE InFlight(runs'[r]) \subseteq InFlight(runs[r])
      <3>1. X \in SUBSET DispatchID
        OBVIOUS
      <3>2. \/ runs'[r] = runs[r]
            \/ Resolved(runs[r], runs'[r], TasksOf(X, r), Settled(X, r))
        BY <1>1, <1>5, <3>1, ReapRuns
      <3> QED BY <3>2, EndedInFlight
    <2> QED BY <1>2, <2>1, <2>2
  <1>6. ASSUME NEW c \in Coordinator, NEW Q \in SUBSET Run, CreateDispatches(c, Q)
        PROVE  OverlapInv'
    BY <1>6, CreateLimits
  <1>7. ASSUME NEW r \in Run, CancelRun(r) PROVE OverlapInv'
    <2>1. scan' = scan /\ \A d \in DispatchID :
            \/ dispatches'[d] = dispatches[d]
            \/ /\ dispatches'[d] = ClosedRow(dispatches[d], "canceled", "none")
               /\ dispatches[d].status = "pending" => Unlocked(RunOf(d))
      BY <1>7 DEF CancelRun
    <2>2. AllCanceled(runs[r], runs'[r]) /\ runs' = [runs EXCEPT ![r] = runs'[r]]
      BY <1>1, <1>7, CancelRuns
    <2>3. ASSUME NEW x \in Run PROVE InFlight(runs'[x]) \subseteq InFlight(runs[x])
      <3>1. CASE x = r
        BY <2>2, <3>1 DEF AllCanceled, InFlight
      <3>2. CASE x # r
        BY <1>1, <2>2, <3>2
      <3> QED BY <3>1, <3>2
    <2> QED BY <1>2, <2>1, <2>3
  <1>8. ASSUME \A r \in Run : runs'[r].task = runs[r].task,
               \A d \in DispatchID : /\ dispatches'[d].status = dispatches[d].status
                                     /\ dispatches'[d].worker = dispatches[d].worker,
               \A i \in Coordinator :
                  \/ scan'[i].at \notin {"counted", "chosen"} /\ scan'[i].candidates = {}
                  \/ /\ scan'[i].at = scan[i].at /\ scan'[i].orphans = scan[i].orphans
                     /\ scan'[i].available = scan[i].available
                     /\ scan'[i].candidates = scan[i].candidates
        PROVE  OverlapInv'
    <2>1. \A r \in Run : InFlight(runs'[r]) \subseteq InFlight(runs[r])
      BY <1>8 DEF InFlight
    <2>2. CountedIn(scan') \subseteq CountedIn(scan)
      BY <1>8 DEF CountedIn
    <2>3. \A i \in CountedIn(scan') : /\ scan'[i].orphans = scan[i].orphans
                                      /\ scan'[i].available = scan[i].available
                                      /\ scan'[i].candidates = scan[i].candidates
      BY <1>8 DEF CountedIn
    <2>4. \A i \in CountedIn(scan') : \A d \in scan[i].orphans :
              dispatches[d].status = "pending" => dispatches'[d].status = "pending"
      BY <1>8, <2>2, ListedLocked
    <2>5. /\ ActiveRowSet(dispatches') \subseteq ActiveRowSet(dispatches)
          /\ \A w \in Worker : LeasedTo(dispatches', w) \subseteq LeasedTo(dispatches, w)
      BY <1>8, RowsClosed
    <2>6. /\ \A S \in SUBSET CountedIn(scan') : RowsFit(scan', dispatches', S)
          /\ \A S \in SUBSET CountedIn(scan'), r \in Run :
                RunFits(scan', dispatches', runs'[r], r, S)
      BY <2>1, <2>2, <2>3, <2>4, <2>5, LimitsKept
    <2>7. \A w \in Worker : Cardinality(LeasedTo(dispatches', w)) <= MaxConcurrency[w]
      BY <2>5, FiniteParts, NoMore, BoundTypes DEF OverlapInv
    <2>8. \A c \in Coordinator : scan'[c].at # "chosen" => scan'[c].candidates = {}
      BY <1>8 DEF OverlapInv
    <2> QED BY <2>6, <2>7, <2>8 DEF OverlapInv
  <1>9. ASSUME NEW w, NEW age, NEW L, Heartbeat(w, L, age) PROVE OverlapInv'
    <2>1. ASSUME NEW d \in DispatchID
          PROVE  /\ dispatches'[d].status = dispatches[d].status
                 /\ dispatches'[d].worker = dispatches[d].worker
      <3> DEFINE l == LeaseUntil(dispatches[d].deadline, age)
      <3>1. \/ dispatches'[d] = [dispatches[d] EXCEPT !.lease = l]
            \/ dispatches'[d] = dispatches[d]
        BY <1>9 DEF Heartbeat
      <3> HIDE DEF l
      <3>2. dispatches[d] \in Row
        BY <1>1
      <3> QED BY <3>1, <3>2 DEF Row
    <2>2. runs' = runs /\ scan' = scan
      BY <1>9 DEF Heartbeat
    <2> QED BY <1>8, <2>1, <2>2
  <1>10. CASE Tick
    <2>1. ASSUME NEW r \in Run PROVE runs'[r].task = runs[r].task
      BY <1>1, <1>10, OlderKeeps DEF Tick
    <2>2. \A d \in DispatchID : /\ dispatches'[d].status = dispatches[d].status
                                /\ dispatches'[d].worker = dispatches[d].worker
      BY <1>1, <1>10, TimesOnly DEF Tick
    <2>3. ASSUME NEW i \in Coordinator
          PROVE  /\ scan'[i].at = scan[i].at /\ scan'[i].orphans = scan[i].orphans
                 /\ scan'[i].available = scan[i].available
                 /\ scan'[i].candidates = scan[i].candidates
      <3>1. scan[i] \in Scan
        BY <1>1
      <3>2. scan'[i] = scan[i] \/ scan'[i] = [scan[i] EXCEPT !.age = scan[i].age + 1]
        BY <1>10 DEF Tick
      <3> QED BY <3>1, <3>2 DEF Scan
    <2> QED BY <1>8, <2>1, <2>2, <2>3
  <1>11. ASSUME NEW c \in Coordinator, ReadsOnly(c) PROVE OverlapInv'
    <2>1. runs' = runs /\ dispatches' = dispatches
      BY <1>11, ReadsOnlyUnchanged
    <2>2. CASE BeginScan(c) \/ AbortScan(c)
      <3>1. /\ scan' = [scan EXCEPT ![c] = scan'[c]]
            /\ scan'[c].at \in {"idle", "listed"} /\ scan'[c].candidates = {}
        <4>1. CASE BeginScan(c)
          <5>1. PICK O : scan' = [scan EXCEPT ![c] = [NoScan EXCEPT !.at = "listed", !.orphans = O]]
            BY <4>1 DEF BeginScan
          <5> QED BY <1>1, <5>1 DEF NoScan
        <4>2. CASE AbortScan(c)
          BY <1>1, <4>2 DEF AbortScan, NoScan
        <4> QED BY <2>2, <4>1, <4>2
      <3>2. \A i \in Coordinator : i = c \/ scan'[i] = scan[i]
        BY <1>1, <3>1
      <3> QED BY <1>8, <2>1, <3>1, <3>2
    <2> QED BY <1>11, <2>2, CountLimits, QueryLimits DEF ReadsOnly
  <1>12. CASE \/ \E w \in Worker : RegisterWorker(w) \/ DrainWorker(w)
              \/ \E r \in Run : RequestCancel(r)
              \/ UNCHANGED vars
    <2>1. runs' = runs /\ dispatches' = dispatches /\ scan' = scan
      BY <1>12 DEF RegisterWorker, DrainWorker, RequestCancel, vars
    <2> QED BY <1>8, <2>1
  <1> QED BY <1>3, <1>4, <1>5, <1>6, <1>7, <1>9, <1>10, <1>11, <1>12
          DEF Next, ScanStep, ReadsOnly

(* The slots of a worker are never exceeded.  The concurrency of a definition *)
(* and the coordinator's limit, which CreateDispatches counts without a lock *)
(* before it inserts, are exceeded by no more than the scans that may        *)
(* overlap: one task of a Run and one batch of rows for each coordinator     *)
(* beyond the first, and not at all while only one process scans.            *)
THEOREM LimitsHold == Spec => []CapacityInv
  <1>1. Init => OverlapInv
    <2> SUFFICES ASSUME Init PROVE OverlapInv
      OBVIOUS
    <2>1. \A d \in DispatchID : dispatches[d].status = "none"
      BY DEF Init, UnusedRow
    <2>2. \A w \in Worker : LeasedTo(dispatches, w) = {}
      BY <2>1 DEF LeasedTo
    <2>3. CountedIn(scan) = {} /\ \A c \in Coordinator : scan[c].candidates = {}
      BY DEF Init, NoScan, CountedIn
    <2>4. Left(scan, dispatches, {}) = {} /\ Places(scan, {}) = {}
      BY <2>1 DEF Left, ActiveRowSet, Places
    <2>5. \A r \in Run : Flying(scan, dispatches, runs[r], r, {}) = {} /\ Chosen(scan, {}, r) = {}
      BY DEF Init, newRunSnapshot, Flying, InFlight, Chosen
    <2>6. Cardinality({}) = 0 /\ 0 + 0 = 0 /\ 0 <= RowBound /\ 0 <= RunBound
          /\ \A w \in Worker : 0 <= MaxConcurrency[w]
      BY FS_EmptySet, BoundTypes
    <2>7. RowsFit(scan, dispatches, {}) /\ \A r \in Run : RunFits(scan, dispatches, runs[r], r, {})
      BY <2>4, <2>5, <2>6 DEF RowsFit, RunFits
    <2>8. \A w \in Worker : Cardinality(LeasedTo(dispatches, w)) <= MaxConcurrency[w]
      BY <2>2, <2>6
    <2> QED BY <2>3, <2>7, <2>8 DEF OverlapInv
  <1> QED BY <1>1, NextLimits, OverlapCapacity, RowsAgree, PTL DEF Spec
=============================================================================
