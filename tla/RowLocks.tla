------------------------------- MODULE RowLocks -------------------------------
(***************************************************************************)
(* The dispatch transactions of internal/postgres one row lock at a time.  *)
(* Dispatch takes each of them as one step; here they hold FOR UPDATE      *)
(* locks on Run, dispatch and session rows until they commit, wait for     *)
(* each other, skip locked rows where the query says SKIP LOCKED, and are  *)
(* chosen as the victim of a circular wait.  A row is read again once its  *)
(* lock is there, and what a transaction writes becomes visible when it    *)
(* commits.  Time is left out: a lease may be found expired, a session     *)
(* silent and a kind of executor without workers at any moment, and a      *)
(* session that was found silent is not told apart from one that lives.    *)
(***************************************************************************)
EXTENDS Integers, Sequences, FiniteSets, SequencesExt

CONSTANTS
    Run,
    Worker,
    NumDispatches,      \* rows of task_dispatches over a behaviour
    RunOf,              \* the Run of each of them
    MaxConcurrency,     \* slots of a worker
    None

Dispatch == 1..NumDispatches

ASSUME RowLocksAssumption ==
    /\ NumDispatches \in Nat
    /\ RunOf \in [Dispatch -> Run]
    /\ MaxConcurrency \in Nat \ {0}
    /\ None \notin Run \cup Worker
    /\ IsFiniteSet(Run) /\ IsFiniteSet(Worker)
    /\ Run \cap Worker = {} /\ (Run \cup Worker) \cap Dispatch = {}   \* rows of three tables

Row == Run \cup Worker \cup Dispatch

(* Who opens transactions: a worker's heartbeat and its claim loop, the      *)
(* report of each lease's result, a cancellation over HTTP, and the          *)
(* coordinator's scan, each one transaction at a time.                       *)
Heartbeat(w) == <<"heartbeat", w>>
Claim(w) == <<"claim", w>>
Complete(d) == <<"complete", d>>
CancelHandler(r) == <<"cancel", r>>
Scan == <<"scan", None>>

Client == {Heartbeat(w) : w \in Worker} \cup {Claim(w) : w \in Worker}
          \cup {Complete(d) : d \in Dispatch} \cup {CancelHandler(r) : r \in Run} \cup {Scan}

ASSUME ClientAssumption == None \notin Client

VARIABLES
    status,     \* committed status of each dispatch row, "none" before its INSERT
    run,        \* committed state of each Run, as far as cancellation goes
    carried,    \* the leases in a worker's memory, which its heartbeats list
    owner,      \* who holds the FOR UPDATE lock of a row
    tx,         \* the open transaction of a client
    overtaken   \* clients whose loaded Run another transaction has written since

vars == <<status, run, carried, owner, tx, overtaken>>

(* at: the statement that comes next; wait: the rows the current statements  *)
(* still have to lock, in their order; rows: the dispatch rows the           *)
(* transaction is about; loaded: the Runs whose snapshot it has read.        *)
NoTx == [at |-> "idle", wait |-> <<>>, rows |-> {}, loaded |-> {}]

Tx == [at : {"idle", "request", "rows", "load", "pick", "expired", "reap",
             "create", "orphans", "insert", "commit"},
       wait : Seq(Row), rows : SUBSET Dispatch, loaded : SUBSET Run]

TypeOK ==
    /\ status \in [Dispatch -> {"none", "pending", "leased", "closed"}]
    /\ run \in [Run -> {"open", "canceling", "canceled"}]
    /\ carried \in [Worker -> SUBSET Dispatch]
    /\ owner \in [Row -> Client \cup {None}]
    /\ tx \in [Client -> Tx]
    /\ overtaken \subseteq Client

Init ==
    /\ status = [d \in Dispatch |-> "none"]
    /\ run = [r \in Run |-> "open"]
    /\ carried = [w \in Worker |-> {}]
    /\ owner = [x \in Row |-> None]
    /\ tx = [c \in Client |-> NoTx]
    /\ overtaken = {}

-----------------------------------------------------------------------------
(* Locks.                                                                    *)

Mine(c, x) == owner[x] \in {None, c}

Running(c, at) == tx[c].at = at /\ tx[c].wait = <<>>

Active(r) == {d \in Dispatch : RunOf[d] = r /\ status[d] \in {"pending", "leased"}}

RunsOf(D) == {RunOf[d] : d \in D}

(* A client that is between two transactions opens the next with its first   *)
(* lock.  While it waits for that one it holds nothing and nobody waits for  *)
(* it, so such a transaction counts as not begun.                            *)
Open(c, at, first, wait, rows) ==
    /\ Mine(c, first)
    /\ owner' = [owner EXCEPT ![first] = c]
    /\ tx' = [tx EXCEPT ![c] = [NoTx EXCEPT !.at = at, !.wait = wait, !.rows = rows]]
    /\ UNCHANGED <<status, run, carried, overtaken>>

\* The next row of a FOR UPDATE statement, as soon as nobody else holds it.
Lock(c) ==
    /\ tx[c].wait # <<>>
    /\ Mine(c, Head(tx[c].wait))
    /\ owner' = [owner EXCEPT ![Head(tx[c].wait)] = c]
    /\ tx' = [tx EXCEPT ![c].wait = Tail(@)]
    /\ UNCHANGED <<status, run, carried, overtaken>>

\* COMMIT: the locks are given back and the Runs in written have a new revision.
Commit(c, written, next) ==
    /\ owner' = [x \in Row |-> IF owner[x] = c THEN None ELSE owner[x]]
    /\ tx' = [tx EXCEPT ![c] = [NoTx EXCEPT !.at = next]]
    /\ overtaken' = (overtaken \ {c}) \cup
                    {b \in Client \ {c} : tx[b].loaded \cap written # {}}

\* loadSnapshot: what the transaction will write is derived from what it reads now.
Load(c, runs) ==
    /\ tx' = [tx EXCEPT ![c].at = "commit", ![c].loaded = runs]
    /\ UNCHANGED <<status, run, carried, owner, overtaken>>

-----------------------------------------------------------------------------
(* Heartbeat: the session row, then the row of every lease the worker lists. *)
(* The list comes from a map (leaseState.refs), so its order is arbitrary.   *)

BeginHeartbeat(w) ==
    /\ tx[Heartbeat(w)].at = "idle"
    /\ \E order \in SetToSeqs(carried[w]) :
          Open(Heartbeat(w), "commit", w, order, carried[w])

CommitHeartbeat(w) ==
    /\ Running(Heartbeat(w), "commit")
    /\ carried' = [carried EXCEPT ![w] =
                     @ \ {d \in tx[Heartbeat(w)].rows : status[d] # "leased"}]
    /\ Commit(Heartbeat(w), {}, "idle")
    /\ UNCHANGED <<status, run>>

-----------------------------------------------------------------------------
(* Claim: the session row, then pending rows with their Runs, skipping what  *)
(* is locked.                                                                *)

\* FOR UPDATE OF r, d SKIP LOCKED: a row comes with its Run or not at all, but
\* a Run that was free stays locked although its row was not.
Pick(c, D, chosen, next) ==
    LET halves == RunsOf({d \in D : Mine(c, RunOf[d]) /\ ~Mine(c, d)})
        locked == chosen \cup RunsOf(chosen) \cup halves
    IN  /\ owner' = [x \in Row |-> IF x \in locked THEN c ELSE owner[x]]
        /\ tx' = [tx EXCEPT ![c].at = next, ![c].rows = chosen, ![c].loaded = RunsOf(chosen)]
        /\ UNCHANGED <<status, run, carried, overtaken>>

Unlocked(c, D) == {d \in D : Mine(c, RunOf[d]) /\ Mine(c, d)}

Claimable == {d \in Dispatch : status[d] = "pending" /\ run[RunOf[d]] = "open"}

BeginClaim(w) ==
    /\ tx[Claim(w)].at = "idle"
    /\ Cardinality(carried[w]) < MaxConcurrency
    /\ Open(Claim(w), "pick", w, <<>>, {})

PickPending(w) ==
    /\ Running(Claim(w), "pick")
    /\ \E chosen \in SUBSET Unlocked(Claim(w), Claimable) :
          /\ Cardinality(chosen) =
                Min({Cardinality(Unlocked(Claim(w), Claimable)),
                     MaxConcurrency - Cardinality(carried[w])})
          /\ Pick(Claim(w), Claimable, chosen, "commit")

CommitClaim(w) ==
    LET c == Claim(w) IN
    /\ Running(c, "commit")
    /\ status' = [d \in Dispatch |-> IF d \in tx[c].rows THEN "leased" ELSE status[d]]
    /\ carried' = [carried EXCEPT ![w] = @ \cup tx[c].rows]
    /\ Commit(c, tx[c].loaded, "idle")
    /\ UNCHANGED run

-----------------------------------------------------------------------------
(* Complete: the Run, then the dispatch row; both are judged under the lock. *)

\* Faulty variant: only the dispatch row is locked.
CompleteLocks_RowOnly(d) == <<d>>

\* Faulty variant: the dispatch row is locked before its Run.
CompleteLocks_RowFirst(d) == <<d, RunOf[d]>>

CompleteLocks(d) == <<RunOf[d], d>>

BeginComplete(d) ==
    /\ tx[Complete(d)].at = "idle"
    /\ \E w \in Worker : d \in carried[w]
    /\ Open(Complete(d), "load", Head(CompleteLocks(d)), Tail(CompleteLocks(d)), {d})

LoadComplete(d) ==
    /\ Running(Complete(d), "load")
    /\ Load(Complete(d), IF status[d] = "leased" /\ run[RunOf[d]] = "open"
                         THEN {RunOf[d]} ELSE {})

CommitComplete(d) ==
    LET c == Complete(d) IN
    /\ Running(c, "commit")
    /\ status' = [status EXCEPT ![d] = IF tx[c].loaded = {} THEN @ ELSE "closed"]
    /\ carried' = [w \in Worker |-> carried[w] \ {d}]
    /\ Commit(c, tx[c].loaded, "idle")
    /\ UNCHANGED run

-----------------------------------------------------------------------------
(* CancelRun, of the HTTP handler (after RequestCancel, a transaction of its *)
(* own) or of the scan: the Run, then its active rows in their order.        *)

BeginRequest(r) ==
    /\ tx[CancelHandler(r)].at = "idle"
    /\ run[r] = "open"
    /\ Open(CancelHandler(r), "request", r, <<>>, {})

CommitRequest(r) ==
    LET c == CancelHandler(r) IN
    /\ Running(c, "request")
    /\ run' = [run EXCEPT ![r] = IF @ = "open" THEN "canceling" ELSE @]
    /\ owner' = [owner EXCEPT ![r] = None]
    /\ tx' = [tx EXCEPT ![c] = [NoTx EXCEPT !.at = "rows", !.wait = <<r>>]]
    /\ overtaken' = overtaken \cup
                    {b \in Client \ {c} : run[r] = "open" /\ r \in tx[b].loaded}
    /\ UNCHANGED <<status, carried>>

BeginScanCancel(r) ==
    /\ tx[Scan].at = "idle"
    /\ run[r] = "canceling"
    /\ Open(Scan, "rows", r, <<>>, {})

\* The Run a CancelRun transaction has locked first.
Canceled(c) == CHOOSE r \in Run : owner[r] = c

\* The rows D in the order of ORDER BY dispatch_id.
Ordered(D) == {q \in SetToSeqs(D) : \A i, j \in DOMAIN q : i < j => q[i] < q[j]}

LockActive(c) ==
    /\ Running(c, "rows")
    /\ \E order \in Ordered(Active(Canceled(c))) :
          tx' = [tx EXCEPT ![c].at = "load", ![c].wait = order]
    /\ UNCHANGED <<status, run, carried, owner, overtaken>>

LoadCancel(c) ==
    /\ Running(c, "load")
    /\ Load(c, IF run[Canceled(c)] = "canceled" THEN {} ELSE {Canceled(c)})

CommitCancel(c) ==
    /\ Running(c, "commit")
    /\ status' = [d \in Dispatch |->
                    IF d \in UNION {Active(r) : r \in tx[c].loaded} THEN "closed"
                                                                    ELSE status[d]]
    /\ run' = [r \in Run |-> IF r \in tx[c].loaded THEN "canceled" ELSE run[r]]
    /\ Commit(c, tx[c].loaded, "idle")
    /\ UNCHANGED carried

-----------------------------------------------------------------------------
(* ReapExpired: the sessions of silent workers, in the order of the table    *)
(* scan, then expired rows with their Runs, skipping what is locked.         *)

BeginReap ==
    /\ tx[Scan].at = "idle"
    /\ \E order \in UNION {SetToSeqs(W) : W \in SUBSET Worker} :
          tx' = [tx EXCEPT ![Scan] = [NoTx EXCEPT !.at = "expired", !.wait = order]]
    /\ UNCHANGED <<status, run, carried, owner, overtaken>>

Leased == {d \in Dispatch : status[d] = "leased"}

PickExpired ==
    /\ Running(Scan, "expired")
    /\ \E expired \in SUBSET Leased :
          Pick(Scan, expired, Unlocked(Scan, expired), "reap")

CommitReap ==
    /\ Running(Scan, "reap")
    /\ status' = [d \in Dispatch |-> IF d \in tx[Scan].rows THEN "closed" ELSE status[d]]
    /\ Commit(Scan, tx[Scan].loaded, "create")
    /\ UNCHANGED <<run, carried>>

-----------------------------------------------------------------------------
(* CreateDispatches: first returnOrphanedPendingDispatches, for each pending *)
(* row that was listed its Run and then the row itself; locks gained for a   *)
(* row that turns out to be claimed are kept.  Then Runs for new rows,       *)
(* skipping what is locked, and one new row for each; promoteDueRetries,     *)
(* which skips what is locked too, is left out.                              *)

OrphanLocks(order) ==
    [i \in 1..(2 * Len(order)) |->
        IF i % 2 = 1 THEN RunOf[order[(i + 1) \div 2]] ELSE order[i \div 2]]

BeginCreate ==
    /\ tx[Scan].at = "create"
    /\ \E orphans \in SUBSET Claimable :
       \E order \in SetToSeqs(orphans) :
          tx' = [tx EXCEPT ![Scan] = [NoTx EXCEPT !.at = "orphans", !.wait = OrphanLocks(order),
                                                  !.rows = orphans]]
    /\ UNCHANGED <<status, run, carried, owner, overtaken>>

\* The row the next INSERT for a Run makes.
NewRow(r) == Min({d \in Dispatch : RunOf[d] = r /\ status[d] = "none"})

PickCandidates ==
    LET open == {r \in Run : /\ run[r] = "open"
                             /\ Mine(Scan, r)
                             /\ \E d \in Dispatch : RunOf[d] = r /\ status[d] = "none"}
        returned == {d \in tx[Scan].rows : status[d] = "pending"}
    IN
    /\ Running(Scan, "orphans")
    /\ \E R \in SUBSET open :
          /\ owner' = [x \in Row |-> IF x \in R THEN Scan ELSE owner[x]]
          /\ tx' = [tx EXCEPT ![Scan].at = "insert",
                              ![Scan].rows = returned \cup {NewRow(r) : r \in R},
                              ![Scan].loaded = RunsOf(returned) \cup R]
    /\ UNCHANGED <<status, run, carried, overtaken>>

CommitCreate ==
    /\ Running(Scan, "insert")
    /\ status' = [d \in Dispatch |->
                    IF d \notin tx[Scan].rows THEN status[d]
                    ELSE IF status[d] = "none" THEN "pending" ELSE "closed"]
    /\ Commit(Scan, tx[Scan].loaded, "idle")
    /\ UNCHANGED <<run, carried>>

-----------------------------------------------------------------------------
(* Circular waits.                                                           *)

\* Who c waits for: the holder of the row it asks for next.
Blocker(c) ==
    IF tx[c].wait = <<>> \/ Mine(c, Head(tx[c].wait)) THEN {} ELSE {owner[Head(tx[c].wait)]}

\* Everyone c waits for, directly or through others.
Blockers(c) ==
    LET reach[n \in 0..Cardinality(Client)] ==
            IF n = 0 THEN Blocker(c)
            ELSE LET B == reach[n-1] IN B \cup UNION {Blocker(b) : b \in B}
    IN  reach[Cardinality(Client)]

InCycle(c) == Blocker(c) # {} /\ c \in Blockers(c)

(* PostgreSQL ends one transaction of the circle with an error.  A heartbeat *)
(* and a result are sent again by the worker; a cancellation is taken up by  *)
(* the scan; the error of a scan ends its process, and the next one starts   *)
(* with a new scan.                                                          *)
DeadlockVictim(c) ==
    /\ InCycle(c)
    /\ Commit(c, {}, "idle")
    /\ UNCHANGED <<status, run, carried>>

-----------------------------------------------------------------------------
Canceling == {CancelHandler(r) : r \in Run} \cup {Scan}

Next ==
    \/ \E w \in Worker : \/ BeginHeartbeat(w) \/ CommitHeartbeat(w)
                         \/ BeginClaim(w) \/ PickPending(w) \/ CommitClaim(w)
    \/ \E d \in Dispatch : BeginComplete(d) \/ LoadComplete(d) \/ CommitComplete(d)
    \/ \E r \in Run : BeginRequest(r) \/ CommitRequest(r) \/ BeginScanCancel(r)
    \/ \E c \in Canceling : LockActive(c) \/ LoadCancel(c) \/ CommitCancel(c)
    \/ BeginReap \/ PickExpired \/ CommitReap
    \/ BeginCreate \/ PickCandidates \/ CommitCreate
    \/ \E c \in Client : Lock(c) \/ DeadlockVictim(c)

Spec == Init /\ [][Next]_vars

-----------------------------------------------------------------------------
(* Properties.                                                               *)

(* What a transaction writes is based on what it loaded: between its         *)
(* loadSnapshot and its commit no other transaction commits a change of the  *)
(* same Run, so the revision check of applyChangeSetTx never refuses a       *)
(* dispatch transaction (for a scan that would end the process), and each of *)
(* them may be taken as one step, as Dispatch does.                          *)
NoLostUpdate ==
    /\ TypeOK
    /\ overtaken = {}

(* A circle of waiting transactions always runs through a heartbeat that     *)
(* locks the rows of two leases, one held and one waited for: Run before     *)
(* dispatch row and SKIP LOCKED rule out every other, so workers with one    *)
(* slot never meet one.  This is about one coordinator: its scan is a single *)
(* client.                                                                   *)
CyclesNeedTwoLeases ==
    \A c \in Client : InCycle(c) =>
        \E w \in Worker : /\ Heartbeat(w) \in Blockers(c)
                          /\ \E d \in Dispatch : owner[d] = Heartbeat(w)

(* No circle of waiting transactions: completion, reaping, cancellation and  *)
(* the return of orphans keep one lock order.                                *)
NoCircularWait == \A c \in Client : ~InCycle(c)
=============================================================================
