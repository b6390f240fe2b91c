-------------------------------- MODULE Server --------------------------------
(***************************************************************************)
(* The life of workload-server processes: serve and superviseServer        *)
(* (cmd/workload-server/main.go), the DispatchCoordinator with its two     *)
(* loops (internal/dispatch/coordinator.go) and the advisory lock that is  *)
(* to keep all but one of them from scanning (internal/postgres/           *)
(* repository.go).  What a scan does to the tables is in Dispatch; here a  *)
(* transaction of it succeeds or fails.                                    *)
(***************************************************************************)
EXTENDS Integers, FiniteSets

CONSTANTS
    Proc,       \* processes against one database
    None,
    MaxFaults   \* broken connections, database errors, listener errors, kills

ASSUME ServerAssumption == None \notin Proc /\ MaxFaults \in Nat

VARIABLES
    holder,     \* pg_locks: the process whose session holds the advisory lock
    proc,       \* the processes
    faults

vars == <<holder, proc, faults>>

(* main: where serve is; scan, check: the two loops of the coordinator;      *)
(* live: runCtx is not canceled; signal: the parent context is; error: the   *)
(* errors channel holds the fatal error; wake: the hint channel, of one      *)
(* place; conn: the connection of the advisory lock; handler: an HTTP        *)
(* request has changed a Run and not waked the coordinator yet; news: one    *)
(* has since the last scan began; hinted: Wake was called and found the      *)
(* coordinator ready since then; result: what serve is to return.            *)
Down == [main |-> "down", scan |-> "ended", check |-> "ended", conn |-> "none",
         ready |-> FALSE, live |-> FALSE, signal |-> FALSE, error |-> FALSE, wake |-> FALSE,
         handler |-> FALSE, news |-> FALSE, hinted |-> FALSE, result |-> "ok"]

Process ==
    [main : {"down", "serve", "shutdown", "close", "exit"},
     scan : {"scan", "wait", "ended"}, check : {"tick", "ended"},
     conn : {"none", "held", "lost"}, result : {"ok", "error"},
     ready : BOOLEAN, live : BOOLEAN, signal : BOOLEAN, error : BOOLEAN,
     wake : BOOLEAN, handler : BOOLEAN, news : BOOLEAN, hinted : BOOLEAN]

TypeOK ==
    /\ holder \in Proc \cup {None}
    /\ faults \in 0..MaxFaults
    /\ proc \in [Proc -> Process]

Init == holder = None /\ proc = [p \in Proc |-> Down] /\ faults = 0

Up(p) == proc[p].main # "down"
Scanning(p) == proc[p].scan = "scan"

Set(p, q) == proc' = [proc EXCEPT ![p] = q]

Fault == faults < MaxFaults /\ faults' = faults + 1

\* The database drops the advisory lock with the session that took it.
Dropped(p) == IF holder = p THEN None ELSE holder

-----------------------------------------------------------------------------
\* pg_try_advisory_lock, on a connection that is kept for it.
AcquireAdvisoryLock(p) == holder = None /\ holder' = p

(* Start of the coordinator.  A process that does not get the lock exits at  *)
(* once, with an error and nothing changed.                                  *)
Start(p) ==
    /\ proc[p].main = "down"
    /\ AcquireAdvisoryLock(p)
    /\ Set(p, [Down EXCEPT !.main = "serve", !.scan = "scan", !.check = "tick",
                           !.ready = TRUE, !.live = TRUE, !.conn = "held"])
    /\ UNCHANGED faults

\* Faulty variant: the error is not published.
Failed_Silent(q) == [q EXCEPT !.ready = FALSE, !.live = FALSE]

\* fail: not ready, both loops canceled, the first error published.
Failed(q) == [q EXCEPT !.ready = FALSE, !.live = FALSE, !.error = TRUE]

-----------------------------------------------------------------------------
(* scanLoop.  A round of it is three transactions, CancelRequestedRuns,      *)
(* ReapExpired and CreateDispatches, any of which may fail.                  *)

\* A round that begins sees what was committed before.
Round(q) == [q EXCEPT !.scan = "scan", !.news = FALSE, !.hinted = FALSE]

(* The round is over; one that created rows is followed by another at once.  *)
(* With runCtx canceled a transaction comes back with an error that is not   *)
(* a failure any more.                                                       *)
ScanEnds(p) ==
    /\ Scanning(p)
    /\ \/ proc[p].live /\ Set(p, Round(proc[p]))
       \/ proc[p].live /\ Set(p, [proc[p] EXCEPT !.scan = "wait"])
       \/ ~proc[p].live /\ Set(p, [proc[p] EXCEPT !.scan = "ended"])
    /\ UNCHANGED <<holder, faults>>

ScanError(p) ==
    /\ Scanning(p)
    /\ proc[p].live
    /\ Fault
    /\ Set(p, Failed([proc[p] EXCEPT !.scan = "ended"]))
    /\ UNCHANGED holder

\* The select between two rounds.
ScanWoken(p) ==
    /\ proc[p].scan = "wait"
    /\ proc[p].wake
    /\ Set(p, Round([proc[p] EXCEPT !.wake = FALSE]))
    /\ UNCHANGED <<holder, faults>>

ScanDone(p) ==
    /\ proc[p].scan = "wait"
    /\ ~proc[p].live
    /\ Set(p, [proc[p] EXCEPT !.scan = "ended"])
    /\ UNCHANGED <<holder, faults>>

\* Faulty variant: the ticker is not among the cases of the select.
ScanTick_HintOnly(p) == ScanWoken(p)

ScanTick(p) ==
    /\ proc[p].scan = "wait"
    /\ Set(p, Round(proc[p]))
    /\ UNCHANGED <<holder, faults>>

-----------------------------------------------------------------------------
(* lockLoop.  A check that succeeds changes nothing.                         *)

\* advisoryLock.Check asks pg_locks through the very connection that took the lock.
LockHeld(p) == proc[p].conn = "held"

LockLoop(p) ==
    /\ proc[p].check = "tick"
    /\ \/ /\ ~proc[p].live
          /\ Set(p, [proc[p] EXCEPT !.check = "ended"])
       \/ /\ proc[p].live /\ ~LockHeld(p)
          /\ Set(p, Failed([proc[p] EXCEPT !.check = "ended"]))
    /\ UNCHANGED <<holder, faults>>

\* The connection breaks, or a check runs into its time-out, which closes it.
ConnectionLost(p) ==
    /\ LockHeld(p)
    /\ Fault
    /\ holder' = Dropped(p)
    /\ Set(p, [proc[p] EXCEPT !.conn = "lost"])

-----------------------------------------------------------------------------
(* Requests: Start and Cancel of a Run, Complete and RegisterWorker of a     *)
(* worker commit a change of their own and then call Wake, unless they       *)
(* return an error first.                                                    *)

RequestCommits(p) ==
    /\ proc[p].main \in {"serve", "shutdown"}
    /\ ~proc[p].handler
    /\ Set(p, [proc[p] EXCEPT !.handler = TRUE, !.news = TRUE])
    /\ UNCHANGED <<holder, faults>>

\* Faulty variant: the hint reaches a scan loop that is waiting for it only.
Wake_Unbuffered(p) ==
    /\ proc[p].handler
    /\ Set(p, [proc[p] EXCEPT !.handler = FALSE, !.hinted = @ \/ proc[p].ready,
                              !.wake = @ \/ (proc[p].ready /\ proc[p].scan = "wait")])
    /\ UNCHANGED <<holder, faults>>

\* Wake: dropped when the coordinator is not ready, merged with a waiting hint.
Wake(p) ==
    /\ proc[p].handler
    /\ Set(p, [proc[p] EXCEPT !.handler = FALSE, !.hinted = @ \/ proc[p].ready,
                              !.wake = @ \/ proc[p].ready])
    /\ UNCHANGED <<holder, faults>>

(* The change is committed and the request returns an error before Wake: the *)
(* answer to the commit was one, or the cancellation is recorded and         *)
(* CancelRun fails or finds the coordinator not ready.                       *)
RequestFails(p) ==
    /\ proc[p].handler
    /\ Set(p, [proc[p] EXCEPT !.handler = FALSE])
    /\ UNCHANGED <<holder, faults>>

-----------------------------------------------------------------------------
(* superviseServer and the way out of serve.                                 *)

\* SIGINT or SIGTERM cancels the context runCtx was derived from.
Signal(p) ==
    /\ Up(p)
    /\ ~proc[p].signal
    /\ Set(p, [proc[p] EXCEPT !.signal = TRUE, !.live = FALSE])
    /\ UNCHANGED <<holder, faults>>

Supervise(p) ==
    /\ proc[p].main = "serve"
    /\ \/ /\ proc[p].signal
          /\ Set(p, [proc[p] EXCEPT !.main = "shutdown"])
       \/ /\ proc[p].error
          /\ Set(p, [proc[p] EXCEPT !.main = "shutdown", !.result = "error", !.error = FALSE])
    /\ UNCHANGED <<holder, faults>>

ListenerFails(p) ==
    /\ proc[p].main = "serve"
    /\ Fault
    /\ Set(p, [proc[p] EXCEPT !.main = "shutdown", !.result = "error"])
    /\ UNCHANGED holder

(* server.Shutdown has returned, with its requests answered or at the time   *)
(* limit, and Close begins: not ready, runCtx canceled, a goroutine of Close *)
(* waits for the loops.  No round begins any more and a hint is dropped, so  *)
(* requests are of no account from here on: the next process begins with a   *)
(* scan.                                                                     *)
BeginClose(p) ==
    /\ proc[p].main = "shutdown"
    /\ Set(p, [proc[p] EXCEPT !.main = "close", !.ready = FALSE, !.live = FALSE,
                              !.result = IF proc[p].handler THEN "error" ELSE @,
                              !.handler = FALSE, !.wake = FALSE, !.news = FALSE,
                              !.hinted = FALSE])
    /\ UNCHANGED <<holder, faults>>

\* Faulty variant: the lock is given back while the loops are still ending.
CloseLock_NoWait(p) ==
    /\ proc[p].main \in {"close", "exit"}
    /\ proc[p].conn # "none"
    /\ holder' = Dropped(p)
    /\ Set(p, [proc[p] EXCEPT !.conn = "none"])
    /\ UNCHANGED faults

\* The goroutine of Close: the loops have ended, the lock is given back.
CloseLock(p) ==
    /\ proc[p].main \in {"close", "exit"}
    /\ proc[p].conn # "none"
    /\ proc[p].scan = "ended" /\ proc[p].check = "ended"
    /\ holder' = Dropped(p)
    /\ Set(p, [proc[p] EXCEPT !.conn = "none"])
    /\ UNCHANGED faults

\* Close returns, when the lock is given back or at the time limit.
EndClose(p) ==
    /\ proc[p].main = "close"
    /\ Set(p, [proc[p] EXCEPT !.main = "exit",
                              !.result = IF proc[p].conn = "none" THEN @ ELSE "error"])
    /\ UNCHANGED <<holder, faults>>

\* repository.Close waits until every connection of the pool was given back.
Exit(p) ==
    /\ proc[p].main = "exit"
    /\ proc[p].conn = "none" /\ proc[p].scan = "ended"
    /\ Set(p, Down)
    /\ UNCHANGED <<holder, faults>>

\* The process is killed.
Killed(p) ==
    /\ Up(p)
    /\ Fault
    /\ holder' = Dropped(p)
    /\ Set(p, Down)

-----------------------------------------------------------------------------
ScanLoop(p) == ScanEnds(p) \/ ScanWoken(p) \/ ScanDone(p)
Supervisor(p) == Supervise(p) \/ BeginClose(p) \/ EndClose(p) \/ Exit(p)

Next ==
    \E p \in Proc :
        \/ Start(p) \/ ScanLoop(p) \/ ScanTick(p) \/ ScanError(p) \/ LockLoop(p)
        \/ ConnectionLost(p) \/ RequestCommits(p) \/ Wake(p) \/ RequestFails(p)
        \/ Signal(p) \/ ListenerFails(p) \/ Supervisor(p) \/ CloseLock(p) \/ Killed(p)

Spec == Init /\ [][Next]_vars

(* Goroutines run, calls of the database return, and the ticker of the lock  *)
(* check fires.  The ticker of the scan is not counted on, and a request     *)
(* need not come to its end.                                                 *)
FairSpec ==
    /\ Spec
    /\ \A p \in Proc :
          /\ WF_vars(ScanLoop(p)) /\ WF_vars(LockLoop(p))
          /\ WF_vars(Supervisor(p)) /\ WF_vars(CloseLock(p))

-----------------------------------------------------------------------------
(* Properties.                                                               *)

(* A process scans only under the advisory lock, which it gives back after   *)
(* its loops have ended; two scan at once only while one of them has lost    *)
(* its connection and not noticed yet.  Ready is reported only by a process  *)
(* whose loops run, or that is told to stop, and a process stops of its own  *)
(* accord only with an error.                                                *)
CoordinatorInv ==
    /\ TypeOK
    /\ \A p \in Proc : Scanning(p) => proc[p].conn # "none"
    /\ \A p, q \in Proc : p # q /\ Scanning(p) /\ Scanning(q) =>
          \E x \in {p, q} : proc[x].conn = "lost"
    /\ \A p \in Proc : proc[p].ready =>
          /\ proc[p].conn # "none"
          /\ ~proc[p].error
          /\ proc[p].signal \/ (proc[p].scan # "ended" /\ proc[p].check # "ended")
    /\ \A p \in Proc : proc[p].main \in {"shutdown", "close", "exit"} /\ ~proc[p].signal =>
          proc[p].result = "error"

(* A process that lost its lock, failed or was told to stop ends, so that    *)
(* another one can take over; none keeps scanning without the lock.          *)
ProcessEnds ==
    \A p \in Proc : proc[p].conn = "lost" \/ proc[p].error \/ proc[p].signal
                        ~> proc[p].main = "down"

(* Every committed change is seen by a scan that begins after it, or the     *)
(* process closes.  The hint of a request that woke the coordinator is       *)
(* enough, even if the ticker of the scan never fires: one given while a     *)
(* scan is running is kept for the next (Wake, a channel of one place).      *)
(* With the ticker, the scan also sees the change of a request that returned *)
(* an error or hangs before it called Wake.                                  *)
ChangesScanned ==
    /\ \A p \in Proc : proc[p].hinted ~> ~proc[p].hinted
    /\ (\A p \in Proc : WF_vars(ScanTick(p))) => \A p \in Proc : proc[p].news ~> ~proc[p].news
=============================================================================
