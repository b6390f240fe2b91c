----------------------------- MODULE ServerProofs -----------------------------
(***************************************************************************)
(* CoordinatorInv for any number of server processes and faults.           *)
(***************************************************************************)
EXTENDS Server, TLAPS

(* What the fields of one process say of each other.  A coordinator that is  *)
(* live has both loops and is ready; a loop keeps the connection of the      *)
(* lock; only Close gives it back; and serve is left with a signal or an     *)
(* error.                                                                    *)
LocalInv(q) ==
    /\ q.live => q.ready /\ q.scan # "ended" /\ q.check # "ended"
    /\ q.ready => /\ q.main \in {"serve", "shutdown"}
                  /\ ~q.error
                  /\ q.live \/ q.signal
    /\ q.conn = "none" => q.main \in {"down", "close", "exit"} /\ q.scan = "ended"
    /\ q.main \in {"shutdown", "close", "exit"} /\ ~q.signal => q.result = "error"

(* The database and the processes agree on who holds the advisory lock.      *)
HolderInv == \A p \in Proc : holder = p <=> proc[p].conn = "held"

ServerInv == TypeOK /\ HolderInv /\ \A p \in Proc : LocalInv(proc[p])

\* The inductive invariant contains the one the run checks.
LEMMA InvImplies == ServerInv => CoordinatorInv
  BY DEF ServerInv, TypeOK, Process, HolderInv, LocalInv, CoordinatorInv, Scanning

(* A step of one process that keeps its own part of the invariant and leaves *)
(* the lock alone.                                                           *)
LEMMA ProcessStep ==
    ASSUME ServerInv, NEW p \in Proc, NEW q \in Process, LocalInv(q), Set(p, q),
           q.conn = proc[p].conn, UNCHANGED holder, faults' \in 0..MaxFaults
    PROVE  ServerInv'
  BY DEF ServerInv, TypeOK, HolderInv, Set

(* A step of one process that gives up the lock or its claim to it.          *)
LEMMA DropStep ==
    ASSUME ServerInv, NEW p \in Proc, NEW q \in Process, LocalInv(q), Set(p, q),
           q.conn # "held", holder' = Dropped(p), faults' \in 0..MaxFaults
    PROVE  ServerInv'
  BY ServerAssumption DEF ServerInv, TypeOK, HolderInv, Set, Dropped

\* The number of faults stays within its bound.
LEMMA FaultBound == TypeOK /\ Fault => faults' \in 0..MaxFaults
  BY ServerAssumption DEF TypeOK, Fault

\* A process that is not running satisfies the local invariant.
LEMMA DownProcess == Down \in Process /\ LocalInv(Down)
  BY DEF Down, Process, LocalInv

(* The scan loop.                                                            *)
LEMMA ScanSteps ==
    ASSUME ServerInv, NEW p \in Proc,
           ScanLoop(p) \/ ScanTick(p) \/ ScanError(p)
    PROVE  ServerInv'
  <1> DEFINE q == proc[p]
             began == [q EXCEPT !.scan = "scan", !.news = FALSE, !.hinted = FALSE]
             waits == [q EXCEPT !.scan = "wait"]
             ended == [q EXCEPT !.scan = "ended"]
             taken == [q EXCEPT !.wake = FALSE]
             woken == [taken EXCEPT !.scan = "scan", !.news = FALSE, !.hinted = FALSE]
             failed == [ended EXCEPT !.ready = FALSE, !.live = FALSE, !.error = TRUE]
  <1>1. TypeOK /\ q \in Process /\ LocalInv(q)
    BY DEF ServerInv, TypeOK
  <1>2. faults \in 0..MaxFaults
    BY <1>1 DEF TypeOK
  <1> HIDE DEF q
  <1>3. began \in Process /\ waits \in Process /\ ended \in Process /\ taken \in Process
    BY <1>1 DEF Process
  <1>4. woken \in Process /\ failed \in Process
    BY <1>3, ZenonT(60) DEF Process
  <1>5. CASE q.scan \in {"scan", "wait"} /\ Set(p, Round(q)) /\ UNCHANGED <<holder, faults>>
    <2>1. LocalInv(began) /\ began.conn = q.conn
      BY <1>1, <1>5 DEF LocalInv, Process
    <2> QED BY <1>2, <1>3, <1>5, <2>1, ProcessStep DEF Round, q
  <1>6. CASE q.scan = "wait" /\ Set(p, Round([q EXCEPT !.wake = FALSE])) /\ UNCHANGED <<holder, faults>>
    <2>1. LocalInv(woken) /\ woken.conn = q.conn
      BY <1>1, <1>6 DEF LocalInv, Process
    <2> QED BY <1>2, <1>4, <1>6, <2>1, ProcessStep DEF Round, q
  <1>7. CASE q.scan = "scan" /\ Set(p, waits) /\ UNCHANGED <<holder, faults>>
    <2>1. LocalInv(waits) /\ waits.conn = q.conn
      BY <1>1, <1>7 DEF LocalInv, Process
    <2> QED BY <1>2, <1>3, <1>7, <2>1, ProcessStep DEF q
  <1>8. CASE ~q.live /\ Set(p, ended) /\ UNCHANGED <<holder, faults>>
    <2>1. LocalInv(ended) /\ ended.conn = q.conn
      BY <1>1, <1>8 DEF LocalInv, Process
    <2> QED BY <1>2, <1>3, <1>8, <2>1, ProcessStep DEF q
  <1>9. CASE q.live /\ Fault /\ Set(p, Failed(ended)) /\ UNCHANGED holder
    <2>1. LocalInv(failed) /\ failed.conn = q.conn
      BY <1>1, <1>9 DEF LocalInv, Process
    <2>2. faults' \in 0..MaxFaults
      BY <1>1, <1>9, FaultBound
    <2> QED BY <1>4, <1>9, <2>1, <2>2, ProcessStep DEF Failed, q
  <1>10. ScanEnds(p) => \/ q.scan \in {"scan", "wait"} /\ Set(p, Round(q)) /\ UNCHANGED <<holder, faults>>
                        \/ q.scan = "scan" /\ Set(p, waits) /\ UNCHANGED <<holder, faults>>
                        \/ ~q.live /\ Set(p, ended) /\ UNCHANGED <<holder, faults>>
    BY DEF ScanEnds, Scanning, q
  <1>11. ScanWoken(p) => q.scan = "wait" /\ Set(p, Round([q EXCEPT !.wake = FALSE])) /\ UNCHANGED <<holder, faults>>
    BY DEF ScanWoken, q
  <1>12. ScanDone(p) => ~q.live /\ Set(p, ended) /\ UNCHANGED <<holder, faults>>
    BY DEF ScanDone, q
  <1>13. ScanTick(p) => q.scan \in {"scan", "wait"} /\ Set(p, Round(q)) /\ UNCHANGED <<holder, faults>>
    BY DEF ScanTick, q
  <1>14. ScanError(p) => q.live /\ Fault /\ Set(p, Failed(ended)) /\ UNCHANGED holder
    BY DEF ScanError, Scanning, q
  <1> HIDE DEF began, waits, ended, woken, failed
  <1> QED BY <1>5, <1>6, <1>7, <1>8, <1>9, <1>10, <1>11, <1>12, <1>13, <1>14 DEF ScanLoop

(* The loop that checks the lock, and the connection it asks.                *)
LEMMA LockSteps ==
    ASSUME ServerInv, NEW p \in Proc, LockLoop(p) \/ ConnectionLost(p)
    PROVE  ServerInv'
  <1> DEFINE q == proc[p]
             ended == [q EXCEPT !.check = "ended"]
             failed == [ended EXCEPT !.ready = FALSE, !.live = FALSE, !.error = TRUE]
             lost == [q EXCEPT !.conn = "lost"]
  <1>1. TypeOK /\ q \in Process /\ LocalInv(q) /\ faults \in 0..MaxFaults
    BY DEF ServerInv, TypeOK
  <1> HIDE DEF q
  <1>2. ended \in Process /\ lost \in Process
    BY <1>1 DEF Process
  <1>3. failed \in Process
    BY <1>2 DEF Process
  <1>4. CASE ~q.live /\ Set(p, ended) /\ UNCHANGED <<holder, faults>>
    <2>1. LocalInv(ended) /\ ended.conn = q.conn
      BY <1>1, <1>4 DEF LocalInv, Process
    <2> QED BY <1>1, <1>2, <1>4, <2>1, ProcessStep DEF q
  <1>5. CASE Set(p, Failed(ended)) /\ UNCHANGED <<holder, faults>>
    <2>1. LocalInv(failed) /\ failed.conn = q.conn
      BY <1>1, <1>5 DEF LocalInv, Process
    <2> QED BY <1>1, <1>3, <1>5, <2>1, ProcessStep DEF Failed, q
  <1>6. CASE ConnectionLost(p)
    <2>1. q.conn = "held" /\ Set(p, lost) /\ holder' = Dropped(p) /\ Fault
      BY <1>6 DEF ConnectionLost, LockHeld, q
    <2>2. LocalInv(lost) /\ lost.conn # "held"
      BY <1>1, <2>1 DEF LocalInv, Process
    <2>3. faults' \in 0..MaxFaults
      BY <1>1, <2>1, FaultBound
    <2> QED BY <1>2, <2>1, <2>2, <2>3, DropStep
  <1>7. LockLoop(p) => \/ ~q.live /\ Set(p, ended) /\ UNCHANGED <<holder, faults>>
                       \/ Set(p, Failed(ended)) /\ UNCHANGED <<holder, faults>>
    BY DEF LockLoop, LockHeld, q
  <1> QED BY <1>4, <1>5, <1>6, <1>7

(* Requests and signals.                                                     *)
LEMMA RequestSteps ==
    ASSUME ServerInv, NEW p \in Proc,
           RequestCommits(p) \/ Wake(p) \/ RequestFails(p) \/ Signal(p)
    PROVE  ServerInv'
  <1> DEFINE q == proc[p]
             commits == [q EXCEPT !.handler = TRUE, !.news = TRUE]
             wakes == [q EXCEPT !.handler = FALSE, !.hinted = @ \/ q.ready, !.wake = @ \/ q.ready]
             fails == [q EXCEPT !.handler = FALSE]
             told == [q EXCEPT !.signal = TRUE, !.live = FALSE]
  <1>1. q \in Process /\ LocalInv(q) /\ faults \in 0..MaxFaults
    BY DEF ServerInv, TypeOK
  <1> HIDE DEF q
  <1>2. commits \in Process /\ wakes \in Process /\ fails \in Process /\ told \in Process
    BY <1>1 DEF Process
  <1>3. CASE RequestCommits(p)
    <2>1. LocalInv(commits) /\ commits.conn = q.conn
      BY <1>1 DEF LocalInv, Process
    <2> QED BY <1>1, <1>2, <1>3, <2>1, ProcessStep DEF RequestCommits, q
  <1>4. CASE Wake(p)
    <2>1. LocalInv(wakes) /\ wakes.conn = q.conn
      BY <1>1 DEF LocalInv, Process
    <2> QED BY <1>1, <1>2, <1>4, <2>1, ProcessStep DEF Wake, q
  <1>5. CASE Signal(p)
    <2>1. LocalInv(told) /\ told.conn = q.conn
      BY <1>1 DEF LocalInv, Process
    <2> QED BY <1>1, <1>2, <1>5, <2>1, ProcessStep DEF Signal, q
  <1>6. CASE RequestFails(p)
    <2>1. LocalInv(fails) /\ fails.conn = q.conn
      BY <1>1 DEF LocalInv, Process
    <2> QED BY <1>1, <1>2, <1>6, <2>1, ProcessStep DEF RequestFails, q
  <1> QED BY <1>3, <1>4, <1>5, <1>6

(* The way out of serve, up to the goroutine of Close.                       *)
LEMMA ShutdownSteps ==
    ASSUME ServerInv, NEW p \in Proc,
           Supervise(p) \/ ListenerFails(p) \/ BeginClose(p) \/ EndClose(p)
    PROVE  ServerInv'
  <1> DEFINE q == proc[p]
             asked == [q EXCEPT !.main = "shutdown"]
             failed == [q EXCEPT !.main = "shutdown", !.result = "error", !.error = FALSE]
             broken == [q EXCEPT !.main = "shutdown", !.result = "error"]
             closes == [q EXCEPT !.main = "close", !.ready = FALSE, !.live = FALSE,
                                 !.result = IF q.handler THEN "error" ELSE @,
                                 !.handler = FALSE, !.wake = FALSE, !.news = FALSE,
                                 !.hinted = FALSE]
             closed == [q EXCEPT !.main = "exit",
                                 !.result = IF q.conn = "none" THEN @ ELSE "error"]
  <1>1. TypeOK /\ q \in Process /\ LocalInv(q) /\ faults \in 0..MaxFaults
    BY DEF ServerInv, TypeOK
  <1> HIDE DEF q
  <1>2. /\ asked \in Process /\ failed \in Process /\ broken \in Process
        /\ closes \in Process /\ closed \in Process
    BY <1>1, ZenonT(60) DEF Process
  <1>3. CASE Supervise(p) /\ q.signal /\ Set(p, asked)
    <2>1. q.main = "serve" /\ UNCHANGED <<holder, faults>>
      BY <1>3 DEF Supervise, q
    <2>2. LocalInv(asked) /\ asked.conn = q.conn
      BY <1>1, <1>3, <2>1 DEF LocalInv, Process
    <2> QED BY <1>1, <1>2, <1>3, <2>1, <2>2, ProcessStep DEF q
  <1>4. CASE Supervise(p) /\ q.error /\ Set(p, failed)
    <2>1. q.main = "serve" /\ UNCHANGED <<holder, faults>>
      BY <1>4 DEF Supervise, q
    <2>2. LocalInv(failed) /\ failed.conn = q.conn
      BY <1>1, <1>4, <2>1 DEF LocalInv, Process
    <2> QED BY <1>1, <1>2, <1>4, <2>1, <2>2, ProcessStep DEF q
  <1>5. CASE ListenerFails(p)
    <2>1. q.main = "serve" /\ Set(p, broken) /\ UNCHANGED holder /\ Fault
      BY <1>5 DEF ListenerFails, q
    <2>2. LocalInv(broken) /\ broken.conn = q.conn
      BY <1>1, <2>1 DEF LocalInv, Process
    <2>3. faults' \in 0..MaxFaults
      BY <1>1, <2>1, FaultBound
    <2> QED BY <1>2, <2>1, <2>2, <2>3, ProcessStep DEF q
  <1>6. CASE BeginClose(p)
    <2>1. q.main = "shutdown" /\ Set(p, closes) /\ UNCHANGED <<holder, faults>>
      BY <1>6 DEF BeginClose, q
    <2>2. LocalInv(closes) /\ closes.conn = q.conn
      BY <1>1, <2>1 DEF LocalInv, Process
    <2> QED BY <1>1, <1>2, <2>1, <2>2, ProcessStep DEF q
  <1>7. CASE EndClose(p)
    <2>1. q.main = "close" /\ Set(p, closed) /\ UNCHANGED <<holder, faults>>
      BY <1>7 DEF EndClose, q
    <2>2. LocalInv(closed) /\ closed.conn = q.conn
      BY <1>1, <2>1 DEF LocalInv, Process
    <2> QED BY <1>1, <1>2, <2>1, <2>2, ProcessStep DEF q
  <1>8. Supervise(p) => \/ Supervise(p) /\ q.signal /\ Set(p, asked)
                        \/ Supervise(p) /\ q.error /\ Set(p, failed)
    BY DEF Supervise, q
  <1> QED BY <1>3, <1>4, <1>5, <1>6, <1>7, <1>8

(* The lock is taken, given back, or dropped with its process.               *)
LEMMA LifeSteps ==
    ASSUME ServerInv, NEW p \in Proc, Start(p) \/ CloseLock(p) \/ Exit(p) \/ Killed(p)
    PROVE  ServerInv'
  <1> DEFINE q == proc[p]
             fresh == [Down EXCEPT !.main = "serve", !.scan = "scan", !.check = "tick",
                                   !.ready = TRUE, !.live = TRUE, !.conn = "held"]
             given == [q EXCEPT !.conn = "none"]
  <1>1. TypeOK /\ q \in Process /\ LocalInv(q) /\ faults \in 0..MaxFaults
    BY DEF ServerInv, TypeOK
  <1>2. fresh \in Process /\ LocalInv(fresh) /\ fresh.conn = "held"
    BY DEF Down, Process, LocalInv
  <1>3. CASE Start(p)
    <2>1. holder = None /\ holder' = p /\ Set(p, fresh) /\ UNCHANGED faults
      BY <1>3 DEF Start, AcquireAdvisoryLock
    <2> HIDE DEF fresh
    <2> QED BY <1>1, <1>2, <2>1, ServerAssumption DEF ServerInv, TypeOK, HolderInv, Set
  <1>4. CASE CloseLock(p)
    <2>1. /\ q.main \in {"close", "exit"} /\ q.scan = "ended"
          /\ Set(p, given) /\ holder' = Dropped(p) /\ UNCHANGED faults
      BY <1>4 DEF CloseLock
    <2> HIDE DEF q
    <2>2. given \in Process /\ LocalInv(given) /\ given.conn # "held"
      BY <1>1, <2>1 DEF LocalInv, Process
    <2> HIDE DEF given
    <2> QED BY <1>1, <2>1, <2>2, DropStep
  <1>5. CASE Exit(p)
    <2>1. q.conn = "none" /\ Set(p, Down) /\ UNCHANGED <<holder, faults>>
      BY <1>5 DEF Exit
    <2>2. Down.conn = q.conn
      BY <2>1 DEF Down
    <2> QED BY <1>1, <2>1, <2>2, DownProcess, ProcessStep
  <1>6. CASE Killed(p)
    <2>1. Set(p, Down) /\ holder' = Dropped(p) /\ Fault
      BY <1>6 DEF Killed
    <2>2. Down.conn # "held"
      BY DEF Down
    <2>3. faults' \in 0..MaxFaults
      BY <1>1, <2>1, FaultBound
    <2> QED BY <2>1, <2>2, <2>3, DownProcess, DropStep
  <1> QED BY <1>3, <1>4, <1>5, <1>6

-----------------------------------------------------------------------------
(* For any number of processes and faults: a process scans only under the    *)
(* advisory lock, two at once only while one has lost its connection and not *)
(* noticed, the lock is given back after the loops, ready means that they    *)
(* run, and a process that stops of its own accord reports an error          *)
(* (DispatchCoordinator and superviseServer).                                *)
THEOREM CoordinatorSafe == Spec => []CoordinatorInv
  <1>1. Init => ServerInv
    <2> SUFFICES ASSUME Init PROVE ServerInv
      OBVIOUS
    <2>1. \A p \in Proc : proc[p] = Down
      BY DEF Init
    <2>2. TypeOK
      BY DownProcess, ServerAssumption DEF Init, TypeOK
    <2>3. HolderInv
      BY <2>1, ServerAssumption DEF Init, HolderInv, Down
    <2> QED BY <2>1, <2>2, <2>3, DownProcess DEF ServerInv
  <1>2. ServerInv /\ [Next]_vars => ServerInv'
    <2> SUFFICES ASSUME ServerInv, [Next]_vars PROVE ServerInv'
      OBVIOUS
    <2>1. CASE UNCHANGED vars
      BY <2>1 DEF vars, ServerInv, TypeOK, HolderInv
    <2>2. CASE Next
      BY <2>2, ScanSteps, LockSteps, RequestSteps, ShutdownSteps, LifeSteps
         DEF Next, Supervisor
    <2> QED BY <2>1, <2>2
  <1>3. QED
    BY <1>1, <1>2, InvImplies, PTL DEF Spec
=============================================================================
