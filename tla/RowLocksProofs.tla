---------------------------- MODULE RowLocksProofs ----------------------------
(***************************************************************************)
(* No lost update, and who may wait for whom in a circle, for any number   *)
(* of Runs, workers and dispatch rows.  The first rests on LocksInv: a     *)
(* transaction that has loaded a Run, or is about to, holds the lock of    *)
(* its row.  The second rests on WaitsInv, the order in which transactions *)
(* take rows, and on an induction over the lengths of waiting chains.  A   *)
(* worker with one slot waits for a lease only while it holds none, and    *)
(* then there is no circle at all.                                         *)
(***************************************************************************)
EXTENDS RowLocks, FiniteSetTheorems, SequenceTheorems, WellFoundedInduction, TLAPS

(* What the client c with transaction t holds when owner is own.  The first  *)
(* conjunct is the point; the others say how the lock gets there before the  *)
(* Run is loaded: Complete and RequestCancel begin with it, CancelRun has it *)
(* or asks for it, and a scan asks for the Run of every orphaned row.        *)
Holds(c, t, own) ==
    /\ \A r \in t.loaded : own[r] = c
    /\ \A d \in Dispatch : c = Complete(d) /\ t.at = "load" => own[RunOf[d]] = c
    /\ \A r \in Run : c = CancelHandler(r) /\ t.at = "request" => own[r] = c
    /\ t.at = "rows" => \E r \in Run : own[r] = c \/ t.wait = <<r>>
    /\ c \in Canceling /\ t.at = "load" => \E r \in Run : own[r] = c
    /\ t.at = "orphans" =>
          \A d \in t.rows : own[RunOf[d]] = c \/ \E i \in DOMAIN t.wait : t.wait[i] = RunOf[d]

LocksInv ==
    /\ TypeOK
    /\ \A c \in Client : Holds(c, tx[c], owner)
    /\ overtaken = {}

\* The transactions of workers, handlers and the coordinator are clients.
LEMMA Clients ==
    /\ \A w \in Worker : Heartbeat(w) \in Client /\ Claim(w) \in Client
    /\ \A d \in Dispatch : Complete(d) \in Client
    /\ \A r \in Run : CancelHandler(r) \in Client
    /\ Scan \in Client
    /\ Canceling \subseteq Client
  BY DEF Client, Canceling

(* No two kinds of clients are one.                                          *)
LEMMA Distinct ==
    /\ \A w \in Worker, d \in Dispatch : Heartbeat(w) # Complete(d) /\ Claim(w) # Complete(d)
    /\ \A d \in Dispatch : Complete(d) \notin Canceling
    /\ \A d, e \in Dispatch : Complete(d) = Complete(e) => d = e
    /\ \A r, q \in Run : CancelHandler(r) = CancelHandler(q) => r = q
    /\ \A r \in Run : Scan # CancelHandler(r)
    /\ \A r \in Run, d \in Dispatch : Complete(d) # CancelHandler(r)
  BY DEF Heartbeat, Claim, Complete, CancelHandler, Scan, Canceling

\* A client without a transaction has a record of the type of one.
LEMMA NoTxType == \A at \in {"idle", "create"} :
                     [NoTx EXCEPT !.at = at] \in Tx /\ NoTx \in Tx
  BY EmptySeq DEF NoTx, Tx

(* A step of one client that takes no lock of another's keeps the rest.      *)
LEMMA ClientStep ==
    ASSUME LocksInv, NEW c \in Client, NEW n \in Tx,
           tx' = [tx EXCEPT ![c] = n],
           owner' \in [Row -> Client \cup {None}],
           \A x \in Row : \A b \in Client \ {c} : owner[x] = b => owner'[x] = b,
           Holds(c, n, owner'),
           overtaken' = {},
           status' \in [Dispatch -> {"none", "pending", "leased", "closed"}],
           run' \in [Run -> {"open", "canceling", "canceled"}],
           carried' \in [Worker -> SUBSET Dispatch]
    PROVE  LocksInv'
  <1>1. TypeOK'
    BY DEF LocksInv, TypeOK
  <1>2. ASSUME NEW b \in Client PROVE Holds(b, tx'[b], owner')
    <2>1. CASE b = c
      BY <2>1 DEF LocksInv, TypeOK
    <2>2. CASE b # c
      <3>1. tx'[b] = tx[b] /\ Holds(b, tx[b], owner) /\ tx[b] \in Tx
        BY <2>2 DEF LocksInv, TypeOK
      <3>2. \A x \in Row : owner[x] = b => owner'[x] = b
        BY <2>2
      <3>3. /\ tx[b].loaded \subseteq Row /\ Run \subseteq Row
            /\ \A d \in Dispatch : RunOf[d] \in Row
            /\ tx[b].rows \subseteq Dispatch
        BY <3>1, RowLocksAssumption DEF Tx, Row
      <3> HIDE DEF Dispatch
      <3> QED BY <3>1, <3>2, <3>3 DEF Holds
    <2> QED BY <2>1, <2>2
  <1> QED BY <1>1, <1>2 DEF LocksInv

(* While it holds the Runs it writes, a transaction overtakes nobody.        *)
LEMMA NobodyOvertaken ==
    ASSUME LocksInv, NEW c \in Client, NEW written \in SUBSET Run,
           \A r \in written : owner[r] = c
    PROVE  (overtaken \ {c}) \cup {b \in Client \ {c} : tx[b].loaded \cap written # {}} = {}
  <1> SUFFICES ASSUME NEW b \in Client \ {c}, NEW r \in tx[b].loaded \cap written
               PROVE  FALSE
    BY DEF LocksInv
  <1> QED BY DEF LocksInv, Holds

\* A commit that writes only Runs its client has locked overtakes nobody.
LEMMA CommitStep ==
    ASSUME LocksInv, NEW c \in Client, NEW written \in SUBSET Run, NEW next \in {"idle", "create"},
           \A r \in written : owner[r] = c,
           Commit(c, written, next),
           status' \in [Dispatch -> {"none", "pending", "leased", "closed"}],
           run' \in [Run -> {"open", "canceling", "canceled"}],
           carried' \in [Worker -> SUBSET Dispatch]
    PROVE  LocksInv'
  <1> DEFINE n == [NoTx EXCEPT !.at = next]
  <1>1. n \in Tx /\ n.at = next /\ n.loaded = {}
    BY NoTxType DEF NoTx
  <1>2. owner' \in [Row -> Client \cup {None}] /\ tx' = [tx EXCEPT ![c] = n]
    BY DEF LocksInv, TypeOK, Commit
  <1>3. overtaken' = {}
    BY NobodyOvertaken DEF Commit
  <1>4. Holds(c, n, owner')
    BY <1>1 DEF Holds
  <1>5. \A x \in Row : \A b \in Client \ {c} : owner[x] = b => owner'[x] = b
    BY DEF Commit
  <1> HIDE DEF n
  <1> QED BY <1>1, <1>2, <1>3, <1>4, <1>5, ClientStep

(* The sequences SetToSeqs makes of a finite set list it.                    *)
LEMMA SeqsList ==
    ASSUME NEW S, IsFiniteSet(S), NEW q \in SetToSeqs(S)
    PROVE  q \in Seq(S) /\ \A x \in S : \E i \in 1..Len(q) : q[i] = x
  <1> DEFINE n == Cardinality(S)
  <1>1. n \in Nat
    BY FS_CardinalityType
  <1>2. q \in [1..n -> S] /\ \A i, j \in 1..n : i # j => q[i] # q[j]
    BY DEF SetToSeqs
  <1> HIDE DEF n
  <1>3. q \in Seq(S) /\ Len(q) = n
    BY <1>1, <1>2
  <1>4. IsFiniteSet(1..n) /\ Cardinality(1..n) = n
    BY <1>1, FS_Interval
  <1>5. q \in Injection(1..n, S)
    BY <1>2 DEF Injection, IsInjective
  <1>6. q \in Surjection(1..n, S)
    BY <1>4, <1>5, FS_Injection DEF n
  <1>7. \A x \in S : \E i \in 1..n : q[i] = x
    BY <1>6 DEF Surjection
  <1> QED BY <1>3, <1>7

\* Sets of rows are finite.
LEMMA FiniteDispatches == \A D \in SUBSET Dispatch : IsFiniteSet(D)
  <1>1. NumDispatches \in Int /\ 1 \in Int
    BY RowLocksAssumption
  <1>2. IsFiniteSet(1..NumDispatches)
    BY <1>1, FS_Interval
  <1> QED BY <1>2, FS_Subset DEF Dispatch

(* An opened transaction has its first lock and has loaded nothing.          *)
LEMMA OpenStep ==
    ASSUME LocksInv, NEW c \in Client, NEW at \in {"commit", "pick", "load", "request", "rows"},
           NEW first \in Row, NEW wait \in Seq(Row), NEW rows \in SUBSET Dispatch,
           Open(c, at, first, wait, rows),
           \A d \in Dispatch : c = Complete(d) /\ at = "load" => first = RunOf[d],
           at = "request" => first \in Run /\ c = CancelHandler(first),
           at = "rows" => first \in Run,
           at = "load" => c \notin Canceling
    PROVE  LocksInv'
  <1> DEFINE n == [NoTx EXCEPT !.at = at, !.wait = wait, !.rows = rows]
  <1>1. n \in Tx /\ n.at = at /\ n.loaded = {}
    BY DEF NoTx, Tx
  <1>2. /\ owner' \in [Row -> Client \cup {None}] /\ owner'[first] = c
        /\ \A x \in Row : \A b \in Client \ {c} : owner[x] = b => owner'[x] = b
    BY ClientAssumption DEF LocksInv, TypeOK, Open, Mine
  <1>3. /\ tx' = [tx EXCEPT ![c] = n]
        /\ UNCHANGED <<status, run, carried, overtaken>>
    BY DEF Open
  <1>4. Holds(c, n, owner')
    <2>1. \A r \in Run : c = CancelHandler(r) /\ n.at = "request" => owner'[r] = c
      BY <1>1, <1>2, Distinct
    <2> QED BY <1>1, <1>2, <2>1 DEF Holds
  <1> HIDE DEF n
  <1> QED BY <1>1, <1>2, <1>3, <1>4, ClientStep DEF LocksInv, TypeOK

\* A lock is given only when nobody has it.
LEMMA LockStep ==
    ASSUME LocksInv, NEW c \in Client, Lock(c)
    PROVE  LocksInv'
  <1> DEFINE t == tx[c]
             n == [t EXCEPT !.wait = Tail(@)]
             x == Head(t.wait)
  <1>1. t \in Tx /\ Holds(c, t, owner)
    BY DEF LocksInv, TypeOK
  <1>2. t.wait # <<>> /\ Mine(c, x) /\ owner' = [owner EXCEPT ![x] = c]
    BY DEF Lock
  <1>3. tx' = [tx EXCEPT ![c] = n] /\ UNCHANGED <<status, run, carried, overtaken>>
    BY DEF Lock
  <1> HIDE DEF t
  <1>4. /\ t.wait \in Seq(Row) /\ x \in Row /\ Tail(t.wait) \in Seq(Row)
        /\ \A i \in DOMAIN t.wait : t.wait[i] = x \/ \E j \in DOMAIN Tail(t.wait) : Tail(t.wait)[j] = t.wait[i]
    <2>1. t.wait \in Seq(Row)
      BY <1>1 DEF Tx
    <2>2. /\ x \in Row /\ Tail(t.wait) \in Seq(Row)
          /\ Len(Tail(t.wait)) = Len(t.wait) - 1
          /\ \A i \in 1..Len(Tail(t.wait)) : Tail(t.wait)[i] = t.wait[i+1]
      BY <1>2, <2>1, HeadTailProperties
    <2>3. ASSUME NEW i \in 1..Len(t.wait), i # 1
          PROVE  \E j \in 1..Len(Tail(t.wait)) : Tail(t.wait)[j] = t.wait[i]
      <3>1. i - 1 \in 1..Len(Tail(t.wait)) /\ (i - 1) + 1 = i
        BY <2>1, <2>2, <2>3, LenProperties
      <3> QED BY <2>2, <3>1
    <2>4. DOMAIN t.wait = 1..Len(t.wait) /\ DOMAIN Tail(t.wait) = 1..Len(Tail(t.wait))
      BY <2>1, <2>2, LenProperties
    <2>5. t.wait[1] = x
      BY <1>2, <2>1
    <2> QED BY <2>1, <2>2, <2>3, <2>4, <2>5
  <1>5. /\ n \in Tx /\ n.at = t.at /\ n.rows = t.rows /\ n.loaded = t.loaded
        /\ n.wait = Tail(t.wait)
    BY <1>1, <1>4 DEF Tx
  <1>6. /\ owner' \in [Row -> Client \cup {None}] /\ owner'[x] = c
        /\ \A y \in Row : \A b \in Client \ {c} : owner[y] = b => owner'[y] = b
        /\ \A y \in Row : owner[y] = c => owner'[y] = c
    BY <1>2, <1>4, ClientAssumption DEF LocksInv, TypeOK, Mine
  <1>7. Holds(c, n, owner')
    <2>1. /\ t.loaded \subseteq Run /\ t.rows \subseteq Dispatch /\ Run \subseteq Row
          /\ \A d \in Dispatch : RunOf[d] \in Run
      BY <1>1, RowLocksAssumption DEF Tx, Row
    <2>2. \A r \in Run : t.wait = <<r>> => x = r
      OBVIOUS
    <2> HIDE DEF n, x, Dispatch
    <2>3. /\ \A r \in n.loaded : owner'[r] = c
          /\ \A d \in Dispatch : c = Complete(d) /\ n.at = "load" => owner'[RunOf[d]] = c
          /\ \A r \in Run : c = CancelHandler(r) /\ n.at = "request" => owner'[r] = c
      BY <1>1, <1>5, <1>6, <2>1 DEF Holds
    <2>4. /\ n.at = "rows" => \E r \in Run : owner'[r] = c \/ n.wait = <<r>>
          /\ c \in Canceling /\ n.at = "load" => \E r \in Run : owner'[r] = c
      BY <1>1, <1>5, <1>6, <2>1, <2>2 DEF Holds
    <2>5. n.at = "orphans" =>
             \A d \in n.rows : owner'[RunOf[d]] = c \/ \E i \in DOMAIN n.wait : n.wait[i] = RunOf[d]
      BY <1>1, <1>4, <1>5, <1>6, <2>1 DEF Holds
    <2> QED BY <2>3, <2>4, <2>5 DEF Holds
  <1> HIDE DEF n
  <1> QED BY <1>3, <1>5, <1>6, <1>7, ClientStep DEF LocksInv, TypeOK

(* Picked rows come with their Runs; a Run may be left locked without one.   *)
LEMMA PickStep ==
    ASSUME LocksInv, NEW c \in Client, NEW D \in SUBSET Dispatch,
           NEW chosen \in SUBSET Unlocked(c, D), NEW next \in {"commit", "reap"},
           Pick(c, D, chosen, next)
    PROVE  LocksInv'
  <1> DEFINE t == tx[c]
             n == [t EXCEPT !.at = next, !.rows = chosen, !.loaded = RunsOf(chosen)]
             halves == RunsOf({d \in D : Mine(c, RunOf[d]) /\ ~Mine(c, d)})
             locked == chosen \cup RunsOf(chosen) \cup halves
  <1>1. t \in Tx
    BY DEF LocksInv, TypeOK
  <1>2. /\ owner' = [x \in Row |-> IF x \in locked THEN c ELSE owner[x]]
        /\ tx' = [tx EXCEPT ![c] = n] /\ UNCHANGED <<status, run, carried, overtaken>>
    BY DEF Pick
  <1> HIDE DEF t
  <1>3. chosen \subseteq Dispatch /\ RunsOf(chosen) \subseteq Run /\ RunsOf(chosen) \subseteq Row
    BY RowLocksAssumption DEF Unlocked, RunsOf, Row
  <1>4. n \in Tx /\ n.at = next /\ n.loaded = RunsOf(chosen)
    BY <1>1, <1>3 DEF Tx
  <1>5. \A x \in locked : Mine(c, x)
    BY DEF Unlocked, RunsOf
  <1>6. RunsOf(chosen) \subseteq locked
    OBVIOUS
  <1> HIDE DEF locked
  <1>7. /\ owner' \in [Row -> Client \cup {None}]
        /\ \A x \in Row : \A b \in Client \ {c} : owner[x] = b => owner'[x] = b
    BY <1>2, <1>5, ClientAssumption DEF LocksInv, TypeOK, Mine
  <1>8. Holds(c, n, owner')
    BY <1>2, <1>3, <1>4, <1>6 DEF Holds
  <1> HIDE DEF n
  <1> QED BY <1>2, <1>4, <1>7, <1>8, ClientStep DEF LocksInv, TypeOK

(* loadSnapshot of Runs whose lock is held.                                  *)
LEMMA LoadStep ==
    ASSUME LocksInv, NEW c \in Client, NEW runs \in SUBSET Run, Load(c, runs),
           \A r \in runs : owner[r] = c
    PROVE  LocksInv'
  <1> DEFINE t == tx[c]
             n == [t EXCEPT !.at = "commit", !.loaded = runs]
  <1>1. t \in Tx
    BY DEF LocksInv, TypeOK
  <1>2. tx' = [tx EXCEPT ![c] = n] /\ UNCHANGED <<status, run, carried, owner, overtaken>>
    BY DEF Load
  <1> HIDE DEF t
  <1>3. n \in Tx /\ n.at = "commit" /\ n.loaded = runs
    BY <1>1 DEF Tx
  <1> HIDE DEF n
  <1>4. Holds(c, n, owner')
    BY <1>2, <1>3 DEF Holds
  <1> QED BY <1>2, <1>3, <1>4, ClientStep DEF LocksInv, TypeOK

-----------------------------------------------------------------------------
(* The transactions of the workers.                                          *)

\* The statements of heartbeats and claims.
LEMMA WorkerSteps ==
    ASSUME LocksInv, NEW w \in Worker,
           \/ BeginHeartbeat(w) \/ CommitHeartbeat(w)
           \/ BeginClaim(w) \/ PickPending(w) \/ CommitClaim(w)
    PROVE  LocksInv'
  <1>1. /\ TypeOK /\ w \in Row /\ Heartbeat(w) \in Client /\ Claim(w) \in Client
        /\ carried[w] \in SUBSET Dispatch /\ Dispatch \subseteq Row
    BY Clients DEF LocksInv, TypeOK, Row
  <1>2. /\ \A d \in Dispatch : Heartbeat(w) # Complete(d) /\ Claim(w) # Complete(d)
        /\ \A r \in Run : Heartbeat(w) # CancelHandler(r) /\ Claim(w) # CancelHandler(r)
    BY DEF Heartbeat, Claim, Complete, CancelHandler
  <1>3. CASE BeginHeartbeat(w)
    <2>1. PICK order \in SetToSeqs(carried[w]) :
             Open(Heartbeat(w), "commit", w, order, carried[w])
      BY <1>3 DEF BeginHeartbeat
    <2>2. order \in Seq(Row)
      BY <1>1, FiniteDispatches, SeqsList, SeqMonotonic
    <2> QED BY <1>1, <1>2, <2>1, <2>2, OpenStep
  <1>4. CASE CommitHeartbeat(w)
    <2>1. carried' \in [Worker -> SUBSET Dispatch] /\ UNCHANGED <<status, run>>
      BY <1>1, <1>4 DEF CommitHeartbeat, TypeOK
    <2>2. Commit(Heartbeat(w), {}, "idle")
      BY <1>4 DEF CommitHeartbeat
    <2> QED BY <1>1, <2>1, <2>2, CommitStep DEF TypeOK
  <1>5. CASE BeginClaim(w)
    <2>1. Open(Claim(w), "pick", w, <<>>, {})
      BY <1>5 DEF BeginClaim
    <2>2. <<>> \in Seq(Row) /\ {} \in SUBSET Dispatch
      BY EmptySeq
    <2> QED BY <1>1, <1>2, <2>1, <2>2, OpenStep
  <1>6. CASE PickPending(w)
    <2>1. Claimable \in SUBSET Dispatch
      BY DEF Claimable
    <2> QED BY <1>1, <1>6, <2>1, PickStep DEF PickPending
  <1>7. CASE CommitClaim(w)
    <2> DEFINE c == Claim(w)
    <2>1. tx[c].rows \subseteq Dispatch /\ tx[c].loaded \in SUBSET Run
      BY <1>1 DEF TypeOK, Tx
    <2>2. \A r \in tx[c].loaded : owner[r] = c
      BY <1>1 DEF LocksInv, Holds
    <2>3. Commit(c, tx[c].loaded, "idle") /\ UNCHANGED run
      BY <1>7 DEF CommitClaim
    <2>4. status' \in [Dispatch -> {"none", "pending", "leased", "closed"}]
      BY <1>1, <1>7 DEF CommitClaim, TypeOK
    <2>5. carried' \in [Worker -> SUBSET Dispatch]
      BY <1>1, <1>7, <2>1 DEF CommitClaim, TypeOK
    <2> QED BY <1>1, <2>1, <2>2, <2>3, <2>4, <2>5, CommitStep DEF TypeOK
  <1> QED BY <1>3, <1>4, <1>5, <1>6, <1>7

\* The statements of Complete: the Run is loaded after it is locked.
LEMMA CompleteSteps ==
    ASSUME LocksInv, NEW d \in Dispatch,
           BeginComplete(d) \/ LoadComplete(d) \/ CommitComplete(d)
    PROVE  LocksInv'
  <1> DEFINE c == Complete(d)
  <1>1. /\ TypeOK /\ c \in Client /\ RunOf[d] \in Run /\ RunOf[d] \in Row /\ d \in Row
        /\ c \notin Canceling
    BY Clients, Distinct, RowLocksAssumption DEF LocksInv, Row
  <1>2. CASE BeginComplete(d)
    <2>1. Head(CompleteLocks(d)) = RunOf[d] /\ Tail(CompleteLocks(d)) \in Seq(Row)
      BY <1>1 DEF CompleteLocks
    <2>2. Open(c, "load", RunOf[d], Tail(CompleteLocks(d)), {d})
      BY <1>2, <2>1 DEF BeginComplete
    <2>3. /\ \A e \in Dispatch : c = Complete(e) => RunOf[d] = RunOf[e]
          /\ \A r \in Run : c # CancelHandler(r)
          /\ {d} \in SUBSET Dispatch
      BY Distinct
    <2> HIDE DEF c
    <2> QED BY <1>1, <2>1, <2>2, <2>3, OpenStep
  <1>3. CASE LoadComplete(d)
    <2>1. owner[RunOf[d]] = c
      BY <1>1, <1>3 DEF LoadComplete, Running, LocksInv, Holds
    <2> QED BY <1>1, <1>3, <2>1, LoadStep DEF LoadComplete
  <1>4. CASE CommitComplete(d)
    <2>1. tx[c].loaded \in SUBSET Run
      BY <1>1 DEF TypeOK, Tx
    <2>2. \A r \in tx[c].loaded : owner[r] = c
      BY <1>1 DEF LocksInv, Holds
    <2>3. Commit(c, tx[c].loaded, "idle") /\ UNCHANGED run
      BY <1>4 DEF CommitComplete
    <2>4. status' \in [Dispatch -> {"none", "pending", "leased", "closed"}]
      BY <1>1, <1>4 DEF CommitComplete, TypeOK
    <2>5. carried' \in [Worker -> SUBSET Dispatch]
      BY <1>1, <1>4 DEF CommitComplete, TypeOK
    <2> QED BY <1>1, <2>1, <2>2, <2>3, <2>4, <2>5, CommitStep DEF TypeOK
  <1> QED BY <1>2, <1>3, <1>4

-----------------------------------------------------------------------------
(* Cancellation.                                                             *)

\* The statements of RequestCancel, and the beginning of a scan's cancellation.
LEMMA RequestSteps ==
    ASSUME LocksInv, NEW r \in Run,
           BeginRequest(r) \/ CommitRequest(r) \/ BeginScanCancel(r)
    PROVE  LocksInv'
  <1> DEFINE c == CancelHandler(r)
  <1>1. TypeOK /\ c \in Client /\ Scan \in Client /\ r \in Row
    BY Clients DEF LocksInv, Row
  <1>2. /\ <<>> \in Seq(Row) /\ {} \in SUBSET Dispatch
        /\ \A d \in Dispatch : c # Complete(d) /\ Scan # Complete(d)
        /\ \A q \in Run : (c = CancelHandler(q) => r = q) /\ Scan # CancelHandler(q)
    BY EmptySeq, Distinct DEF Canceling
  <1> HIDE DEF c
  <1>3. CASE BeginRequest(r)
    <2>1. Open(c, "request", r, <<>>, {})
      BY <1>3 DEF BeginRequest, c
    <2> QED BY <1>1, <1>2, <2>1, OpenStep DEF c
  <1>4. CASE BeginScanCancel(r)
    <2>1. Open(Scan, "rows", r, <<>>, {})
      BY <1>4 DEF BeginScanCancel
    <2> QED BY <1>1, <1>2, <2>1, OpenStep
  <1>5. CASE CommitRequest(r)
    <2> DEFINE v == <<r>>
               n == [NoTx EXCEPT !.at = "rows", !.wait = v]
    <2>1. owner[r] = c
      BY <1>1, <1>5 DEF CommitRequest, Running, LocksInv, Holds, c
    <2>2. n \in Tx /\ n.at = "rows" /\ n.wait = <<r>> /\ n.loaded = {}
      <3>1. v \in Seq(Row)
        BY <1>1
      <3> HIDE DEF v
      <3>2. n \in Tx /\ n.at = "rows" /\ n.wait = v /\ n.loaded = {}
        BY <3>1 DEF NoTx, Tx
      <3> QED BY <3>2 DEF v
    <2>3. Holds(c, n, owner')
      BY <2>2 DEF Holds
    <2>4. /\ owner' = [owner EXCEPT ![r] = None] /\ tx' = [tx EXCEPT ![c] = n]
          /\ UNCHANGED <<status, carried>>
      BY <1>5 DEF CommitRequest, c
    <2>5. /\ owner' \in [Row -> Client \cup {None}]
          /\ \A x \in Row : \A b \in Client \ {c} : owner[x] = b => owner'[x] = b
      BY <1>1, <2>1, <2>4 DEF TypeOK
    <2>6. run' \in [Run -> {"open", "canceling", "canceled"}]
      BY <1>1, <1>5 DEF CommitRequest, TypeOK
    <2>7. overtaken' = {}
      <3>1. \A b \in Client \ {c} : r \notin tx[b].loaded
        BY <2>1 DEF LocksInv, Holds
      <3> QED BY <1>5, <3>1 DEF CommitRequest, LocksInv, c
    <2> HIDE DEF n
    <2> QED BY <1>1, <2>2, <2>3, <2>4, <2>5, <2>6, <2>7, ClientStep DEF TypeOK
  <1> QED BY <1>3, <1>4, <1>5

\* The statements of CancelRun.
LEMMA CancelSteps ==
    ASSUME LocksInv, NEW c \in Canceling, LockActive(c) \/ LoadCancel(c) \/ CommitCancel(c)
    PROVE  LocksInv'
  <1> DEFINE t == tx[c]
  <1>1. /\ TypeOK /\ c \in Client /\ t \in Tx /\ Holds(c, t, owner)
        /\ \A d \in Dispatch : c # Complete(d)
    BY Clients, Distinct DEF LocksInv, TypeOK
  <1>2. CASE LockActive(c)
    <2>1. PICK order \in Ordered(Active(Canceled(c))) :
             tx' = [tx EXCEPT ![c].at = "load", ![c].wait = order]
      BY <1>2 DEF LockActive
    <2> DEFINE n == [t EXCEPT !.at = "load", !.wait = order]
    <2>2. UNCHANGED <<status, run, carried, owner, overtaken>> /\ t.at = "rows" /\ t.wait = <<>>
      BY <1>2 DEF LockActive, Running
    <2>3. order \in Seq(Row)
      <3>1. order \in SetToSeqs(Active(Canceled(c))) /\ Active(Canceled(c)) \in SUBSET Dispatch
        BY <2>1 DEF Ordered, Active
      <3>2. Dispatch \subseteq Row
        BY DEF Row
      <3> QED BY <3>1, <3>2, FiniteDispatches, SeqsList, SeqMonotonic
    <2>4. tx' = [tx EXCEPT ![c] = n]
      BY <2>1
    <2> HIDE DEF t
    <2>5. n \in Tx /\ n.at = "load" /\ n.loaded = t.loaded
      BY <1>1, <2>3 DEF Tx
    <2>6. Holds(c, n, owner')
      <3>1. \E r \in Run : owner[r] = c
        <4>1. \A r \in Run : <<r>> # <<>>
          OBVIOUS
        <4> QED BY <1>1, <2>2, <4>1 DEF Holds
      <3> QED BY <1>1, <2>2, <2>5, <3>1 DEF Holds
    <2> HIDE DEF n
    <2> QED BY <1>1, <2>2, <2>4, <2>5, <2>6, ClientStep DEF LocksInv, TypeOK
  <1>3. CASE LoadCancel(c)
    <2>1. Canceled(c) \in Run /\ owner[Canceled(c)] = c
      BY <1>1, <1>3 DEF LoadCancel, Running, Holds, Canceled
    <2>2. Load(c, IF run[Canceled(c)] = "canceled" THEN {} ELSE {Canceled(c)})
      BY <1>3 DEF LoadCancel
    <2> QED BY <1>1, <2>1, <2>2, LoadStep
  <1>4. CASE CommitCancel(c)
    <2>1. tx[c].loaded \in SUBSET Run /\ \A r \in tx[c].loaded : owner[r] = c
      BY <1>1 DEF Tx, Holds
    <2>2. Commit(c, tx[c].loaded, "idle") /\ UNCHANGED carried
      BY <1>4 DEF CommitCancel
    <2>3. status' \in [Dispatch -> {"none", "pending", "leased", "closed"}]
      BY <1>1, <1>4 DEF CommitCancel, TypeOK
    <2>4. run' \in [Run -> {"open", "canceling", "canceled"}]
      BY <1>1, <1>4 DEF CommitCancel, TypeOK
    <2> QED BY <1>1, <2>1, <2>2, <2>3, <2>4, CommitStep DEF TypeOK
  <1> QED BY <1>2, <1>3, <1>4

-----------------------------------------------------------------------------
(* The scan.                                                                 *)

\* The statements of ReapExpired.
LEMMA ReapSteps ==
    ASSUME LocksInv, BeginReap \/ PickExpired \/ CommitReap
    PROVE  LocksInv'
  <1>1. /\ TypeOK /\ Scan \in Client /\ tx[Scan] \in Tx
        /\ \A d \in Dispatch : Scan # Complete(d)
        /\ \A r \in Run : Scan # CancelHandler(r)
    BY Clients, Distinct DEF LocksInv, TypeOK, Canceling
  <1>2. CASE BeginReap
    <2>1. PICK order \in UNION {SetToSeqs(W) : W \in SUBSET Worker} :
             tx' = [tx EXCEPT ![Scan] = [NoTx EXCEPT !.at = "expired", !.wait = order]]
      BY <1>2 DEF BeginReap
    <2>2. PICK W \in SUBSET Worker : order \in SetToSeqs(W)
      OBVIOUS
    <2> DEFINE n == [NoTx EXCEPT !.at = "expired", !.wait = order]
    <2>3. order \in Seq(Row)
      <3>1. IsFiniteSet(W)
        BY RowLocksAssumption, FS_Subset
      <3>2. W \subseteq Row
        BY DEF Row
      <3> QED BY <2>2, <3>1, <3>2, SeqsList, SeqMonotonic
    <2>4. n \in Tx /\ n.at = "expired" /\ n.loaded = {}
      BY <2>3 DEF NoTx, Tx
    <2>5. UNCHANGED <<status, run, carried, owner, overtaken>>
      BY <1>2 DEF BeginReap
    <2>6. Holds(Scan, n, owner')
      BY <2>4 DEF Holds
    <2>7. tx' = [tx EXCEPT ![Scan] = n]
      BY <2>1
    <2> HIDE DEF n
    <2> QED BY <1>1, <2>4, <2>5, <2>6, <2>7, ClientStep DEF LocksInv, TypeOK
  <1>3. CASE PickExpired
    <2>1. PICK expired \in SUBSET Leased : Pick(Scan, expired, Unlocked(Scan, expired), "reap")
      BY <1>3 DEF PickExpired
    <2>2. expired \in SUBSET Dispatch
      BY DEF Leased
    <2> QED BY <1>1, <2>1, <2>2, PickStep
  <1>4. CASE CommitReap
    <2>1. tx[Scan].loaded \in SUBSET Run /\ \A r \in tx[Scan].loaded : owner[r] = Scan
      BY <1>1 DEF LocksInv, Tx, Holds
    <2>2. Commit(Scan, tx[Scan].loaded, "create") /\ UNCHANGED <<run, carried>>
      BY <1>4 DEF CommitReap
    <2>3. status' \in [Dispatch -> {"none", "pending", "leased", "closed"}]
      BY <1>1, <1>4 DEF CommitReap, TypeOK
    <2> QED BY <1>1, <2>1, <2>2, <2>3, CommitStep DEF TypeOK
  <1> QED BY <1>2, <1>3, <1>4

\* A nonempty set of numbers has a smallest one.
LEMMA SmallestOf ==
    ASSUME NEW S, S # {}, S \subseteq Nat
    PROVE  \E m \in S : \A k \in S : m <= k
  <1> DEFINE R == {ss \in Nat \X Nat : ss[1] < ss[2]}
  <1>1. R = OpToRel(<, Nat)
    BY DEF OpToRel
  <1>2. IsWellFoundedOn(R, Nat)
    BY <1>1, NatLessThanWellFounded
  <1> HIDE DEF R
  <1>3. PICK m \in S : \A k \in S : <<k, m>> \notin R
    BY <1>2, WFMin
  <1>4. \A k \in S : ~(k < m)
    BY <1>3 DEF R
  <1> QED BY <1>4

(* The list of locks for orphaned rows names the Run of each.                *)
LEMMA OrphansList ==
    ASSUME NEW D \in SUBSET Dispatch, NEW order \in SetToSeqs(D)
    PROVE  /\ OrphanLocks(order) \in Seq(Row)
           /\ \A d \in D : \E i \in DOMAIN OrphanLocks(order) : OrphanLocks(order)[i] = RunOf[d]
  <1>1. order \in Seq(D) /\ \A d \in D : \E i \in 1..Len(order) : order[i] = d
    BY FiniteDispatches, SeqsList
  <1>2. Len(order) \in Nat /\ \A i \in 1..Len(order) : order[i] \in D
    BY <1>1, LenProperties, ElementOfSeq
  <1> DEFINE n == Len(order)
             F(i) == IF i % 2 = 1 THEN RunOf[order[(i + 1) \div 2]] ELSE order[i \div 2]
  <1>3. OrphanLocks(order) = [i \in 1..(2 * n) |-> F(i)]
    BY DEF OrphanLocks
  <1> HIDE DEF n
  <1>4. ASSUME NEW i \in 1..(2 * n) PROVE F(i) \in Row
    <2>1. CASE i % 2 = 1
      <3>1. (i + 1) \div 2 \in 1..n
        BY <1>2, <2>1 DEF n
      <3> QED BY <1>2, <2>1, <3>1, RowLocksAssumption DEF Row, n
    <2>2. CASE i % 2 # 1
      <3>1. i \div 2 \in 1..n
        BY <1>2, <2>2 DEF n
      <3> QED BY <1>2, <2>2, <3>1 DEF Row, n
    <2> QED BY <2>1, <2>2
  <1>5. 2 * n \in Nat
    BY <1>2 DEF n
  <1>6. OrphanLocks(order) \in Seq(Row) /\ DOMAIN OrphanLocks(order) = 1..(2 * n)
    <2> HIDE DEF F
    <2>1. [i \in 1..(2 * n) |-> F(i)] \in [1..(2 * n) -> Row]
      BY <1>4
    <2> QED BY <1>3, <1>5, <2>1, SeqDef
  <1>7. ASSUME NEW d \in D PROVE \E i \in 1..(2 * n) : OrphanLocks(order)[i] = RunOf[d]
    <2>1. PICK k \in 1..n : order[k] = d
      BY <1>1 DEF n
    <2>2. 2 * k - 1 \in 1..(2 * n) /\ (2 * k - 1) % 2 = 1 /\ ((2 * k - 1) + 1) \div 2 = k
      BY <1>2 DEF n
    <2>3. F(2 * k - 1) = RunOf[d]
      BY <2>1, <2>2
    <2> HIDE DEF F
    <2> QED BY <1>3, <2>2, <2>3
  <1> QED BY <1>6, <1>7

\* The statements of CreateDispatches.
LEMMA CreateSteps ==
    ASSUME LocksInv, BeginCreate \/ PickCandidates \/ CommitCreate
    PROVE  LocksInv'
  <1> DEFINE t == tx[Scan]
  <1>1. /\ TypeOK /\ Scan \in Client /\ t \in Tx /\ Holds(Scan, t, owner)
        /\ \A d \in Dispatch : Scan # Complete(d)
        /\ \A r \in Run : Scan # CancelHandler(r)
        /\ \A d \in Dispatch : RunOf[d] \in Run
        /\ Run \subseteq Row
    BY Clients, Distinct, RowLocksAssumption DEF LocksInv, TypeOK, Canceling, Row
  <1>2. CASE BeginCreate
    <2>1. PICK orphans \in SUBSET Claimable : \E order \in SetToSeqs(orphans) :
             tx' = [tx EXCEPT ![Scan] = [NoTx EXCEPT !.at = "orphans", !.wait = OrphanLocks(order),
                                                     !.rows = orphans]]
      BY <1>2 DEF BeginCreate
    <2>2. PICK order \in SetToSeqs(orphans) :
             tx' = [tx EXCEPT ![Scan] = [NoTx EXCEPT !.at = "orphans", !.wait = OrphanLocks(order),
                                                     !.rows = orphans]]
      BY <2>1
    <2> DEFINE v == OrphanLocks(order)
               n == [NoTx EXCEPT !.at = "orphans", !.wait = v, !.rows = orphans]
    <2>3. orphans \in SUBSET Dispatch
      BY DEF Claimable
    <2>4. v \in Seq(Row) /\ \A d \in orphans : \E i \in DOMAIN v : v[i] = RunOf[d]
      BY <2>3, OrphansList
    <2>5. UNCHANGED <<status, run, carried, owner, overtaken>>
      BY <1>2 DEF BeginCreate
    <2>6. tx' = [tx EXCEPT ![Scan] = n]
      BY <2>2
    <2> HIDE DEF v
    <2>7. n \in Tx /\ n.at = "orphans" /\ n.wait = v /\ n.rows = orphans /\ n.loaded = {}
      BY <2>3, <2>4 DEF NoTx, Tx
    <2> HIDE DEF n
    <2>8. Holds(Scan, n, owner')
      BY <2>4, <2>7 DEF Holds
    <2> QED BY <1>1, <2>5, <2>6, <2>7, <2>8, ClientStep DEF LocksInv, TypeOK
  <1>3. CASE PickCandidates
    <2> DEFINE returned == {d \in t.rows : status[d] = "pending"}
               open == {r \in Run : /\ run[r] = "open"
                                    /\ Mine(Scan, r)
                                    /\ \E d \in Dispatch : RunOf[d] = r /\ status[d] = "none"}
    <2>1. PICK R \in SUBSET open :
             /\ owner' = [x \in Row |-> IF x \in R THEN Scan ELSE owner[x]]
             /\ tx' = [tx EXCEPT ![Scan].at = "insert",
                                 ![Scan].rows = returned \cup {NewRow(r) : r \in R},
                                 ![Scan].loaded = RunsOf(returned) \cup R]
      BY <1>3 DEF PickCandidates
    <2> DEFINE fresh == {NewRow(r) : r \in R}
               n == [t EXCEPT !.at = "insert", !.rows = returned \cup fresh,
                              !.loaded = RunsOf(returned) \cup R]
    <2>2. UNCHANGED <<status, run, carried, overtaken>> /\ t.at = "orphans" /\ t.wait = <<>>
      BY <1>3 DEF PickCandidates, Running
    <2>3. returned \subseteq Dispatch /\ RunsOf(returned) \subseteq Run /\ R \subseteq Run
      BY <1>1 DEF Tx, RunsOf
    <2>4. \A r \in R : Mine(Scan, r) /\ \E d \in Dispatch : RunOf[d] = r /\ status[d] = "none"
      OBVIOUS
    <2>5. fresh \subseteq Dispatch
      <3> SUFFICES ASSUME NEW r \in R PROVE NewRow(r) \in Dispatch
        OBVIOUS
      <3> DEFINE free == {d \in Dispatch : RunOf[d] = r /\ status[d] = "none"}
      <3>1. free # {} /\ free \subseteq Nat
        BY <2>4, RowLocksAssumption DEF Dispatch
      <3> HIDE DEF free
      <3>2. \E m \in free : \A k \in free : m <= k
        BY <3>1, SmallestOf
      <3>3. Min(free) \in free
        BY <3>2 DEF Min
      <3> QED BY <3>3 DEF NewRow, free
    <2>6. \A r \in RunsOf(returned) : owner[r] = Scan
      <3>1. \A d \in t.rows : owner[RunOf[d]] = Scan
        <4>1. DOMAIN t.wait = {}
          BY <2>2
        <4> QED BY <1>1, <2>2, <4>1 DEF Holds
      <3> QED BY <3>1 DEF RunsOf
    <2>7. tx' = [tx EXCEPT ![Scan] = n]
      BY <2>1, ZenonT(60)
    <2>8. n \in Tx /\ n.at = "insert" /\ n.loaded = RunsOf(returned) \cup R
      <3> HIDE DEF t, returned, fresh
      <3> QED BY <1>1, <2>3, <2>5 DEF Tx
    <2> HIDE DEF n, open, returned
    <2>9. /\ owner' \in [Row -> Client \cup {None}]
          /\ \A x \in Row : \A b \in Client \ {Scan} : owner[x] = b => owner'[x] = b
      <3>1. \A x \in R : owner[x] = None \/ owner[x] = Scan
        BY <2>4 DEF Mine
      <3>2. owner \in [Row -> Client \cup {None}] /\ None \notin Client
        BY <1>1, ClientAssumption DEF TypeOK
      <3>3. owner' = [x \in Row |-> IF x \in R THEN Scan ELSE owner[x]] /\ Scan \in Client
        BY <1>1, <2>1
      <3> QED BY <3>1, <3>2, <3>3
    <2>10. Holds(Scan, n, owner')
      <3>1. \A r \in n.loaded : owner'[r] = Scan
        BY <1>1, <2>1, <2>3, <2>6, <2>8
      <3> QED BY <1>1, <2>8, <3>1 DEF Holds
    <2> QED BY <1>1, <2>2, <2>7, <2>8, <2>9, <2>10, ClientStep DEF LocksInv, TypeOK
  <1>4. CASE CommitCreate
    <2>1. tx[Scan].loaded \in SUBSET Run /\ \A r \in tx[Scan].loaded : owner[r] = Scan
      BY <1>1 DEF Tx, Holds
    <2>2. Commit(Scan, tx[Scan].loaded, "idle") /\ UNCHANGED <<run, carried>>
      BY <1>4 DEF CommitCreate
    <2>3. status' \in [Dispatch -> {"none", "pending", "leased", "closed"}]
      BY <1>1, <1>4 DEF CommitCreate, TypeOK
    <2> QED BY <1>1, <2>1, <2>2, <2>3, CommitStep DEF TypeOK
  <1> QED BY <1>2, <1>3, <1>4

\* Nothing is locked at first.
LEMMA LocksInit == Init => LocksInv
  <1> SUFFICES ASSUME Init PROVE LocksInv
    OBVIOUS
  <1>1. TypeOK
    BY NoTxType DEF Init, TypeOK
  <1>2. \A c \in Client : Holds(c, tx[c], owner)
    BY DEF Init, Holds, NoTx
  <1> QED BY <1>1, <1>2 DEF Init, LocksInv

\* Every step keeps the lock discipline.
LEMMA LocksNext == LocksInv /\ [Next]_vars => LocksInv'
  <1> SUFFICES ASSUME LocksInv, [Next]_vars PROVE LocksInv'
    OBVIOUS
  <1>1. ASSUME NEW c \in Client, DeadlockVictim(c) PROVE LocksInv'
    <2>1. Commit(c, {}, "idle") /\ UNCHANGED <<status, run, carried>>
      BY <1>1 DEF DeadlockVictim
    <2> QED BY <2>1, CommitStep DEF LocksInv, TypeOK
  <1>2. CASE UNCHANGED vars
    BY <1>2 DEF vars, LocksInv, TypeOK, Holds
  <1> QED BY <1>1, <1>2, WorkerSteps, CompleteSteps, RequestSteps, CancelSteps, ReapSteps,
             CreateSteps, LockStep DEF Next

(* Between loading a Run and committing what was derived from it no other    *)
(* transaction commits a change of that Run, for every number of Runs,       *)
(* workers, slots and dispatch rows: the FOR UPDATE locks of claim, result,  *)
(* cancellation and scan suffice, and the revision check of applyChangeSetTx *)
(* is never what refuses one of them.                                        *)
THEOREM NoUpdateLost == Spec => []NoLostUpdate
  <1>1. LocksInv => NoLostUpdate
    BY DEF LocksInv, NoLostUpdate
  <1> QED BY <1>1, LocksInit, LocksNext, PTL DEF Spec
-----------------------------------------------------------------------------
(* Circular waits.  First what Blockers computes: a set closed under         *)
(* Blocker that contains the first blocker contains them all, and the first  *)
(* three on the way are among them.                                          *)

\* Induction over the natural numbers for a set.
LEMMA NatSteps ==
    ASSUME NEW S, 0 \in S, \A n \in Nat : n \in S => n + 1 \in S
    PROVE  Nat \subseteq S
  <1>1. SUFFICES ASSUME Nat \ S # {} PROVE FALSE
    OBVIOUS
  <1>2. PICK n \in Nat \ S : \A m \in Nat \ S : n <= m
    BY <1>1, SmallestOf
  <1>3. n # 0 /\ n - 1 \in Nat
    BY <1>2
  <1>4. n - 1 \in S
    BY <1>2, <1>3
  <1>5. (n - 1) + 1 \in S
    BY <1>3, <1>4
  <1> QED BY <1>2, <1>5

\* The clients reached from those of B with one more step.
Further(B) == B \cup UNION {Blocker(b) : b \in B}

\* f lists what is reached from c with up to n + 1 steps.
Reaches(c, N, f) ==
    f = [n \in 0..N |-> IF n = 0 THEN Blocker(c) ELSE Further(f[n-1])]

\* There is such a list for every length.
LEMMA ReachExists ==
    ASSUME NEW c, NEW N \in Nat
    PROVE  \E f : Reaches(c, N, f)
  <1> DEFINE S == {n \in Nat : \E f : Reaches(c, n, f)}
  <1>1. 0 \in S
    <2> DEFINE f == [n \in 0..0 |-> Blocker(c)]
    <2>1. Reaches(c, 0, f)
      BY DEF Reaches
    <2> QED BY <2>1
  <1>2. ASSUME NEW n \in Nat, n \in S PROVE n + 1 \in S
    <2>1. PICK f : Reaches(c, n, f)
      BY <1>2
    <2> DEFINE g == [m \in 0..(n+1) |-> IF m <= n THEN f[m] ELSE Further(f[n])]
    <2>2. \A m \in 0..n : f[m] = IF m = 0 THEN Blocker(c) ELSE Further(f[m-1])
      BY <2>1 DEF Reaches
    <2>3. ASSUME NEW m \in 0..(n+1)
          PROVE  g[m] = IF m = 0 THEN Blocker(c) ELSE Further(g[m-1])
      <3>1. CASE m <= n
        <4>1. g[m] = f[m] /\ (m # 0 => m - 1 \in 0..(n+1) /\ g[m-1] = f[m-1])
          BY <3>1
        <4> HIDE DEF g
        <4> QED BY <2>2, <3>1, <4>1
      <3>2. CASE m = n + 1
        <4>1. m # 0 /\ g[m] = Further(f[n]) /\ m - 1 = n /\ g[n] = f[n]
          BY <3>2
        <4> HIDE DEF g
        <4> QED BY <4>1
      <3> QED BY <3>1, <3>2
    <2>4. Reaches(c, n + 1, g)
      <3>1. g = [m \in 0..(n+1) |-> g[m]]
        OBVIOUS
      <3> HIDE DEF g
      <3> QED BY <2>3, <3>1 DEF Reaches
    <2> QED BY <2>4
  <1>3. Nat \subseteq S
    <2> HIDE DEF S
    <2> QED BY <1>1, <1>2, NatSteps
  <1> QED BY <1>3

\* As many clients of a kind as there are rows.
LEMMA KindFinite ==
    ASSUME NEW k, NEW S, IsFiniteSet(S) PROVE IsFiniteSet({<<k, x>> : x \in S})
  <1> DEFINE f == [x \in S |-> <<k, x>>]
             T == {<<k, x>> : x \in S}
  <1>1. f \in Surjection(S, T)
    BY DEF Surjection
  <1> HIDE DEF f, T
  <1>2. IsFiniteSet(T)
    BY <1>1, FS_Surjection
  <1> QED BY <1>2 DEF T

\* There are finitely many clients, and with a worker at least three.
LEMMA ClientsCount ==
    /\ IsFiniteSet(Client) /\ Cardinality(Client) \in Nat
    /\ Worker # {} => Cardinality(Client) >= 3
  <1>1. IsFiniteSet(Dispatch)
    BY FiniteDispatches
  <1>2. IsFiniteSet({Heartbeat(w) : w \in Worker})
    BY RowLocksAssumption, KindFinite DEF Heartbeat
  <1>3. IsFiniteSet({Claim(w) : w \in Worker})
    BY RowLocksAssumption, KindFinite DEF Claim
  <1>4. IsFiniteSet({Complete(d) : d \in Dispatch})
    BY <1>1, KindFinite DEF Complete
  <1>5. IsFiniteSet({CancelHandler(r) : r \in Run})
    BY RowLocksAssumption, KindFinite DEF CancelHandler
  <1>6. IsFiniteSet({Scan})
    BY FS_Singleton
  <1>7. IsFiniteSet(Client)
    BY <1>2, <1>3, <1>4, <1>5, <1>6, FS_Union DEF Client
  <1>8. ASSUME NEW w \in Worker PROVE Cardinality(Client) >= 3
    <2>1. Heartbeat(w) # Claim(w) /\ Heartbeat(w) # Scan /\ Claim(w) # Scan
      BY DEF Heartbeat, Claim, Scan
    <2> DEFINE one == {Heartbeat(w)}
               two == one \cup {Claim(w)}
               three == two \cup {Scan}
    <2>2. IsFiniteSet(one) /\ Cardinality(one) = 1
      BY FS_Singleton
    <2>3. IsFiniteSet(two) /\ Cardinality(two) = 2
      <3>1. Claim(w) \notin one
        BY <2>1
      <3> HIDE DEF one
      <3> QED BY <2>2, <3>1, FS_AddElement
    <2>4. IsFiniteSet(three) /\ Cardinality(three) = 3
      <3>1. Scan \notin two
        BY <2>1
      <3> HIDE DEF two
      <3> QED BY <2>3, <3>1, FS_AddElement
    <2>5. three \subseteq Client
      BY Clients
    <2> HIDE DEF three
    <2> QED BY <1>7, <2>4, <2>5, FS_Subset
  <1> QED BY <1>7, <1>8, FS_CardinalityType

\* Blockers is the last entry of the list.
LEMMA BlockersReach ==
    ASSUME NEW c
    PROVE  \E f : Reaches(c, Cardinality(Client), f) /\ Blockers(c) = f[Cardinality(Client)]
  <1> DEFINE N == Cardinality(Client)
             g == CHOOSE f : Reaches(c, N, f)
  <1>1. N \in Nat
    BY ClientsCount
  <1>2. Reaches(c, N, g)
    <2> HIDE DEF N
    <2>1. \E f : Reaches(c, N, f)
      BY <1>1, ReachExists
    <2> QED BY <2>1
  <1>3. Blockers(c) = g[N]
    BY DEF Blockers, Reaches, Further
  <1> HIDE DEF g
  <1> QED BY <1>2, <1>3

\* What contains the first blocker and is closed contains all blockers.
LEMMA BlockersWithin ==
    ASSUME NEW c, NEW T, Blocker(c) \subseteq T, \A b \in T : Blocker(b) \subseteq T
    PROVE  Blockers(c) \subseteq T
  <1> DEFINE N == Cardinality(Client)
  <1>1. PICK f : Reaches(c, N, f) /\ Blockers(c) = f[N]
    BY BlockersReach
  <1>2. N \in Nat
    BY ClientsCount
  <1> HIDE DEF N
  <1> DEFINE S == {n \in Nat : n \in 0..N => f[n] \subseteq T}
  <1>3. 0 \in S
    BY <1>1, <1>2 DEF Reaches
  <1>4. ASSUME NEW n \in Nat, n \in S PROVE n + 1 \in S
    <2> SUFFICES ASSUME n + 1 \in 0..N PROVE f[n+1] \subseteq T
      OBVIOUS
    <2>1. n \in 0..N /\ n + 1 # 0 /\ (n + 1) - 1 = n
      BY <1>2
    <2>2. f[n+1] = Further(f[n])
      BY <1>1, <2>1 DEF Reaches
    <2>3. f[n] \subseteq T
      BY <1>4, <2>1
    <2> QED BY <2>2, <2>3 DEF Further
  <1>5. N \in S
    <2> HIDE DEF S
    <2> QED BY <1>2, <1>3, <1>4, NatSteps
  <1> QED BY <1>1, <1>2, <1>5

\* The first, the second and the third on the way are blockers.
LEMMA BlockersFirst ==
    ASSUME NEW c, Worker # {}
    PROVE  Further(Further(Blocker(c))) \subseteq Blockers(c)
  <1> DEFINE N == Cardinality(Client)
  <1>1. PICK f : Reaches(c, N, f) /\ Blockers(c) = f[N]
    BY BlockersReach
  <1>2. N \in Nat /\ N >= 3
    BY ClientsCount
  <1> HIDE DEF N
  <1>3. \A n \in 0..N : f[n] = IF n = 0 THEN Blocker(c) ELSE Further(f[n-1])
    BY <1>1 DEF Reaches
  <1>4. f[2] = Further(Further(Blocker(c)))
    <2>1. f[0] = Blocker(c)
      BY <1>2, <1>3
    <2>2. f[1] = Further(f[1-1]) /\ 1 - 1 = 0
      BY <1>2, <1>3
    <2>3. f[2] = Further(f[2-1]) /\ 2 - 1 = 1
      BY <1>2, <1>3
    <2> QED BY <2>1, <2>2, <2>3
  <1> DEFINE S == {n \in Nat : n + 2 \in 0..N => f[2] \subseteq f[n+2]}
  <1>5. 0 \in S
    OBVIOUS
  <1>6. ASSUME NEW n \in Nat, n \in S PROVE n + 1 \in S
    <2> SUFFICES ASSUME (n + 1) + 2 \in 0..N PROVE f[2] \subseteq f[(n+1)+2]
      OBVIOUS
    <2>1. n + 2 \in 0..N /\ (n + 1) + 2 # 0 /\ ((n + 1) + 2) - 1 = n + 2
      BY <1>2
    <2>2. f[(n+1)+2] = Further(f[n+2])
      BY <1>3, <2>1
    <2>3. f[2] \subseteq f[n+2]
      BY <1>6, <2>1
    <2> QED BY <2>2, <2>3 DEF Further
  <1>7. N - 2 \in S
    <2> HIDE DEF S
    <2>1. N - 2 \in Nat
      BY <1>2
    <2> QED BY <1>5, <1>6, <2>1, NatSteps
  <1>8. (N - 2) + 2 = N
    BY <1>2
  <1> QED BY <1>1, <1>2, <1>4, <1>7, <1>8

-----------------------------------------------------------------------------
(* The lock order.                                                           *)

Heartbeats == {Heartbeat(w) : w \in Worker}

(* What the client c with transaction t waits for while owner is own.        *)
(* Everyone but a heartbeat locks a dispatch row after its Run (the first    *)
(* two parts); a heartbeat locks no Run; whoever asks for a Run holds        *)
(* nothing, or is the scan that returns orphans; who asks for a session is   *)
(* the scan, before it has a Run or a row; nobody keeps a lock between two   *)
(* transactions.                                                             *)
Waits(c, t, own) ==
    /\ c \notin Heartbeats => \A d \in Dispatch : own[d] = c => own[RunOf[d]] = c
    /\ c \notin Heartbeats =>
          \A i \in DOMAIN t.wait : t.wait[i] \in Dispatch =>
             \/ own[RunOf[t.wait[i]]] = c
             \/ \E j \in DOMAIN t.wait : j < i /\ t.wait[j] = RunOf[t.wait[i]]
    /\ c \in Heartbeats => /\ \A i \in DOMAIN t.wait : t.wait[i] \in Dispatch
                           /\ \A r \in Run : own[r] # c
    /\ \A i \in DOMAIN t.wait : t.wait[i] \in Run =>
          \/ c = Scan /\ t.at = "orphans"
          \/ Len(t.wait) = 1 /\ \A x \in Row : own[x] # c
    /\ \A i \in DOMAIN t.wait : t.wait[i] \in Worker => c = Scan /\ t.at = "expired"
    /\ t.at = "expired" => /\ \A i \in DOMAIN t.wait : t.wait[i] \in Worker
                           /\ \A x \in Run \cup Dispatch : own[x] # c
    /\ \A r \in Run : c = CancelHandler(r) /\ t.at = "request" =>
          t.wait = <<>> /\ \A x \in Row : own[x] = c => x = r
    /\ t.at \in {"idle", "create"} => t.wait = <<>> /\ \A x \in Row : own[x] # c

WaitsInv == \A c \in Client : Waits(c, tx[c], owner)

\* Who is blocked asks for a row of someone else.
LEMMA BlockedBy ==
    ASSUME LocksInv, NEW b \in Client, NEW a \in Blocker(b)
    PROVE  /\ a \in Client /\ a # b /\ Blocker(b) = {a}
           /\ \E x \in Row : /\ owner[x] = a /\ 1 \in DOMAIN tx[b].wait /\ tx[b].wait[1] = x
  <1>1. tx[b].wait # <<>> /\ ~Mine(b, Head(tx[b].wait)) /\ a = owner[Head(tx[b].wait)]
    BY DEF Blocker
  <1>2. tx[b].wait \in Seq(Row) /\ owner \in [Row -> Client \cup {None}]
    BY DEF LocksInv, TypeOK, Tx
  <1>3. PICK q \in Seq(Row) : q = tx[b].wait
    BY <1>2
  <1>4. q # <<>> /\ Head(q) \in Row /\ 1 \in DOMAIN q /\ q[1] = Head(q)
    BY <1>1, <1>3
  <1>5. a \in Client /\ a # b
    BY <1>1, <1>2, <1>3, <1>4 DEF Mine
  <1> QED BY <1>1, <1>3, <1>4, <1>5 DEF Blocker

\* Who waits for nobody has no blocker, and others have one.
LEMMA BlockerOne ==
    ASSUME LocksInv, NEW b \in Client
    PROVE  Blocker(b) = {} \/ \E a \in Client : Blocker(b) = {a}
  BY BlockedBy

\* A heartbeat that holds the row of a lease.
Leasing(b) == \E w \in Worker : b = Heartbeat(w) /\ \E d \in Dispatch : owner[d] = b

\* A client that is no heartbeat waits for a dispatch row only if a heartbeat has it.
LEMMA RowBlocked ==
    ASSUME LocksInv, WaitsInv, NEW b \in Client, b \notin Heartbeats, NEW a \in Blocker(b),
           tx[b].wait[1] \in Dispatch
    PROVE  Leasing(a)
  <1>1. PICK d \in Dispatch : d = tx[b].wait[1]
    OBVIOUS
  <1>2. a \in Client /\ a # b /\ owner[d] = a /\ 1 \in DOMAIN tx[b].wait
    BY <1>1, BlockedBy
  <1>3. tx[b].wait \in Seq(Row)
    BY DEF LocksInv, TypeOK, Tx
  <1>4. owner[RunOf[d]] = b
    <2>1. \/ owner[RunOf[d]] = b
          \/ \E j \in DOMAIN tx[b].wait : j < 1 /\ tx[b].wait[j] = RunOf[d]
      BY <1>1, <1>2 DEF WaitsInv, Waits
    <2>2. \A j \in DOMAIN tx[b].wait : ~(j < 1)
      BY <1>3, LenProperties
    <2> QED BY <2>1, <2>2
  <1>5. a \in Heartbeats
    BY <1>2, <1>4 DEF WaitsInv, Waits
  <1> QED BY <1>2, <1>5 DEF Leasing, Heartbeats

(* A blocked client other than a heartbeat and the scan that somebody waits  *)
(* for is blocked by a heartbeat with the row of a lease.                    *)
LEMMA HolderBlocked ==
    ASSUME LocksInv, WaitsInv, NEW b \in Client, b \notin Heartbeats, b # Scan,
           NEW a \in Blocker(b), NEW x \in Row, owner[x] = b
    PROVE  Leasing(a)
  <1>1. PICK y \in Row : owner[y] = a /\ 1 \in DOMAIN tx[b].wait /\ tx[b].wait[1] = y
    BY BlockedBy
  <1>2. y \notin Run /\ y \notin Worker
    BY <1>1 DEF WaitsInv, Waits
  <1>3. y \in Dispatch
    BY <1>2 DEF Row
  <1> QED BY <1>1, <1>3, RowBlocked

(* In a circle everyone on the way is blocked.                               *)
LEMMA CircleGoesOn ==
    ASSUME LocksInv, NEW c \in Client, InCycle(c), NEW b \in Blocker(c)
    PROVE  /\ Blocker(b) # {}
           /\ \A a \in Blocker(b) : Blocker(a) # {} /\ \A e \in Blocker(a) : Blocker(e) # {}
  <1>1. b \in Client /\ b # c /\ Blocker(c) = {b}
    BY BlockedBy
  <1>2. c \in Blockers(c) /\ Blocker(c) # {}
    BY DEF InCycle
  <1>3. Blocker(b) # {}
    <2> SUFFICES ASSUME Blocker(b) = {} PROVE FALSE
      OBVIOUS
    <2>1. Blockers(c) \subseteq {b}
      BY <1>1, BlockersWithin
    <2> QED BY <1>1, <1>2, <2>1
  <1>4. ASSUME NEW a \in Blocker(b), Blocker(a) = {} PROVE FALSE
    <2>1. Blocker(b) = {a}
      BY <1>1, <1>4, BlockedBy
    <2>2. Blockers(c) \subseteq {a, b}
      <3>1. PICK T : T = {a, b}
        OBVIOUS
      <3>2. Blocker(c) \subseteq T /\ \A k \in T : Blocker(k) \subseteq T
        BY <1>1, <1>4, <2>1, <3>1
      <3> QED BY <3>1, <3>2, BlockersWithin
    <2> QED BY <1>1, <1>2, <1>4, <2>2
  <1>5. ASSUME NEW a \in Blocker(b), NEW e \in Blocker(a), Blocker(e) = {} PROVE FALSE
    <2>1. Blocker(b) = {a} /\ a \in Client
      BY <1>1, <1>5, BlockedBy
    <2>2. Blocker(a) = {e}
      BY <1>5, <2>1, BlockedBy
    <2>3. PICK T : T = {a, b, e}
      OBVIOUS
    <2>4. Blocker(c) \subseteq T /\ \A k \in T : Blocker(k) \subseteq T
      BY <1>1, <1>5, <2>1, <2>2, <2>3
    <2>5. c \in T
      BY <1>2, <2>4, BlockersWithin
    <2> QED BY <1>1, <1>2, <1>5, <2>1, <2>2, <2>3, <2>5
  <1> QED BY <1>3, <1>4, <1>5

\* In a circle somebody waits for everyone.
LEMMA CircleHolds ==
    ASSUME LocksInv, NEW c \in Client, InCycle(c)
    PROVE  \E x \in Row : owner[x] = c
  <1> DEFINE T == {a \in Client : \E x \in Row : owner[x] = a}
  <1>1. \A b \in Client : Blocker(b) \subseteq T
    BY BlockedBy
  <1>2. Blockers(c) \subseteq T
    <2>1. T \subseteq Client
      OBVIOUS
    <2> HIDE DEF T
    <2> QED BY <1>1, <2>1, BlockersWithin
  <1> QED BY <1>2 DEF InCycle

(* One, two or three steps along a circle there is a heartbeat that holds    *)
(* the row of a lease.                                                       *)
LEMMA CircleLeasing ==
    ASSUME LocksInv, WaitsInv, NEW c \in Client, InCycle(c)
    PROVE  \E a \in Further(Further(Blocker(c))) : Leasing(a) /\ Blocker(a) # {}
  <1>1. PICK b \in Client : Blocker(c) = {b}
    BY BlockerOne DEF InCycle
  <1>2. PICK a \in Client : Blocker(b) = {a}
    BY <1>1, CircleGoesOn, BlockerOne
  <1>3. PICK e \in Client : Blocker(a) = {e}
    BY <1>1, <1>2, CircleGoesOn, BlockerOne
  <1>4. {b, a, e} \subseteq Further(Further(Blocker(c)))
    BY <1>1, <1>2, <1>3 DEF Further
  <1>5. SUFFICES Leasing(b) \/ Leasing(a) \/ Leasing(e)
    BY <1>1, <1>2, <1>3, <1>4, CircleGoesOn
  <1>6. PICK x \in Row : owner[x] = b /\ 1 \in DOMAIN tx[c].wait /\ tx[c].wait[1] = x
    BY <1>1, BlockedBy
  <1>7. PICK y \in Row : owner[y] = a /\ 1 \in DOMAIN tx[b].wait /\ tx[b].wait[1] = y
    BY <1>2, BlockedBy
  <1>8. PICK z \in Row : owner[z] = e /\ 1 \in DOMAIN tx[a].wait /\ tx[a].wait[1] = z
    BY <1>3, BlockedBy
  <1>9. b # c /\ a # b /\ e # a
    BY <1>1, <1>2, <1>3, BlockedBy
  <1>10. \A k \in Heartbeats : \A d \in Dispatch : owner[d] = k => Leasing(k)
    BY DEF Heartbeats, Leasing
  <1>11. CASE c \notin Heartbeats /\ c # Scan
    <2>1. Leasing(b)
      BY <1>1, <1>11, CircleHolds, HolderBlocked
    <2> QED BY <2>1
  <1>12. CASE c = Scan /\ x \in Dispatch
    <2>1. c \notin Heartbeats
      BY <1>12 DEF Heartbeats, Heartbeat, Scan
    <2> QED BY <1>1, <1>6, <1>12, <2>1, RowBlocked
  <1>13. CASE c = Scan /\ x \in Run
    <2>1. b \notin Heartbeats
      BY <1>6, <1>13 DEF WaitsInv, Waits
    <2> QED BY <1>2, <1>6, <1>9, <1>13, <2>1, HolderBlocked
  <1>14. CASE c = Scan /\ x \in Worker
    <2>1. tx[c].at = "expired" /\ \A d \in Dispatch : owner[d] # c
      BY <1>6, <1>14 DEF WaitsInv, Waits
    <2>2. CASE b \notin Heartbeats
      BY <1>2, <1>6, <1>9, <1>14, <2>2, HolderBlocked
    <2>3. CASE b \in Heartbeats
      <3>1. y \in Dispatch
        BY <1>7, <2>3 DEF WaitsInv, Waits
      <3>2. a # Scan
        BY <1>7, <1>14, <2>1, <3>1
      <3> QED BY <1>3, <1>7, <1>10, <3>1, <3>2, HolderBlocked
    <2> QED BY <2>2, <2>3
  <1>15. CASE c \in Heartbeats
    <2>1. x \in Dispatch
      BY <1>6, <1>15 DEF WaitsInv, Waits
    <2>2. CASE b \in Heartbeats
      BY <1>6, <1>10, <2>1, <2>2
    <2>3. CASE b \notin Heartbeats /\ b # Scan
      BY <1>2, <1>6, <2>3, HolderBlocked
    <2>4. CASE b = Scan
      <3>1. b \notin Heartbeats
        BY <2>4 DEF Heartbeats, Heartbeat, Scan
      <3>2. tx[b].at # "expired"
        BY <1>6, <2>1 DEF WaitsInv, Waits
      <3>3. y \notin Worker
        BY <1>7, <3>2 DEF WaitsInv, Waits
      <3>4. CASE y \in Dispatch
        BY <1>2, <1>7, <3>1, <3>4, RowBlocked
      <3>5. CASE y \in Run
        <4>1. a \notin Heartbeats
          BY <1>7, <3>5 DEF WaitsInv, Waits
        <4> QED BY <1>3, <1>7, <1>9, <2>4, <4>1, HolderBlocked
      <3> QED BY <3>3, <3>4, <3>5 DEF Row
    <2> QED BY <2>2, <2>3, <2>4
  <1> QED BY <1>11, <1>12, <1>13, <1>14, <1>15 DEF Row

\* The invariants say that circles need a heartbeat with two leases.
LEMMA CirclesExplained == LocksInv /\ WaitsInv => CyclesNeedTwoLeases
  <1> SUFFICES ASSUME LocksInv, WaitsInv, NEW c \in Client, InCycle(c)
               PROVE  \E w \in Worker : /\ Heartbeat(w) \in Blockers(c)
                                        /\ \E d \in Dispatch : owner[d] = Heartbeat(w)
    BY DEF CyclesNeedTwoLeases
  <1>1. PICK a \in Further(Further(Blocker(c))) : Leasing(a)
    BY CircleLeasing
  <1>2. PICK w \in Worker : a = Heartbeat(w) /\ \E d \in Dispatch : owner[d] = a
    BY <1>1 DEF Leasing
  <1>3. a \in Blockers(c)
    BY BlockersFirst
  <1> QED BY <1>2, <1>3

-----------------------------------------------------------------------------
(* Every step keeps the lock order.                                          *)

\* A step of one client that takes rows of nobody keeps what the others wait for.
LEMMA WaitStep ==
    ASSUME LocksInv, WaitsInv, NEW c \in Client, NEW n \in Tx,
           tx' = [tx EXCEPT ![c] = n],
           \A x \in Row : \A b \in Client \ {c} : owner[x] = b <=> owner'[x] = b,
           Waits(c, n, owner')
    PROVE  WaitsInv'
  <1>1. ASSUME NEW b \in Client, b # c PROVE Waits(b, tx'[b], owner')
    <2>1. tx'[b] = tx[b] /\ Waits(b, tx[b], owner) /\ tx[b] \in Tx
      BY <1>1 DEF LocksInv, TypeOK, WaitsInv
    <2>2. \A x \in Row : owner[x] = b <=> owner'[x] = b
      BY <1>1
    <2>3. /\ Run \subseteq Row /\ Dispatch \subseteq Row
          /\ \A d \in Dispatch : RunOf[d] \in Row
      BY RowLocksAssumption DEF Row
    <2> HIDE DEF Dispatch
    <2>4. PICK t : t = tx[b]
      OBVIOUS
    <2>5. Waits(b, t, owner')
      BY <2>1, <2>2, <2>3, <2>4 DEF Waits
    <2> QED BY <2>1, <2>4, <2>5
  <1>2. tx'[c] = n
    BY DEF LocksInv, TypeOK
  <1> QED BY <1>1, <1>2 DEF WaitsInv

\* What a client without waits needs: rows with their Runs, and sessions first.
LEMMA NoWait ==
    ASSUME NEW c, NEW n, NEW own, n.wait = <<>>,
           n.at \notin {"idle", "create", "expired", "request"},
           c \notin Heartbeats => \A d \in Dispatch : own[d] = c => own[RunOf[d]] = c,
           c \in Heartbeats => \A r \in Run : own[r] # c
    PROVE  Waits(c, n, own)
  <1>1. DOMAIN n.wait = {}
    OBVIOUS
  <1> QED BY <1>1 DEF Waits

\* A client that holds nothing and waits for nothing.
LEMMA NothingHeld ==
    ASSUME NEW c, NEW n, NEW own, n.wait = <<>>, \A x \in Row : own[x] # c
    PROVE  Waits(c, n, own)
  <1>1. DOMAIN n.wait = {} /\ Run \subseteq Row /\ Dispatch \subseteq Row
    BY DEF Row
  <1> HIDE DEF Dispatch
  <1> QED BY <1>1 DEF Waits

\* A commit gives everything back.
LEMMA CommitWaits ==
    ASSUME LocksInv, WaitsInv, NEW c \in Client, NEW written, NEW next \in {"idle", "create"},
           Commit(c, written, next)
    PROVE  WaitsInv'
  <1>1. PICK n \in Tx : n = [NoTx EXCEPT !.at = next]
    BY NoTxType
  <1>2. n.wait = <<>>
    BY <1>1 DEF NoTx
  <1>3. tx' = [tx EXCEPT ![c] = n]
    BY <1>1 DEF Commit
  <1>4. /\ \A x \in Row : owner'[x] # c
        /\ \A x \in Row : \A b \in Client \ {c} : owner[x] = b <=> owner'[x] = b
    BY ClientAssumption DEF Commit, LocksInv, TypeOK
  <1> QED BY <1>2, <1>3, <1>4, NothingHeld, WaitStep

(* An opened transaction has its first row only, and asks for dispatch rows  *)
(* that are leases of a heartbeat, or of the Run it holds.                   *)
LEMMA OpenWaits ==
    ASSUME LocksInv, WaitsInv, NEW c \in Client, tx[c].at = "idle",
           NEW at \in {"commit", "pick", "load", "request", "rows"},
           NEW first \in Row, NEW wait \in Seq(Row), NEW rows \in SUBSET Dispatch,
           Open(c, at, first, wait, rows), first \notin Dispatch,
           \A r \in Run : c = CancelHandler(r) /\ at = "request" => first = r /\ wait = <<>>,
           \A i \in DOMAIN wait : /\ wait[i] \in Dispatch
                                  /\ c \notin Heartbeats => RunOf[wait[i]] = first,
           c \in Heartbeats => first \notin Run
    PROVE  WaitsInv'
  <1>1. PICK n : n = [NoTx EXCEPT !.at = at, !.wait = wait, !.rows = rows]
    OBVIOUS
  <1>2. n \in Tx /\ n.at = at /\ n.wait = wait
    BY <1>1 DEF NoTx, Tx
  <1>3. \A x \in Row : owner[x] # c
    BY DEF WaitsInv, Waits
  <1>4. /\ \A x \in Row : owner'[x] = c <=> x = first
        /\ \A x \in Row : \A b \in Client \ {c} : owner[x] = b <=> owner'[x] = b
    BY <1>3, ClientAssumption DEF Open, Mine, LocksInv, TypeOK
  <1>5. /\ Run \subseteq Row /\ Dispatch \subseteq Row
        /\ \A d \in Dispatch : RunOf[d] \in Row /\ d \notin Run /\ d \notin Worker
    BY RowLocksAssumption DEF Row
  <1> HIDE DEF Dispatch
  <1>6. Waits(c, n, owner')
    BY <1>2, <1>4, <1>5 DEF Waits
  <1>7. tx' = [tx EXCEPT ![c] = n]
    BY <1>1 DEF Open
  <1> QED BY <1>2, <1>4, <1>6, <1>7, WaitStep

\* The next lock: a dispatch row comes after its Run, and a session before both.
LEMMA LockWaits ==
    ASSUME LocksInv, WaitsInv, NEW c \in Client, Lock(c)
    PROVE  WaitsInv'
  <1>1. PICK t \in Tx : t = tx[c] /\ Waits(c, t, owner)
    BY DEF LocksInv, TypeOK, WaitsInv
  <1>2. PICK q \in Seq(Row) : q = t.wait
    BY <1>1 DEF Tx
  <1>3. PICK x : x = Head(q)
    OBVIOUS
  <1>4. PICK v : v = Tail(q)
    OBVIOUS
  <1>5. q # <<>> /\ Mine(c, x) /\ owner' = [owner EXCEPT ![x] = c]
    BY <1>1, <1>2, <1>3 DEF Lock
  <1>6. /\ x \in Row /\ x = q[1] /\ v \in Seq(Row)
        /\ Len(q) \in Nat /\ DOMAIN q = 1..Len(q) /\ 1 \in DOMAIN q
        /\ DOMAIN v = 1..(Len(q) - 1) /\ Len(v) = Len(q) - 1
        /\ \A i \in DOMAIN v : i + 1 \in DOMAIN q /\ v[i] = q[i+1]
    BY <1>2, <1>3, <1>4, <1>5, HeadTailProperties, LenProperties
  <1>7. PICK n : n = [t EXCEPT !.wait = v]
    OBVIOUS
  <1>8. n \in Tx /\ n.at = t.at /\ n.wait = v
    BY <1>1, <1>6, <1>7 DEF Tx
  <1>9. tx' = [tx EXCEPT ![c] = n]
    BY <1>1, <1>2, <1>4, <1>7 DEF Lock
  <1>10. /\ \A y \in Row : owner'[y] = c <=> owner[y] = c \/ y = x
         /\ \A y \in Row : \A b \in Client \ {c} : owner[y] = b <=> owner'[y] = b
    BY <1>5, <1>6, ClientAssumption DEF LocksInv, TypeOK, Mine
  <1>11. /\ Run \subseteq Row /\ Dispatch \subseteq Row
         /\ \A d \in Dispatch : RunOf[d] \in Row /\ d \notin Run /\ d \notin Worker
         /\ \A r \in Run : r \notin Worker
    BY RowLocksAssumption DEF Row
  <1> HIDE DEF Dispatch
  <1>12. ASSUME c \notin Heartbeats, NEW d \in Dispatch, owner'[d] = c PROVE owner'[RunOf[d]] = c
    <2>1. CASE owner[d] = c
      BY <1>1, <1>10, <1>11, <1>12, <2>1 DEF Waits
    <2>2. CASE d = x
      <3>1. \A j \in DOMAIN q : ~(j < 1)
        BY <1>6
      <3>2. owner[RunOf[d]] = c
        BY <1>1, <1>2, <1>6, <1>12, <2>2, <3>1 DEF Waits
      <3> QED BY <1>10, <1>11, <3>2
    <2> QED BY <1>10, <1>11, <1>12, <2>1, <2>2
  <1>13. ASSUME c \notin Heartbeats, NEW i \in DOMAIN v, v[i] \in Dispatch
         PROVE  owner'[RunOf[v[i]]] = c \/ \E j \in DOMAIN v : j < i /\ v[j] = RunOf[v[i]]
    <2>1. PICK d \in Dispatch : d = v[i]
      BY <1>13
    <2>2. \/ owner[RunOf[d]] = c
          \/ \E j \in DOMAIN q : j < i + 1 /\ q[j] = RunOf[d]
      BY <1>1, <1>2, <1>6, <1>13, <2>1 DEF Waits
    <2>3. CASE owner[RunOf[d]] = c
      BY <1>10, <1>11, <2>1, <2>3
    <2>4. ASSUME NEW j \in DOMAIN q, j < i + 1, q[j] = RunOf[d]
          PROVE  owner'[RunOf[d]] = c \/ \E k \in DOMAIN v : k < i /\ v[k] = RunOf[d]
      <3>1. CASE j = 1
        BY <1>6, <1>10, <1>11, <2>4, <3>1
      <3>2. CASE j # 1
        <4>1. j - 1 \in DOMAIN v /\ j - 1 < i /\ (j - 1) + 1 = j
          BY <1>6, <2>4, <3>2
        <4> QED BY <1>6, <2>4, <4>1
      <3> QED BY <3>1, <3>2
    <2> QED BY <2>1, <2>2, <2>3, <2>4
  <1>14. c \in Heartbeats => /\ \A i \in DOMAIN v : v[i] \in Dispatch
                             /\ \A r \in Run : owner'[r] # c
    BY <1>1, <1>2, <1>6, <1>10, <1>11 DEF Waits
  <1>15. ASSUME NEW i \in DOMAIN v, v[i] \in Run PROVE c = Scan /\ t.at = "orphans"
    <2>1. Len(q) # 1
      BY <1>6
    <2> QED BY <1>1, <1>2, <1>6, <1>15, <2>1 DEF Waits
  <1>16. \A i \in DOMAIN v : v[i] \in Worker => c = Scan /\ t.at = "expired"
    BY <1>1, <1>2, <1>6 DEF Waits
  <1>17. t.at = "expired" => /\ \A i \in DOMAIN v : v[i] \in Worker
                             /\ \A y \in Run \cup Dispatch : owner'[y] # c
    BY <1>1, <1>2, <1>6, <1>10, <1>11 DEF Waits
  <1>18. \A r \in Run : ~(c = CancelHandler(r) /\ t.at = "request")
    BY <1>1, <1>2, <1>5 DEF Waits
  <1>19. t.at \notin {"idle", "create"}
    BY <1>1, <1>2, <1>5 DEF Waits
  <1>20. Waits(c, n, owner')
    BY <1>8, <1>12, <1>13, <1>14, <1>15, <1>16, <1>17, <1>18, <1>19 DEF Waits
  <1> QED BY <1>8, <1>9, <1>10, <1>20, WaitStep

(* Picked rows come with their Runs.                                         *)
LEMMA PickWaits ==
    ASSUME LocksInv, WaitsInv, NEW c \in Client, c \notin Heartbeats, tx[c].wait = <<>>,
           NEW D \in SUBSET Dispatch, NEW chosen \in SUBSET Unlocked(c, D),
           NEW next \in {"commit", "reap"}, Pick(c, D, chosen, next)
    PROVE  WaitsInv'
  <1>1. PICK t \in Tx : t = tx[c] /\ Waits(c, t, owner)
    BY DEF LocksInv, TypeOK, WaitsInv
  <1>2. PICK R : R = RunsOf(chosen)
    OBVIOUS
  <1>3. PICK n : n = [t EXCEPT !.at = next, !.rows = chosen, !.loaded = R]
    OBVIOUS
  <1>4. PICK H : H = RunsOf({d \in D : Mine(c, RunOf[d]) /\ ~Mine(c, d)})
    OBVIOUS
  <1>5. /\ owner' = [x \in Row |-> IF x \in chosen \cup R \cup H THEN c ELSE owner[x]]
        /\ tx' = [tx EXCEPT ![c] = n]
    BY <1>1, <1>2, <1>3, <1>4 DEF Pick
  <1>6. /\ chosen \subseteq Dispatch /\ R \subseteq Run /\ H \subseteq Run
        /\ \A d \in chosen : RunOf[d] \in R
        /\ \A x \in chosen \cup R \cup H : Mine(c, x)
    BY <1>2, <1>4, RowLocksAssumption DEF Unlocked, RunsOf
  <1>7. n \in Tx /\ n.at = next /\ n.wait = <<>>
    BY <1>1, <1>3, <1>6 DEF Tx
  <1>8. \A x \in Row : \A b \in Client \ {c} : owner[x] = b <=> owner'[x] = b
    BY <1>5, <1>6, ClientAssumption DEF LocksInv, TypeOK, Mine
  <1>9. ASSUME NEW d \in Dispatch, owner'[d] = c PROVE owner'[RunOf[d]] = c
    <2>1. d \in Row /\ RunOf[d] \in Row /\ d \notin Run
      BY RowLocksAssumption DEF Row
    <2>2. d \in chosen \/ owner[d] = c
      BY <1>5, <1>6, <1>9, <2>1
    <2>3. d \in chosen => RunOf[d] \in R
      BY <1>6
    <2>4. owner[d] = c => owner[RunOf[d]] = c
      BY <1>1 DEF Waits
    <2> QED BY <1>5, <2>1, <2>2, <2>3, <2>4
  <1>10. Waits(c, n, owner')
    BY <1>7, <1>9, NoWait
  <1> QED BY <1>5, <1>7, <1>8, <1>10, WaitStep

\* loadSnapshot takes no lock.
LEMMA LoadWaits ==
    ASSUME LocksInv, WaitsInv, NEW c \in Client, c \notin Heartbeats, tx[c].wait = <<>>,
           NEW runs \in SUBSET Run, Load(c, runs)
    PROVE  WaitsInv'
  <1>1. PICK t \in Tx : t = tx[c] /\ Waits(c, t, owner)
    BY DEF LocksInv, TypeOK, WaitsInv
  <1>2. PICK n : n = [t EXCEPT !.at = "commit", !.loaded = runs]
    OBVIOUS
  <1>3. tx' = [tx EXCEPT ![c] = n] /\ owner' = owner
    BY <1>1, <1>2 DEF Load
  <1>4. n \in Tx /\ n.at = "commit" /\ n.wait = <<>>
    BY <1>1, <1>2 DEF Tx
  <1>5. \A d \in Dispatch : owner[d] = c => owner[RunOf[d]] = c
    BY <1>1 DEF Waits
  <1>6. Waits(c, n, owner')
    BY <1>3, <1>4, <1>5, NoWait
  <1> QED BY <1>3, <1>4, <1>6, WaitStep

\* Which clients are heartbeats.
LEMMA NotHeartbeats ==
    /\ \A w \in Worker : Heartbeat(w) \in Heartbeats /\ Claim(w) \notin Heartbeats
    /\ \A d \in Dispatch : Complete(d) \notin Heartbeats
    /\ \A r \in Run : CancelHandler(r) \notin Heartbeats
    /\ Scan \notin Heartbeats
    /\ \A c \in Canceling : c \notin Heartbeats
  BY DEF Heartbeats, Heartbeat, Claim, Complete, CancelHandler, Scan, Canceling

\* The statements of heartbeats and claims.
LEMMA WorkerWaits ==
    ASSUME LocksInv, WaitsInv, NEW w \in Worker,
           \/ BeginHeartbeat(w) \/ CommitHeartbeat(w)
           \/ BeginClaim(w) \/ PickPending(w) \/ CommitClaim(w)
    PROVE  WaitsInv'
  <1>1. /\ TypeOK /\ w \in Row /\ w \notin Dispatch /\ w \notin Run
        /\ Heartbeat(w) \in Client /\ Claim(w) \in Client
        /\ carried[w] \in SUBSET Dispatch /\ Dispatch \subseteq Row
    BY Clients, RowLocksAssumption DEF LocksInv, TypeOK, Row
  <1>2. \A r \in Run : Heartbeat(w) # CancelHandler(r) /\ Claim(w) # CancelHandler(r)
    BY DEF Heartbeat, Claim, CancelHandler
  <1>3. CASE BeginHeartbeat(w)
    <2>1. PICK order \in SetToSeqs(carried[w]) :
             Open(Heartbeat(w), "commit", w, order, carried[w])
      BY <1>3 DEF BeginHeartbeat
    <2>2. order \in Seq(carried[w])
      BY <1>1, FiniteDispatches, SeqsList
    <2>3. order \in Seq(Row) /\ \A i \in DOMAIN order : order[i] \in Dispatch
      BY <1>1, <2>2, SeqMonotonic, ElementOfSeq, LenProperties
    <2>4. tx[Heartbeat(w)].at = "idle"
      BY <1>3 DEF BeginHeartbeat
    <2> QED BY <1>1, <1>2, <2>1, <2>3, <2>4, NotHeartbeats, OpenWaits
  <1>4. CASE CommitHeartbeat(w)
    BY <1>1, <1>4, CommitWaits DEF CommitHeartbeat
  <1>5. CASE BeginClaim(w)
    <2>1. Open(Claim(w), "pick", w, <<>>, {}) /\ tx[Claim(w)].at = "idle"
      BY <1>5 DEF BeginClaim
    <2>2. <<>> \in Seq(Row) /\ {} \in SUBSET Dispatch /\ DOMAIN <<>> = {}
      BY EmptySeq
    <2> QED BY <1>1, <1>2, <2>1, <2>2, NotHeartbeats, OpenWaits
  <1>6. CASE PickPending(w)
    <2>1. Claimable \in SUBSET Dispatch
      BY DEF Claimable
    <2>2. tx[Claim(w)].wait = <<>>
      BY <1>6 DEF PickPending, Running
    <2> QED BY <1>1, <1>6, <2>1, <2>2, NotHeartbeats, PickWaits DEF PickPending
  <1>7. CASE CommitClaim(w)
    BY <1>1, <1>7, CommitWaits DEF CommitClaim
  <1> QED BY <1>3, <1>4, <1>5, <1>6, <1>7

\* The statements of Complete: the Run, then the dispatch row.
LEMMA CompleteWaits ==
    ASSUME LocksInv, WaitsInv, NEW d \in Dispatch,
           BeginComplete(d) \/ LoadComplete(d) \/ CommitComplete(d)
    PROVE  WaitsInv'
  <1>1. PICK c \in Client : c = Complete(d)
    BY Clients
  <1>2. /\ RunOf[d] \in Run /\ RunOf[d] \in Row /\ RunOf[d] \notin Dispatch /\ d \in Row
        /\ c \notin Heartbeats /\ \A r \in Run : c # CancelHandler(r)
    BY <1>1, NotHeartbeats, Distinct, RowLocksAssumption DEF Row
  <1>3. CASE BeginComplete(d)
    <2>1. PICK v : v = <<d>>
      OBVIOUS
    <2>2. Head(CompleteLocks(d)) = RunOf[d] /\ Tail(CompleteLocks(d)) = v
      BY <2>1 DEF CompleteLocks
    <2>3. v \in Seq(Row) /\ \A i \in DOMAIN v : v[i] = d
      BY <1>2, <2>1
    <2>4. Open(c, "load", RunOf[d], v, {d}) /\ tx[c].at = "idle"
      BY <1>1, <1>3, <2>2 DEF BeginComplete
    <2>5. {d} \in SUBSET Dispatch
      OBVIOUS
    <2> QED BY <1>2, <2>3, <2>4, <2>5, OpenWaits
  <1>4. CASE LoadComplete(d)
    <2>1. PICK R \in SUBSET Run : Load(c, R)
      BY <1>1, <1>2, <1>4 DEF LoadComplete
    <2>2. tx[c].wait = <<>>
      BY <1>1, <1>4 DEF LoadComplete, Running
    <2> QED BY <1>2, <2>1, <2>2, LoadWaits
  <1>5. CASE CommitComplete(d)
    BY <1>1, <1>5, CommitWaits DEF CommitComplete
  <1> QED BY <1>3, <1>4, <1>5

\* The statements of RequestCancel, and the beginning of a scan's cancellation.
LEMMA RequestWaits ==
    ASSUME LocksInv, WaitsInv, NEW r \in Run,
           BeginRequest(r) \/ CommitRequest(r) \/ BeginScanCancel(r)
    PROVE  WaitsInv'
  <1>1. PICK c \in Client : c = CancelHandler(r)
    BY Clients
  <1>2. /\ Scan \in Client /\ r \in Row /\ r \notin Dispatch
        /\ <<>> \in Seq(Row) /\ {} \in SUBSET Dispatch /\ DOMAIN <<>> = {}
        /\ \A q \in Run : (c = CancelHandler(q) => r = q) /\ Scan # CancelHandler(q)
        /\ c \notin Heartbeats /\ Scan \notin Heartbeats /\ c # Scan
    BY <1>1, Clients, Distinct, NotHeartbeats, EmptySeq, RowLocksAssumption DEF Row
  <1>3. CASE BeginRequest(r)
    <2>1. Open(c, "request", r, <<>>, {}) /\ tx[c].at = "idle"
      BY <1>1, <1>3 DEF BeginRequest
    <2> QED BY <1>2, <2>1, OpenWaits
  <1>4. CASE BeginScanCancel(r)
    <2>1. Open(Scan, "rows", r, <<>>, {}) /\ tx[Scan].at = "idle"
      BY <1>4 DEF BeginScanCancel
    <2> QED BY <1>2, <2>1, OpenWaits
  <1>5. CASE CommitRequest(r)
    <2>1. PICK v : v = <<r>>
      OBVIOUS
    <2>2. v \in Seq(Row) /\ Len(v) = 1 /\ DOMAIN v = {1} /\ v[1] = r
      BY <1>2, <2>1
    <2>3. PICK n : n = [NoTx EXCEPT !.at = "rows", !.wait = v]
      OBVIOUS
    <2>4. n \in Tx /\ n.at = "rows" /\ n.wait = v
      BY <2>2, <2>3 DEF NoTx, Tx
    <2>5. tx[c].at = "request" /\ owner[r] = c /\ \A x \in Row : owner[x] = c => x = r
      BY <1>1, <1>5 DEF CommitRequest, Running, LocksInv, Holds, WaitsInv, Waits
    <2>6. owner' = [owner EXCEPT ![r] = None] /\ tx' = [tx EXCEPT ![c] = n]
      BY <1>1, <1>5, <2>1, <2>3 DEF CommitRequest
    <2>7. /\ \A x \in Row : owner'[x] # c
          /\ \A x \in Row : \A b \in Client \ {c} : owner[x] = b <=> owner'[x] = b
      BY <1>2, <2>5, <2>6, ClientAssumption DEF LocksInv, TypeOK
    <2>8. Waits(c, n, owner')
      <3>1. Run \subseteq Row /\ Dispatch \subseteq Row /\ r \notin Worker
        BY RowLocksAssumption DEF Row
      <3> HIDE DEF Dispatch
      <3> QED BY <1>2, <2>2, <2>4, <2>7, <3>1 DEF Waits
    <2> QED BY <2>4, <2>6, <2>7, <2>8, WaitStep
  <1> QED BY <1>3, <1>4, <1>5

\* The statements of CancelRun: the rows of the Run that is locked.
LEMMA CancelWaits ==
    ASSUME LocksInv, WaitsInv, NEW c \in Canceling,
           LockActive(c) \/ LoadCancel(c) \/ CommitCancel(c)
    PROVE  WaitsInv'
  <1>1. PICK t \in Tx : t = tx[c] /\ Waits(c, t, owner) /\ Holds(c, t, owner)
    BY Clients DEF LocksInv, TypeOK, WaitsInv
  <1>2. c \in Client /\ c \notin Heartbeats
    BY Clients, NotHeartbeats
  <1>3. CASE LockActive(c)
    <2>1. PICK order \in Ordered(Active(Canceled(c))) :
             tx' = [tx EXCEPT ![c].at = "load", ![c].wait = order]
      BY <1>3 DEF LockActive
    <2>2. t.at = "rows" /\ t.wait = <<>> /\ owner' = owner
      BY <1>1, <1>3 DEF LockActive, Running
    <2>3. Canceled(c) \in Run /\ owner[Canceled(c)] = c
      <3>1. \E r \in Run : owner[r] = c
        <4>1. \A r \in Run : <<r>> # <<>>
          OBVIOUS
        <4> QED BY <1>1, <2>2, <4>1 DEF Holds
      <3> QED BY <3>1 DEF Canceled
    <2>4. PICK D \in SUBSET Dispatch : D = Active(Canceled(c))
      BY DEF Active
    <2>5. order \in Seq(D)
      BY <2>1, <2>4, FiniteDispatches, SeqsList DEF Ordered
    <2>6. D \subseteq Row
      BY DEF Row
    <2>7. order \in Seq(Row) /\ \A i \in DOMAIN order : order[i] \in D
      BY <2>5, <2>6, SeqMonotonic, ElementOfSeq, LenProperties
    <2>8. \A d \in D : /\ owner[RunOf[d]] = c /\ d \in Dispatch
                       /\ d \notin Run /\ d \notin Worker
      BY <2>3, <2>4, RowLocksAssumption DEF Active
    <2>9. PICK n : n = [t EXCEPT !.at = "load", !.wait = order]
      OBVIOUS
    <2>10. n \in Tx /\ n.at = "load" /\ n.wait = order
      BY <1>1, <2>7, <2>9 DEF Tx
    <2>11. tx' = [tx EXCEPT ![c] = n]
      BY <1>1, <2>1, <2>9
    <2>12. Waits(c, n, owner)
      <3>1. \A d \in Dispatch : owner[d] = c => owner[RunOf[d]] = c
        BY <1>1, <1>2 DEF Waits
      <3>2. \A i \in DOMAIN order : /\ owner[RunOf[order[i]]] = c
                                    /\ order[i] \notin Run /\ order[i] \notin Worker
        BY <2>7, <2>8
      <3> HIDE DEF Dispatch
      <3> QED BY <1>2, <2>10, <3>1, <3>2 DEF Waits
    <2> QED BY <1>2, <2>2, <2>10, <2>11, <2>12, WaitStep
  <1>4. CASE LoadCancel(c)
    <2>1. t.at = "load" /\ tx[c].wait = <<>>
      BY <1>1, <1>4 DEF LoadCancel, Running
    <2>2. Canceled(c) \in Run
      BY <1>1, <2>1 DEF Holds, Canceled
    <2>3. PICK R \in SUBSET Run : Load(c, R)
      BY <1>4, <2>2 DEF LoadCancel
    <2> QED BY <1>2, <2>1, <2>3, LoadWaits
  <1>5. CASE CommitCancel(c)
    BY <1>2, <1>5, CommitWaits DEF CommitCancel
  <1> QED BY <1>3, <1>4, <1>5

\* The statements of ReapExpired: sessions, and then only what is not locked.
LEMMA ReapWaits ==
    ASSUME LocksInv, WaitsInv, BeginReap \/ PickExpired \/ CommitReap
    PROVE  WaitsInv'
  <1>1. Scan \in Client /\ Scan \notin Heartbeats /\ \A r \in Run : Scan # CancelHandler(r)
    BY Clients, NotHeartbeats, Distinct
  <1>2. CASE BeginReap
    <2>1. PICK order \in UNION {SetToSeqs(W) : W \in SUBSET Worker} :
             tx' = [tx EXCEPT ![Scan] = [NoTx EXCEPT !.at = "expired", !.wait = order]]
      BY <1>2 DEF BeginReap
    <2>2. PICK W \in SUBSET Worker : order \in SetToSeqs(W)
      OBVIOUS
    <2>3. PICK n : n = [NoTx EXCEPT !.at = "expired", !.wait = order]
      OBVIOUS
    <2>4. order \in Seq(W)
      BY <2>2, RowLocksAssumption, FS_Subset, SeqsList
    <2>5. order \in Seq(Row) /\ \A i \in DOMAIN order : order[i] \in Worker
      <3>1. W \subseteq Row
        BY DEF Row
      <3> QED BY <2>4, <3>1, SeqMonotonic, ElementOfSeq, LenProperties
    <2>6. n \in Tx /\ n.at = "expired" /\ n.wait = order
      BY <2>3, <2>5 DEF NoTx, Tx
    <2>7. owner' = owner /\ \A x \in Row : owner[x] # Scan
      BY <1>1, <1>2 DEF BeginReap, WaitsInv, Waits
    <2>8. Waits(Scan, n, owner)
      <3>1. /\ Run \subseteq Row /\ Dispatch \subseteq Row
            /\ \A w \in Worker : w \notin Run /\ w \notin Dispatch
        BY RowLocksAssumption DEF Row
      <3> HIDE DEF Dispatch
      <3> QED BY <1>1, <2>5, <2>6, <2>7, <3>1 DEF Waits
    <2>9. tx' = [tx EXCEPT ![Scan] = n]
      BY <2>1, <2>3
    <2> QED BY <1>1, <2>6, <2>7, <2>8, <2>9, WaitStep
  <1>3. CASE PickExpired
    <2>1. PICK expired \in SUBSET Leased : Pick(Scan, expired, Unlocked(Scan, expired), "reap")
      BY <1>3 DEF PickExpired
    <2>2. expired \in SUBSET Dispatch /\ tx[Scan].wait = <<>>
      BY <1>3 DEF Leased, PickExpired, Running
    <2> QED BY <1>1, <2>1, <2>2, PickWaits
  <1>4. CASE CommitReap
    BY <1>1, <1>4, CommitWaits DEF CommitReap
  <1> QED BY <1>2, <1>3, <1>4

\* In the list for orphans each row comes right after its Run.
LEMMA OrphansInOrder ==
    ASSUME NEW D \in SUBSET Dispatch, NEW order \in SetToSeqs(D), NEW i \in DOMAIN OrphanLocks(order)
    PROVE  /\ OrphanLocks(order)[i] \in Run \cup Dispatch
           /\ OrphanLocks(order)[i] \in Dispatch =>
                 \E j \in DOMAIN OrphanLocks(order) :
                     j < i /\ OrphanLocks(order)[j] = RunOf[OrphanLocks(order)[i]]
  <1>1. order \in Seq(D)
    BY FiniteDispatches, SeqsList
  <1>2. PICK n \in Nat : n = Len(order)
    BY <1>1, LenProperties
  <1>3. \A k \in 1..n : order[k] \in D
    BY <1>1, <1>2, ElementOfSeq
  <1>4. PICK v : v = OrphanLocks(order)
    OBVIOUS
  <1>5. /\ DOMAIN v = 1..(2 * n)
        /\ \A k \in 1..(2 * n) :
              v[k] = IF k % 2 = 1 THEN RunOf[order[(k + 1) \div 2]] ELSE order[k \div 2]
    BY <1>2, <1>4 DEF OrphanLocks
  <1>6. i \in 1..(2 * n)
    BY <1>4, <1>5
  <1>7. CASE i % 2 = 1
    <2>1. (i + 1) \div 2 \in 1..n
      BY <1>6, <1>7
    <2>2. v[i] = RunOf[order[(i + 1) \div 2]] /\ order[(i + 1) \div 2] \in Dispatch
      BY <1>3, <1>5, <1>6, <1>7, <2>1
    <2>3. v[i] \in Run /\ v[i] \notin Dispatch
      BY <2>2, RowLocksAssumption
    <2> QED BY <1>4, <2>3
  <1>8. CASE i % 2 # 1
    <2>1. PICK k \in 1..n : k = i \div 2 /\ i = 2 * k
      BY <1>6, <1>8
    <2>2. v[i] = order[k] /\ order[k] \in Dispatch
      BY <1>3, <1>5, <1>6, <1>8, <2>1
    <2>3. i - 1 \in 1..(2 * n) /\ (i - 1) % 2 = 1 /\ ((i - 1) + 1) \div 2 = k /\ i - 1 < i
      BY <1>6, <2>1
    <2>4. v[i-1] = RunOf[order[k]]
      BY <1>5, <2>3
    <2> QED BY <1>4, <1>5, <2>2, <2>3, <2>4
  <1> QED BY <1>7, <1>8

\* The statements of CreateDispatches.
LEMMA CreateWaits ==
    ASSUME LocksInv, WaitsInv, BeginCreate \/ PickCandidates \/ CommitCreate
    PROVE  WaitsInv'
  <1>1. Scan \in Client /\ Scan \notin Heartbeats /\ \A r \in Run : Scan # CancelHandler(r)
    BY Clients, NotHeartbeats, Distinct
  <1>2. PICK t \in Tx : t = tx[Scan] /\ Waits(Scan, t, owner)
    BY <1>1 DEF LocksInv, TypeOK, WaitsInv
  <1>3. CASE BeginCreate
    <2>1. PICK orphans \in SUBSET Claimable : \E order \in SetToSeqs(orphans) :
             tx' = [tx EXCEPT ![Scan] = [NoTx EXCEPT !.at = "orphans", !.wait = OrphanLocks(order),
                                                     !.rows = orphans]]
      BY <1>3 DEF BeginCreate
    <2>2. PICK order \in SetToSeqs(orphans) :
             tx' = [tx EXCEPT ![Scan] = [NoTx EXCEPT !.at = "orphans", !.wait = OrphanLocks(order),
                                                     !.rows = orphans]]
      BY <2>1
    <2>3. PICK v : v = OrphanLocks(order)
      OBVIOUS
    <2>4. PICK n : n = [NoTx EXCEPT !.at = "orphans", !.wait = v, !.rows = orphans]
      OBVIOUS
    <2>5. orphans \in SUBSET Dispatch
      BY DEF Claimable
    <2>6. v \in Seq(Row)
      BY <2>3, <2>5, OrphansList
    <2>7. \A i \in DOMAIN v : /\ v[i] \in Run \cup Dispatch
                              /\ v[i] \in Dispatch =>
                                    \E j \in DOMAIN v : j < i /\ v[j] = RunOf[v[i]]
      BY <2>3, <2>5, OrphansInOrder
    <2>8. tx' = [tx EXCEPT ![Scan] = n] /\ owner' = owner
      BY <1>3, <2>2, <2>3, <2>4 DEF BeginCreate
    <2>9. n \in Tx /\ n.at = "orphans" /\ n.wait = v
      BY <2>4, <2>5, <2>6 DEF NoTx, Tx
    <2>10. \A x \in Row : owner[x] # Scan
      BY <1>2, <1>3 DEF BeginCreate, Waits
    <2>11. Waits(Scan, n, owner)
      <3>1. /\ Run \subseteq Row /\ Dispatch \subseteq Row
            /\ \A x \in Run \cup Dispatch : x \notin Worker
        BY RowLocksAssumption DEF Row
      <3> HIDE DEF Dispatch
      <3> QED BY <1>1, <2>7, <2>9, <2>10, <3>1 DEF Waits
    <2> QED BY <1>1, <2>8, <2>9, <2>11, WaitStep
  <1>4. CASE PickCandidates
    <2>1. tx'[Scan] \in Tx
      BY <1>1, <1>4, CreateSteps DEF LocksInv, TypeOK
    <2>2. PICK R \in SUBSET Run :
             /\ \A r \in R : Mine(Scan, r)
             /\ owner' = [x \in Row |-> IF x \in R THEN Scan ELSE owner[x]]
             /\ \E rows, loaded : tx' = [tx EXCEPT ![Scan].at = "insert", ![Scan].rows = rows,
                                                   ![Scan].loaded = loaded]
      <3> DEFINE open == {r \in Run : /\ run[r] = "open"
                                      /\ Mine(Scan, r)
                                      /\ \E d \in Dispatch : RunOf[d] = r /\ status[d] = "none"}
                 returned == {d \in tx[Scan].rows : status[d] = "pending"}
      <3>1. PICK R \in SUBSET open :
               /\ owner' = [x \in Row |-> IF x \in R THEN Scan ELSE owner[x]]
               /\ tx' = [tx EXCEPT ![Scan].at = "insert",
                                   ![Scan].rows = returned \cup {NewRow(r) : r \in R},
                                   ![Scan].loaded = RunsOf(returned) \cup R]
        BY <1>4 DEF PickCandidates
      <3>2. R \in SUBSET Run /\ \A r \in R : Mine(Scan, r)
        OBVIOUS
      <3> HIDE DEF open, returned
      <3> QED BY <3>1, <3>2
    <2>3. PICK rows, loaded : tx' = [tx EXCEPT ![Scan].at = "insert", ![Scan].rows = rows,
                                               ![Scan].loaded = loaded]
      BY <2>2
    <2>4. PICK n : n = [t EXCEPT !.at = "insert", !.rows = rows, !.loaded = loaded]
      OBVIOUS
    <2>5. tx' = [tx EXCEPT ![Scan] = n] /\ n = tx'[Scan]
      BY <1>1, <1>2, <2>3, <2>4 DEF LocksInv, TypeOK
    <2>6. n \in Tx /\ n.at = "insert" /\ n.wait = <<>>
      <3>1. t.wait = <<>>
        BY <1>2, <1>4 DEF PickCandidates, Running
      <3> QED BY <1>2, <2>1, <2>4, <2>5, <3>1 DEF Tx
    <2>7. \A x \in Row : \A b \in Client \ {Scan} : owner[x] = b <=> owner'[x] = b
      BY <1>1, <2>2, ClientAssumption DEF LocksInv, TypeOK, Mine
    <2>8. ASSUME NEW d \in Dispatch, owner'[d] = Scan PROVE owner'[RunOf[d]] = Scan
      <3>1. d \in Row /\ RunOf[d] \in Row /\ d \notin Run
        BY RowLocksAssumption DEF Row
      <3>2. owner[d] = Scan
        BY <2>2, <2>8, <3>1
      <3>3. owner[RunOf[d]] = Scan
        BY <1>1, <1>2, <3>2 DEF Waits
      <3> QED BY <2>2, <3>1, <3>3
    <2>9. Waits(Scan, n, owner')
      BY <1>1, <2>6, <2>8, NoWait
    <2> QED BY <1>1, <2>5, <2>6, <2>7, <2>9, WaitStep
  <1>5. CASE CommitCreate
    BY <1>1, <1>5, CommitWaits DEF CommitCreate
  <1> QED BY <1>3, <1>4, <1>5

\* Nobody waits at first.
LEMMA WaitsInit == Init => WaitsInv
  <1> SUFFICES ASSUME Init, NEW c \in Client PROVE Waits(c, tx[c], owner)
    BY DEF WaitsInv
  <1>1. tx[c].wait = <<>> /\ \A x \in Row : owner[x] # c
    BY ClientAssumption DEF Init, NoTx
  <1> QED BY <1>1, NothingHeld

\* Every step keeps the lock order.
LEMMA WaitsNext == LocksInv /\ WaitsInv /\ [Next]_vars => WaitsInv'
  <1> SUFFICES ASSUME LocksInv, WaitsInv, [Next]_vars PROVE WaitsInv'
    OBVIOUS
  <1>1. ASSUME NEW c \in Client, DeadlockVictim(c) PROVE WaitsInv'
    BY <1>1, CommitWaits DEF DeadlockVictim
  <1>2. CASE UNCHANGED vars
    BY <1>2 DEF vars, WaitsInv, Waits
  <1> QED BY <1>1, <1>2, WorkerWaits, CompleteWaits, RequestWaits, CancelWaits, ReapWaits,
             CreateWaits, LockWaits DEF Next

(* A circle of waiting transactions runs through a heartbeat that holds the  *)
(* row of one lease and waits for another's, for every number of Runs,       *)
(* workers, slots and dispatch rows: completion, cancellation, reaping and   *)
(* the scan, which lock a Run before its rows, make no circle by themselves. *)
THEOREM CirclesNeedLeases == Spec => []CyclesNeedTwoLeases
  <1> QED BY LocksInit, LocksNext, WaitsInit, WaitsNext, CirclesExplained, PTL DEF Spec

-----------------------------------------------------------------------------
(* Workers with one slot.                                                    *)

(* A worker carries one lease at most, a claim begins without any, and so a  *)
(* heartbeat that waits for the row of a lease holds no other.               *)
SingleLease ==
    \A w \in Worker :
        /\ \A d, e \in carried[w] : d = e
        /\ tx[Claim(w)].at \in {"pick", "commit"} => carried[w] = {}
        /\ tx[Claim(w)].at = "commit" => \A d, e \in tx[Claim(w)].rows : d = e
        /\ Len(tx[Heartbeat(w)].wait) <= 1
        /\ tx[Heartbeat(w)].wait # <<>> => \A d \in Dispatch : owner[d] # Heartbeat(w)

\* A step that begins no heartbeat and no claim, and gives no lease.
LEMMA SingleQuiet ==
    ASSUME SingleLease,
           \A w \in Worker :
              /\ carried'[w] \subseteq carried[w]
              /\ tx'[Claim(w)] = tx[Claim(w)] \/ tx'[Claim(w)].at = "idle"
              /\ tx'[Heartbeat(w)] = tx[Heartbeat(w)] \/ tx'[Heartbeat(w)].wait = <<>>
              /\ \A d \in Dispatch : owner'[d] = Heartbeat(w) => owner[d] = Heartbeat(w)
    PROVE  SingleLease'
  <1> SUFFICES ASSUME NEW w \in Worker
               PROVE  /\ \A d, e \in carried'[w] : d = e
                      /\ tx'[Claim(w)].at \in {"pick", "commit"} => carried'[w] = {}
                      /\ tx'[Claim(w)].at = "commit" => \A d, e \in tx'[Claim(w)].rows : d = e
                      /\ Len(tx'[Heartbeat(w)].wait) <= 1
                      /\ tx'[Heartbeat(w)].wait # <<>> => \A d \in Dispatch : owner'[d] # Heartbeat(w)
    BY DEF SingleLease
  <1> HIDE DEF Dispatch
  <1>1. Len(<<>>) <= 1
    OBVIOUS
  <1> QED BY <1>1 DEF SingleLease

\* The clients of a worker are no others.
LEMMA WorkerClients ==
    ASSUME NEW w \in Worker
    PROVE  /\ Claim(w) # Heartbeat(w) /\ Claim(w) \in Client /\ Heartbeat(w) \in Client
           /\ \A v \in Worker : /\ Claim(v) # Heartbeat(w)
                                /\ Claim(v) = Claim(w) => v = w
                                /\ Heartbeat(v) = Heartbeat(w) => v = w
           /\ \A d \in Dispatch : Complete(d) # Claim(w) /\ Complete(d) # Heartbeat(w)
           /\ \A c \in Canceling : c # Claim(w) /\ c # Heartbeat(w)
  BY Clients DEF Claim, Heartbeat, Complete, CancelHandler, Scan, Canceling

\* A commit, or the end of a deadlock's victim, that adds no lease.
LEMMA SingleCommit ==
    ASSUME LocksInv, SingleLease, NEW c \in Client, NEW written, NEW next \in {"idle", "create"},
           Commit(c, written, next), c \in {Claim(w) : w \in Worker} => next = "idle",
           \A w \in Worker : carried'[w] \subseteq carried[w]
    PROVE  SingleLease'
  <1>1. PICK n : n = [NoTx EXCEPT !.at = next]
    OBVIOUS
  <1>2. n.at = next /\ n.wait = <<>>
    BY <1>1 DEF NoTx
  <1>3. tx' = [tx EXCEPT ![c] = n] /\ tx \in [Client -> Tx]
    BY <1>1 DEF Commit, LocksInv, TypeOK
  <1>4. \A x \in Row : \A b \in Client : owner'[x] = b => owner[x] = b
    BY ClientAssumption DEF Commit
  <1>5. Dispatch \subseteq Row
    BY DEF Row
  <1> HIDE DEF Dispatch
  <1>6. ASSUME NEW w \in Worker
        PROVE  /\ tx'[Claim(w)] = tx[Claim(w)] \/ tx'[Claim(w)].at = "idle"
               /\ tx'[Heartbeat(w)] = tx[Heartbeat(w)] \/ tx'[Heartbeat(w)].wait = <<>>
               /\ \A d \in Dispatch : owner'[d] = Heartbeat(w) => owner[d] = Heartbeat(w)
    BY <1>2, <1>3, <1>4, <1>5, WorkerClients
  <1> QED BY <1>6, SingleQuiet

\* A statement of a transaction that is neither a heartbeat nor a claim.
LEMMA SingleOther ==
    ASSUME LocksInv, SingleLease, NEW c \in Client, NEW n,
           \A w \in Worker : c # Claim(w) /\ c # Heartbeat(w),
           tx' = [tx EXCEPT ![c] = n], carried' = carried,
           \A x \in Row : owner'[x] \in {owner[x], c, None}
    PROVE  SingleLease'
  <1>1. Dispatch \subseteq Row
    BY DEF Row
  <1> HIDE DEF Dispatch
  <1>2. ASSUME NEW w \in Worker
        PROVE  /\ tx'[Claim(w)] = tx[Claim(w)] /\ tx'[Heartbeat(w)] = tx[Heartbeat(w)]
               /\ \A d \in Dispatch : owner'[d] = Heartbeat(w) => owner[d] = Heartbeat(w)
    BY <1>1, WorkerClients, ClientAssumption DEF LocksInv, TypeOK
  <1> QED BY <1>2, SingleQuiet

\* A lease is claimed only by a worker that has none.
LEMMA SingleWorker ==
    ASSUME MaxConcurrency = 1, LocksInv, WaitsInv, SingleLease, NEW w \in Worker,
           \/ BeginHeartbeat(w) \/ CommitHeartbeat(w)
           \/ BeginClaim(w) \/ PickPending(w) \/ CommitClaim(w)
    PROVE  SingleLease'
  <1>1. /\ Claim(w) \in Client /\ Heartbeat(w) \in Client
        /\ carried \in [Worker -> SUBSET Dispatch] /\ tx \in [Client -> Tx]
        /\ owner \in [Row -> Client \cup {None}]
        /\ w \in Row /\ w \notin Dispatch /\ Dispatch \subseteq Row
    BY Clients, RowLocksAssumption DEF LocksInv, TypeOK, Row
  <1>2. \A v \in Worker : IsFiniteSet(carried[v])
    BY <1>1, FiniteDispatches
  <1>3. CASE BeginHeartbeat(w)
    <2>1. PICK order \in SetToSeqs(carried[w]) :
             Open(Heartbeat(w), "commit", w, order, carried[w])
      BY <1>3 DEF BeginHeartbeat
    <2>2. Len(order) <= 1
      <3>1. order \in Seq(carried[w])
        BY <1>1, FiniteDispatches, SeqsList
      <3>2. PICK k \in Nat : k = Cardinality(carried[w])
        BY <1>2, FS_CardinalityType
      <3>3. order \in [1..k -> carried[w]] /\ \A i, j \in 1..k : i # j => order[i] # order[j]
        BY <3>2 DEF SetToSeqs
      <3>4. Len(order) = k
        BY <3>1, <3>3, LenProperties
      <3>5. ASSUME k >= 2 PROVE FALSE
        <4>1. order[1] # order[2] /\ order[1] \in carried[w] /\ order[2] \in carried[w]
          BY <3>3, <3>5
        <4> QED BY <4>1 DEF SingleLease
      <3> QED BY <3>2, <3>4, <3>5
    <2>3. PICK n : n = [NoTx EXCEPT !.at = "commit", !.wait = order, !.rows = carried[w]]
      OBVIOUS
    <2>4. n.wait = order
      BY <2>3 DEF NoTx
    <2>5. tx' = [tx EXCEPT ![Heartbeat(w)] = n] /\ carried' = carried
      BY <2>1, <2>3 DEF Open
    <2>6. \A x \in Row : owner[x] # Heartbeat(w)
      BY <1>1, <1>3 DEF BeginHeartbeat, WaitsInv, Waits
    <2>7. \A d \in Dispatch : owner'[d] = owner[d] /\ owner[d] # Heartbeat(w)
      BY <1>1, <2>1, <2>6 DEF Open
    <2> HIDE DEF Dispatch
    <2>8. ASSUME NEW v \in Worker
          PROVE  /\ tx'[Claim(v)] = tx[Claim(v)]
                 /\ v # w => tx'[Heartbeat(v)] = tx[Heartbeat(v)]
                 /\ v = w => tx'[Heartbeat(v)] = n
      BY <1>1, <2>5, WorkerClients
    <2> QED BY <2>2, <2>4, <2>5, <2>7, <2>8 DEF SingleLease
  <1>4. CASE CommitHeartbeat(w)
    <2>1. \A v \in Worker : carried'[v] \subseteq carried[v]
      BY <1>1, <1>4 DEF CommitHeartbeat
    <2>2. Commit(Heartbeat(w), {}, "idle")
      BY <1>4 DEF CommitHeartbeat
    <2> QED BY <1>1, <2>1, <2>2, SingleCommit
  <1>5. CASE BeginClaim(w)
    <2>1. carried[w] = {}
      <3>1. Cardinality(carried[w]) = 0
        BY <1>2, <1>5, FS_CardinalityType DEF BeginClaim
      <3> QED BY <1>2, <3>1, FS_EmptySet
    <2>2. PICK n : n = [NoTx EXCEPT !.at = "pick", !.wait = <<>>, !.rows = {}]
      OBVIOUS
    <2>3. n.at = "pick"
      BY <2>2 DEF NoTx
    <2>4. tx' = [tx EXCEPT ![Claim(w)] = n] /\ carried' = carried
      BY <1>5, <2>2 DEF BeginClaim, Open
    <2>5. \A d \in Dispatch : owner'[d] = owner[d]
      BY <1>1, <1>5 DEF BeginClaim, Open
    <2> HIDE DEF Dispatch
    <2>6. ASSUME NEW v \in Worker
          PROVE  /\ tx'[Heartbeat(v)] = tx[Heartbeat(v)]
                 /\ v # w => tx'[Claim(v)] = tx[Claim(v)]
                 /\ v = w => tx'[Claim(v)] = n
      BY <1>1, <2>4, WorkerClients
    <2> QED BY <2>1, <2>3, <2>4, <2>5, <2>6 DEF SingleLease
  <1>6. CASE PickPending(w)
    <2>1. PICK S : S = Unlocked(Claim(w), Claimable)
      OBVIOUS
    <2>2. PICK chosen \in SUBSET S :
             /\ Cardinality(chosen) = Min({Cardinality(S), MaxConcurrency - Cardinality(carried[w])})
             /\ Pick(Claim(w), Claimable, chosen, "commit")
      BY <1>6, <2>1 DEF PickPending
    <2>3. tx[Claim(w)].at = "pick" /\ carried[w] = {}
      BY <1>6 DEF PickPending, Running, SingleLease
    <2>4. S \in SUBSET Dispatch
      BY <2>1 DEF Unlocked, Claimable
    <2>5. IsFiniteSet(S) /\ IsFiniteSet(chosen)
      BY <2>4, FiniteDispatches
    <2>6. Cardinality(chosen) <= 1
      <3>1. MaxConcurrency - Cardinality(carried[w]) = 1
        BY <2>3, FS_EmptySet
      <3>2. PICK k \in Nat : k = Cardinality(S)
        BY <2>5, FS_CardinalityType
      <3>3. PICK P : P = {k, 1}
        OBVIOUS
      <3>4. \E m \in P : \A p \in P : m <= p
        BY <3>2, <3>3, SmallestOf
      <3>5. Min(P) \in P /\ \A p \in P : Min(P) <= p
        BY <3>4 DEF Min
      <3>6. Min(P) <= 1
        BY <3>3, <3>5
      <3> QED BY <2>2, <3>1, <3>2, <3>3, <3>6
    <2>7. \A d, e \in chosen : d = e
      <3> SUFFICES ASSUME NEW d \in chosen, NEW e \in chosen, d # e PROVE FALSE
        OBVIOUS
      <3>1. PICK Q : Q = {d}
        OBVIOUS
      <3>2. IsFiniteSet(Q) /\ Cardinality(Q) = 1
        BY <3>1, FS_Singleton
      <3>3. Cardinality(Q \cup {e}) = 2
        <4>1. e \notin Q
          BY <3>1
        <4>2. Cardinality(Q \cup {e}) = Cardinality(Q) + 1
          BY <3>2, <4>1, FS_AddElement
        <4> QED BY <3>2, <4>2
      <3>4. Q \cup {e} \subseteq chosen
        BY <3>1
      <3>5. Cardinality(Q \cup {e}) <= Cardinality(chosen)
        BY <2>5, <3>4, FS_Subset
      <3>6. Cardinality(chosen) \in Nat
        BY <2>5, FS_CardinalityType
      <3> QED BY <2>6, <3>3, <3>5, <3>6
    <2>8. PICK t \in Tx : t = tx[Claim(w)]
      BY <1>1
    <2>9. PICK R \in SUBSET Run : R = RunsOf(chosen)
      BY <2>4, RowLocksAssumption DEF RunsOf
    <2>10. PICK n : n = [t EXCEPT !.at = "commit", !.rows = chosen, !.loaded = R]
      OBVIOUS
    <2>11. tx' = [tx EXCEPT ![Claim(w)] = n] /\ carried' = carried
      BY <2>2, <2>8, <2>9, <2>10 DEF Pick
    <2>12. n.rows = chosen /\ n.at = "commit"
      BY <2>8, <2>10 DEF Tx
    <2>13. \A x \in Row : owner'[x] \in {owner[x], Claim(w)}
      BY <2>2 DEF Pick
    <2> HIDE DEF Dispatch
    <2>14. ASSUME NEW v \in Worker
           PROVE  /\ tx'[Heartbeat(v)] = tx[Heartbeat(v)]
                  /\ v # w => tx'[Claim(v)] = tx[Claim(v)]
                  /\ v = w => tx'[Claim(v)] = n
                  /\ \A d \in Dispatch : owner'[d] = Heartbeat(v) => owner[d] = Heartbeat(v)
      BY <1>1, <2>11, <2>13, WorkerClients
    <2> QED BY <2>3, <2>7, <2>11, <2>12, <2>14 DEF SingleLease
  <1>7. CASE CommitClaim(w)
    <2>1. /\ tx[Claim(w)].at = "commit" /\ carried' = [carried EXCEPT ![w] = @ \cup tx[Claim(w)].rows]
          /\ Commit(Claim(w), tx[Claim(w)].loaded, "idle")
      BY <1>7 DEF CommitClaim, Running
    <2>2. carried[w] = {} /\ \A d, e \in tx[Claim(w)].rows : d = e
      BY <2>1 DEF SingleLease
    <2>3. PICK n : n = [NoTx EXCEPT !.at = "idle"]
      OBVIOUS
    <2>4. n.at = "idle" /\ tx' = [tx EXCEPT ![Claim(w)] = n]
      BY <2>1, <2>3 DEF Commit, NoTx
    <2>5. \A x \in Row : \A b \in Client : owner'[x] = b => owner[x] = b
      BY <2>1, ClientAssumption DEF Commit
    <2>6. \A v \in Worker : \A d, e \in carried'[v] : d = e
      BY <1>1, <2>1, <2>2 DEF SingleLease
    <2>7. \A v \in Worker : v # w => carried'[v] = carried[v]
      BY <1>1, <2>1
    <2> HIDE DEF Dispatch
    <2>8. ASSUME NEW v \in Worker
          PROVE  /\ tx'[Heartbeat(v)] = tx[Heartbeat(v)]
                 /\ v # w => tx'[Claim(v)] = tx[Claim(v)]
                 /\ v = w => tx'[Claim(v)] = n
                 /\ \A d \in Dispatch : owner'[d] = Heartbeat(v) => owner[d] = Heartbeat(v)
      BY <1>1, <2>4, <2>5, WorkerClients
    <2> QED BY <2>4, <2>6, <2>7, <2>8 DEF SingleLease
  <1> QED BY <1>3, <1>4, <1>5, <1>6, <1>7

\* The next lock of a heartbeat is that of its only lease.
LEMMA SingleLock ==
    ASSUME LocksInv, WaitsInv, SingleLease, NEW c \in Client, Lock(c)
    PROVE  SingleLease'
  <1>1. PICK t \in Tx : t = tx[c]
    BY DEF LocksInv, TypeOK
  <1>2. PICK q \in Seq(Row) : q = t.wait
    BY <1>1 DEF Tx
  <1>3. q # <<>> /\ owner' = [owner EXCEPT ![Head(q)] = c]
    BY <1>1, <1>2 DEF Lock
  <1>4. PICK v : v = Tail(q)
    OBVIOUS
  <1>5. PICK n : n = [t EXCEPT !.wait = v]
    OBVIOUS
  <1>6. tx' = [tx EXCEPT ![c] = n] /\ carried' = carried
    BY <1>1, <1>2, <1>4, <1>5 DEF Lock
  <1>7. n.wait = v
    BY <1>1, <1>5 DEF Tx
  <1>8. /\ tx \in [Client -> Tx] /\ owner \in [Row -> Client \cup {None}]
        /\ Head(q) \in Row /\ \A x \in Row : owner'[x] \in {owner[x], c}
    BY <1>3 DEF LocksInv, TypeOK
  <1>9. CASE \A w \in Worker : c # Claim(w) /\ c # Heartbeat(w)
    BY <1>6, <1>8, <1>9, SingleOther
  <1>10. ASSUME NEW w \in Worker, c = Claim(w) PROVE SingleLease'
    <2>1. n.at = t.at /\ n.rows = t.rows
      BY <1>1, <1>5 DEF Tx
    <2>2. Dispatch \subseteq Row
      BY DEF Row
    <2> HIDE DEF Dispatch
    <2>3. ASSUME NEW k \in Worker
          PROVE  /\ tx'[Claim(k)].at = tx[Claim(k)].at /\ tx'[Claim(k)].rows = tx[Claim(k)].rows
                 /\ tx'[Heartbeat(k)] = tx[Heartbeat(k)]
                 /\ \A d \in Dispatch : owner'[d] = Heartbeat(k) => owner[d] = Heartbeat(k)
      BY <1>1, <1>6, <1>8, <1>10, <2>1, <2>2, WorkerClients
    <2> QED BY <1>6, <2>3 DEF SingleLease
  <1>11. ASSUME NEW w \in Worker, c = Heartbeat(w) PROVE SingleLease'
    <2>1. Len(q) = 1 /\ v = <<>>
      <3>1. Len(q) <= 1
        BY <1>1, <1>2, <1>11 DEF SingleLease
      <3>2. Len(q) = 1
        <4>1. Len(q) \in Nat /\ Len(q) # 0
          BY <1>3, EmptySeq, LenProperties
        <4> HIDE DEF Dispatch
        <4>2. PICK k \in Nat : k = Len(q)
          BY <4>1
        <4> QED BY <3>1, <4>1, <4>2
      <3> QED BY <1>3, <1>4, <3>2, HeadTailProperties, EmptySeq
    <2>2. Dispatch \subseteq Row
      BY DEF Row
    <2> HIDE DEF Dispatch
    <2>3. ASSUME NEW k \in Worker
          PROVE  /\ tx'[Claim(k)] = tx[Claim(k)]
                 /\ k # w => /\ tx'[Heartbeat(k)] = tx[Heartbeat(k)]
                             /\ \A d \in Dispatch : owner'[d] = Heartbeat(k) => owner[d] = Heartbeat(k)
                 /\ k = w => tx'[Heartbeat(k)].wait = <<>>
      BY <1>6, <1>7, <1>8, <1>11, <2>1, <2>2, WorkerClients
    <2>4. Len(<<>>) <= 1
      OBVIOUS
    <2> QED BY <1>6, <2>3, <2>4 DEF SingleLease
  <1> QED BY <1>9, <1>10, <1>11

\* Every step keeps it.
LEMMA SingleNext ==
    ASSUME MaxConcurrency = 1, LocksInv, WaitsInv, SingleLease, [Next]_vars
    PROVE  SingleLease'
  <1>1. /\ carried \in [Worker -> SUBSET Dispatch] /\ Scan \in Client /\ Canceling \subseteq Client
        /\ \A d \in Dispatch : Complete(d) \in Client
        /\ \A r \in Run : CancelHandler(r) \in Canceling /\ Scan \in Canceling
    BY Clients DEF LocksInv, TypeOK, Canceling
  <1>2. ASSUME NEW d \in Dispatch, BeginComplete(d) \/ LoadComplete(d) PROVE SingleLease'
    <2>1. PICK c \in Client : c = Complete(d)
      BY <1>1
    <2>2. \A w \in Worker : c # Claim(w) /\ c # Heartbeat(w)
      BY <2>1, WorkerClients
    <2>3. carried' = carried /\ \A x \in Row : owner'[x] \in {owner[x], c}
      BY <1>2, <2>1 DEF BeginComplete, LoadComplete, Open, Load, LocksInv, TypeOK
    <2>4. \E n : tx' = [tx EXCEPT ![c] = n]
      BY <1>2, <2>1 DEF BeginComplete, LoadComplete, Open, Load
    <2> QED BY <2>2, <2>3, <2>4, SingleOther
  <1>3. ASSUME NEW d \in Dispatch, CommitComplete(d) PROVE SingleLease'
    <2>1. \A w \in Worker : carried'[w] \subseteq carried[w]
      BY <1>1, <1>3 DEF CommitComplete
    <2>2. Commit(Complete(d), tx[Complete(d)].loaded, "idle")
      BY <1>3 DEF CommitComplete
    <2> QED BY <1>1, <2>1, <2>2, SingleCommit
  <1>4. ASSUME NEW r \in Run, BeginRequest(r) \/ CommitRequest(r) PROVE SingleLease'
    <2>1. PICK c \in Canceling : c = CancelHandler(r)
      BY <1>1
    <2>2. c \in Client /\ \A w \in Worker : c # Claim(w) /\ c # Heartbeat(w)
      BY <1>1, WorkerClients
    <2>3. carried' = carried /\ \A x \in Row : owner'[x] \in {owner[x], c, None}
      BY <1>4, <2>1 DEF BeginRequest, CommitRequest, Open, LocksInv, TypeOK
    <2>4. \E n : tx' = [tx EXCEPT ![c] = n]
      BY <1>4, <2>1 DEF BeginRequest, CommitRequest, Open
    <2> QED BY <2>2, <2>3, <2>4, SingleOther
  <1>5. ASSUME NEW r \in Run, BeginScanCancel(r) PROVE SingleLease'
    <2>1. \A w \in Worker : Scan # Claim(w) /\ Scan # Heartbeat(w)
      BY <1>1, <1>5, WorkerClients
    <2>2. carried' = carried /\ \A x \in Row : owner'[x] \in {owner[x], Scan}
      BY <1>5 DEF BeginScanCancel, Open, LocksInv, TypeOK
    <2>3. \E n : tx' = [tx EXCEPT ![Scan] = n]
      BY <1>5 DEF BeginScanCancel, Open
    <2> QED BY <1>1, <2>1, <2>2, <2>3, SingleOther
  <1>6. ASSUME NEW c \in Canceling, LockActive(c) \/ LoadCancel(c) PROVE SingleLease'
    <2>1. c \in Client /\ \A w \in Worker : c # Claim(w) /\ c # Heartbeat(w)
      BY <1>1, WorkerClients
    <2>2. carried' = carried /\ owner' = owner
      BY <1>6 DEF LockActive, LoadCancel, Load
    <2>3. \E n : tx' = [tx EXCEPT ![c] = n]
      BY <1>6 DEF LockActive, LoadCancel, Load
    <2> QED BY <2>1, <2>2, <2>3, SingleOther
  <1>7. ASSUME NEW c \in Canceling, CommitCancel(c) PROVE SingleLease'
    <2>1. Commit(c, tx[c].loaded, "idle") /\ carried' = carried
      BY <1>7 DEF CommitCancel
    <2> QED BY <1>1, <2>1, SingleCommit
  <1>8. \A w \in Worker : Scan # Claim(w) /\ Scan # Heartbeat(w)
    BY DEF Scan, Claim, Heartbeat
  <1>9. CASE CommitReap \/ CommitCreate
    <2>1. /\ Commit(Scan, tx[Scan].loaded, "idle") \/ Commit(Scan, tx[Scan].loaded, "create")
          /\ carried' = carried
      BY <1>9 DEF CommitReap, CommitCreate
    <2> QED BY <1>1, <1>8, <2>1, SingleCommit
  <1>10. CASE BeginReap \/ PickExpired \/ BeginCreate \/ PickCandidates
    <2>1. CASE BeginReap \/ BeginCreate
      <3>1. carried' = carried /\ owner' = owner
        BY <2>1 DEF BeginReap, BeginCreate
      <3>2. \E n : tx' = [tx EXCEPT ![Scan] = n]
        BY <2>1 DEF BeginReap, BeginCreate
      <3> QED BY <1>1, <1>8, <3>1, <3>2, SingleOther
    <2>2. CASE PickExpired
      <3>1. PICK A, B : Pick(Scan, A, B, "reap")
        BY <2>2 DEF PickExpired
      <3>2. carried' = carried /\ \A x \in Row : owner'[x] \in {owner[x], Scan}
        BY <3>1 DEF Pick
      <3>3. \E n : tx' = [tx EXCEPT ![Scan] = n]
        BY <3>1 DEF Pick
      <3> QED BY <1>1, <1>8, <3>2, <3>3, SingleOther
    <2>3. CASE PickCandidates
      <3>1. carried' = carried /\ \E R : owner' = [x \in Row |-> IF x \in R THEN Scan ELSE owner[x]]
        BY <2>3 DEF PickCandidates
      <3>2. \A x \in Row : owner'[x] \in {owner[x], Scan}
        BY <3>1
      <3>3. \E n : tx' = [tx EXCEPT ![Scan] = n]
        BY <2>3 DEF PickCandidates
      <3> QED BY <1>1, <1>8, <3>1, <3>2, <3>3, SingleOther
    <2> QED BY <1>10, <2>1, <2>2, <2>3
  <1>11. ASSUME NEW c \in Client, DeadlockVictim(c) PROVE SingleLease'
    <2>1. Commit(c, {}, "idle") /\ carried' = carried
      BY <1>11 DEF DeadlockVictim
    <2> QED BY <2>1, SingleCommit
  <1>12. CASE UNCHANGED vars
    BY <1>12 DEF vars, SingleLease
  <1> QED BY <1>2, <1>3, <1>4, <1>5, <1>6, <1>7, <1>9, <1>10, <1>11, <1>12, SingleWorker, SingleLock
          DEF Next

\* With one lease per worker nobody waits in a circle.
LEMMA SingleNoCircle == LocksInv /\ WaitsInv /\ SingleLease => NoCircularWait
  <1> SUFFICES ASSUME LocksInv, WaitsInv, SingleLease, NEW c \in Client, InCycle(c) PROVE FALSE
    BY DEF NoCircularWait
  <1>1. PICK a : Leasing(a) /\ Blocker(a) # {}
    BY CircleLeasing
  <1>2. PICK w \in Worker, d \in Dispatch : a = Heartbeat(w) /\ owner[d] = a
    BY <1>1 DEF Leasing
  <1>3. tx[a].wait # <<>>
    BY <1>1 DEF Blocker
  <1> QED BY <1>2, <1>3 DEF SingleLease

(* Workers with one slot never make PostgreSQL choose a victim: for every    *)
(* number of Runs, workers and dispatch rows there is no circle of waiting   *)
(* transactions.                                                             *)
THEOREM OneSlotNoCircle ==
    ASSUME MaxConcurrency = 1 PROVE Spec => []NoCircularWait
  <1>1. Init => SingleLease
    <2> SUFFICES ASSUME Init, NEW w \in Worker
                 PROVE  /\ carried[w] = {} /\ tx[Claim(w)].at = "idle"
                        /\ tx[Heartbeat(w)].wait = <<>> /\ Len(<<>>) <= 1
      BY DEF SingleLease
    <2> QED BY WorkerClients DEF Init, NoTx
  <1>2. LocksInv /\ WaitsInv /\ SingleLease /\ [Next]_vars => SingleLease'
    BY SingleNext
  <1> QED BY <1>1, <1>2, LocksInit, LocksNext, WaitsInit, WaitsNext, SingleNoCircle, PTL DEF Spec
=============================================================================
