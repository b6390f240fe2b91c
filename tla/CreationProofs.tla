---------------------------- MODULE CreationProofs ----------------------------
(***************************************************************************)
(* Proofs about the idempotent writes.  The tables are consistent among    *)
(* themselves (RowsInv), every handler knows what the phase it is in       *)
(* entitles it to (HandlersInv), and the locks keep apart what two         *)
(* handlers must not do at once (LocksInv).                                *)
(***************************************************************************)
EXTENDS Creation, TLAPS

\* What a record stands for in the other tables.
Backed(k) ==
    LET rec == records[k]
    IN  IF k[1] = "start_run"
        THEN \E i \in DOMAIN runs :
                /\ rec.resource = RunResource(i)
                /\ rec.hash \in DOMAIN versions
                /\ runs[i] = [workflow |-> rec.hash[1], version |-> rec.hash[2],
                              body |-> versions[rec.hash]]
        ELSE \E v \in DOMAIN versions, b \in Body :
                /\ rec.resource = VersionResource(v[1], v[2])
                /\ rec.hash = <<v[1], b>> /\ versions[v] = JSONB[b]

(* The tables among themselves: every record is backed, every row has its    *)
(* record and no two records name the same row; the versions of a workflow   *)
(* have no gap, and the first one was made with the workflow.                *)
RowsInv ==
    /\ \A k \in DOMAIN records : Backed(k)
    /\ \A i \in DOMAIN runs :
          \E k \in DOMAIN records : k[1] = "start_run" /\ records[k].resource = RunResource(i)
    /\ \A v \in DOMAIN versions :
          \E k \in DOMAIN records :
              /\ records[k].resource = VersionResource(v[1], v[2])
              /\ v[2] = 1 => k[1] = "create_workflow"
    /\ \A j, k \in DOMAIN records : records[j].resource = records[k].resource => j = k
    /\ \A v \in DOMAIN versions : v[1] \in DOMAIN workflows /\ v[2] <= workflows[v[1]]
    /\ \A w \in DOMAIN workflows : \A n \in 1..workflows[w] : <<w, n>> \in DOMAIN versions

Compiling == {"loaded", "lock", "lookup", "reserve", "write", "commit", "finish"}
Holding == {"lookup", "reserve", "write", "commit"}
Writing == {"write", "commit"}

\* The definition a handler works on is the one it was asked to store or to run.
Definite(n) ==
    n.phase \in Compiling =>
        IF n.req.op = "start_run"
        THEN Authentic(Ref(n.req), n.body)
        ELSE n.phase # "loaded" /\ n.req.id = n.req.workflow /\ n.body = n.req.body

\* The key is free from the lookup on, and the rows to be written are new; a Run
\* is written only from the definition the database has.
Fresh(n) ==
    /\ n.phase \in {"reserve"} \cup Writing => IdemKey(n.req) \notin DOMAIN records
    /\ n.phase \in {"lock"} \cup Holding /\ n.req.op = "start_run" =>
          \E i \in RunId : n.resource = RunResource(i)
    /\ n.phase \in Writing /\ n.req.op = "create_workflow" =>
          n.resource = VersionResource(n.req.workflow, 1)
    /\ n.phase \in Writing /\ n.req.op = "create_workflow_version" =>
          /\ n.req.workflow \in DOMAIN workflows
          /\ n.resource = VersionResource(n.req.workflow, workflows[n.req.workflow] + 1)
    /\ n.phase \in Writing /\ n.req.op = "start_run" =>
          Ref(n.req) \in DOMAIN versions /\ n.body = versions[Ref(n.req)]
    /\ n.phase = "commit" /\ n.req.op = "start_run" => n.resource.id \notin DOMAIN runs
    /\ n.phase = "commit" /\ n.req.op = "create_workflow" => n.req.workflow \notin DOMAIN workflows

\* An outcome is there only with the rows that explain it.
Outcome(n) ==
    /\ n.code # "none" => n.phase = "answered"
    /\ n.phase = "finish" \/ n.code = "ok" => Settled(n.req, n.resource)
    /\ Explained(n.req, n.code)

Sound(n) == Definite(n) /\ Fresh(n) /\ Outcome(n)

HandlersInv == \A h \in Handler : Sound(handler[h])

\* The advisory lock of the key, FOR UPDATE and the primary keys.
Apart(n, m) ==
    /\ n.phase \in Holding /\ m.phase \in Holding => IdemKey(n.req) # IdemKey(m.req)
    /\ /\ n.phase \in Writing /\ n.req.op = "create_workflow_version"
       /\ m.phase \in Writing /\ m.req.op = "create_workflow_version"
       => n.req.workflow # m.req.workflow
    /\ n.phase = "commit" /\ m.phase = "commit" => n.resource # m.resource

LocksInv == \A h, o \in Handler : h # o => Apart(handler[h], handler[o])

CreationInv == TypeOK /\ RowsInv /\ HandlersInv /\ LocksInv /\ CacheAgrees
-----------------------------------------------------------------------------
(* Values.                                                                   *)

\* The fields of a request, and what it is looked up and compared by.
LEMMA RequestFields ==
    ASSUME NEW r \in Request
    PROVE  /\ r.op \in Operation /\ r.key \in Key /\ r.workflow \in Workflow /\ r.id \in Workflow
           /\ r.body \in Body \cup Malformed /\ r.version \in Nat \ {0}
           /\ r # None
           /\ IdemKey(r) \in Operation \X Key /\ IdemKey(r)[1] = r.op
           /\ Ref(r) \in VersionRef
  BY RequestAssumption DEF ValidRequest, IdemKey, Ref, VersionRef

\* What the type invariant says of one handler.
Shaped(n) ==
    /\ n \in Work
    /\ n.req = None <=> n.phase = "idle"
    /\ n.body = None <=> n.phase \in {"idle", "compile", "answered"}

\* What the types say of one handler: a working one has a request, a compiling one a body.
LEMMA HandlerShape ==
    ASSUME TypeOK, NEW h \in Handler
    PROVE  /\ Shaped(handler[h])
           /\ handler[h].phase # "idle" => handler[h].req \in Request
           /\ handler[h].phase \in Compiling => handler[h].body \in Body
  BY DEF TypeOK, At, Shaped, Work, Compiling

\* What the type invariant says of the cache.
CacheOK(c) == DOMAIN c \subseteq VersionRef /\ \A r \in DOMAIN c : c[r] \in Body

-----------------------------------------------------------------------------
(* A step of one handler that leaves the tables alone.                       *)
LEMMA LocalStep ==
    ASSUME CreationInv, NEW h \in Handler, NEW n, UNCHANGED tables,
           handler' = [handler EXCEPT ![h] = n], Shaped(n), Sound(n),
           \A o \in Handler \ {h} : Apart(n, handler[o]) /\ Apart(handler[o], n),
           CacheOK(cache'), CacheAgrees'
    PROVE  CreationInv'
<1>1. ASSUME NEW o \in Handler PROVE handler'[o] = IF o = h THEN n ELSE handler[o]
  BY DEF CreationInv, TypeOK
<1>2. workflows' = workflows /\ versions' = versions /\ runs' = runs /\ records' = records
  BY DEF tables
<1>3. TypeOK'
  <2>1. handler' \in [Handler -> Work]
    BY DEF CreationInv, TypeOK, Shaped
  <2>2. ASSUME NEW o \in Handler PROVE Shaped(handler'[o])
    BY <1>1, HandlerShape DEF CreationInv
  <2> QED
    BY <1>2, <2>1, <2>2 DEF CreationInv, TypeOK, CacheOK, Shaped, At
<1>4. RowsInv'
  BY <1>2 DEF CreationInv, RowsInv, Backed
<1>5. ASSUME NEW o \in Handler PROVE Sound(handler[o])'
  <2>1. PICK m : m = handler'[o]
    OBVIOUS
  <2>2. Sound(m)
    BY <1>1, <2>1 DEF CreationInv, HandlersInv
  <2>3. Definite(handler[o])'
    BY <1>2, <2>1, <2>2 DEF Sound, Definite, Authentic
  <2>4. Fresh(handler[o])'
    BY <1>2, <2>1, <2>2 DEF Sound, Fresh
  <2>5. Outcome(handler[o])'
    BY <1>2, <2>1, <2>2 DEF Sound, Outcome, Settled, Explained, Respelled
  <2> QED
    BY <2>3, <2>4, <2>5 DEF Sound
<1>6. ASSUME NEW o \in Handler, NEW p \in Handler, o # p PROVE Apart(handler'[o], handler'[p])
  BY <1>1, <1>6 DEF CreationInv, LocksInv
<1> QED
  BY <1>3, <1>4, <1>5, <1>6 DEF CreationInv, HandlersInv, LocksInv

\* A handler that holds no lock is apart from the others.
LEMMA NoLocks ==
    ASSUME NEW n, NEW m, n.phase \notin Holding PROVE Apart(n, m) /\ Apart(m, n)
  BY DEF Apart, Holding, Writing

\* Locks that are not widened keep a handler apart from the others.
LEMMA SameLocks ==
    ASSUME CreationInv, NEW h \in Handler, NEW n, n.req = handler[h].req,
           n.phase \in {"reserve"}, handler[h].phase \in Holding
    PROVE  \A o \in Handler \ {h} : Apart(n, handler[o]) /\ Apart(handler[o], n)
  BY DEF CreationInv, LocksInv, Apart, Holding, Writing

\* A refusal ends the transaction and leaves its code, if the tables explain it.
LEMMA RefuseStep ==
    ASSUME CreationInv, NEW h \in Handler, NEW code \in Code \ {"none", "ok"},
           handler[h].phase # "idle", Explained(handler[h].req, code), Refuse(h, code)
    PROVE  CreationInv'
<1> DEFINE n == [handler[h] EXCEPT !.phase = "answered", !.code = code, !.body = None,
                                   !.resource = NoResource]
<1>1. handler' = [handler EXCEPT ![h] = n] /\ UNCHANGED <<tables, cache>>
  BY DEF Refuse, Answer
<1>2. handler[h] \in Work /\ handler[h].req \in Request /\ handler[h].req # None
  BY HandlerShape, RequestFields DEF CreationInv, Shaped
<1>3. /\ n \in Work /\ n.phase = "answered" /\ n.code = code /\ n.body = None
      /\ n.req = handler[h].req
  BY <1>2 DEF Work, Phase
<1> HIDE DEF n
<1>4. Shaped(n)
  BY <1>2, <1>3 DEF Shaped
<1>5. Sound(n)
  BY <1>3 DEF Sound, Definite, Fresh, Outcome, Compiling, Holding, Writing
<1>6. \A o \in Handler : Apart(n, handler[o]) /\ Apart(handler[o], n)
  BY <1>3, NoLocks DEF Holding
<1>7. CacheOK(cache') /\ CacheAgrees'
  BY <1>1 DEF CreationInv, TypeOK, CacheOK, CacheAgrees, Authentic, tables
<1> QED
  BY <1>1, <1>4, <1>5, <1>6, <1>7, LocalStep

\* An error that needs no explanation.
LEMMA PlainRefusals ==
    ASSUME NEW r, NEW code \in {"invalid_argument", "not_found", "internal"}
    PROVE  Explained(r, code) /\ code \in Code \ {"none", "ok"}
  BY DEF Explained, Code

\* A request that arrives is validated or refused before it touches a table.
LEMMA ReceiveStep ==
    ASSUME CreationInv, NEW h \in Handler, Receive(h) PROVE CreationInv'
<1>1. PICK r \in Request :
         handler' = [handler EXCEPT ![h] = [Idle EXCEPT !.phase = "compile", !.req = r]]
  BY DEF Receive
<1> DEFINE n == [Idle EXCEPT !.phase = "compile", !.req = r]
<1>2. handler' = [handler EXCEPT ![h] = n] /\ UNCHANGED <<tables, cache>>
  BY <1>1 DEF Receive
<1>3. n \in Work /\ n.phase = "compile" /\ n.req = r /\ n.body = None /\ n.code = "none"
  BY DEF Idle, Work, Phase, Code
<1> HIDE DEF n
<1>4. Shaped(n)
  BY <1>3, RequestFields DEF Shaped
<1>5. Sound(n)
  BY <1>3 DEF Sound, Definite, Fresh, Outcome, Explained, Compiling, Holding, Writing
<1>6. \A o \in Handler : Apart(n, handler[o]) /\ Apart(handler[o], n)
  BY <1>3, NoLocks DEF Holding
<1>7. CacheOK(cache') /\ CacheAgrees'
  BY <1>2 DEF CreationInv, TypeOK, CacheOK, CacheAgrees, Authentic, tables
<1> QED
  BY <1>2, <1>4, <1>5, <1>6, <1>7, LocalStep

\* Before the transaction: a definition that is the right one leads to the lock.
LEMMA CompiledStep ==
    ASSUME CreationInv, NEW h \in Handler, NEW body \in Body, Compiled(h, body), UNCHANGED tables,
           handler[h].phase \in {"compile", "loaded"},
           IF handler[h].req.op = "start_run"
           THEN Authentic(Ref(handler[h].req), body)
           ELSE handler[h].req.id = handler[h].req.workflow /\ body = handler[h].req.body,
           CacheOK(cache'), CacheAgrees'
    PROVE  CreationInv'
<1>1. PICK res \in IF handler[h].req.op = "start_run" THEN {RunResource(i) : i \in RunId}
                   ELSE {NoResource} :
         handler' = [handler EXCEPT ![h] =
                        [handler[h] EXCEPT !.phase = "lock", !.body = body, !.resource = res]]
  BY DEF Compiled
<1> DEFINE n == [handler[h] EXCEPT !.phase = "lock", !.body = body, !.resource = res]
<1>2. /\ handler[h] \in Work /\ handler[h].req \in Request /\ handler[h].req # None
      /\ handler[h].code = "none" /\ body # None
  BY HandlerShape, RequestFields, RequestAssumption
     DEF CreationInv, Shaped, HandlersInv, Sound, Outcome
<1>3. /\ res \in Stored \cup {NoResource}
      /\ handler[h].req.op = "start_run" => \E i \in RunId : res = RunResource(i)
  BY <1>1 DEF Stored, RunResource
<1>4. handler' = [handler EXCEPT ![h] = n]
  BY <1>1
<1>5. /\ n \in Work /\ n.phase = "lock" /\ n.body = body /\ n.resource = res
      /\ n.req = handler[h].req /\ n.code = "none"
  BY <1>2, <1>3 DEF Work, Phase
<1> HIDE DEF n
<1>6. Shaped(n)
  BY <1>2, <1>5 DEF Shaped
<1>7. Definite(n)
  BY <1>5 DEF Definite
<1>8. Fresh(n)
  BY <1>3, <1>5 DEF Fresh, Writing
<1>9. Outcome(n)
  BY <1>5 DEF Outcome, Explained
<1>10. \A o \in Handler : Apart(n, handler[o]) /\ Apart(handler[o], n)
  BY <1>5, NoLocks DEF Holding
<1> QED
  BY <1>4, <1>6, <1>7, <1>8, <1>9, <1>10, LocalStep DEF Sound

\* Compiling the definition a request carries reads no table.
LEMMA CompileSentStep ==
    ASSUME CreationInv, NEW h \in Handler, CompileSent(h) PROVE CreationInv'
<1>1. /\ handler[h].phase = "compile" /\ handler[h].req.op # "start_run"
      /\ handler[h].req \in Request /\ handler[h].req.body \in Body \cup Malformed
  BY HandlerShape, RequestFields DEF CompileSent, At, CreationInv
<1>2. CASE Unacceptable(handler[h].req)
  <2>1. Refuse(h, "invalid_argument")
    BY <1>2 DEF CompileSent
  <2> QED
    BY <1>1, <2>1, RefuseStep, PlainRefusals
<1>3. CASE ~Unacceptable(handler[h].req)
  <2>1. Compiled(h, handler[h].req.body) /\ UNCHANGED <<tables, cache>>
    BY <1>3 DEF CompileSent
  <2>2. handler[h].req.body \in Body /\ handler[h].req.id = handler[h].req.workflow
    BY <1>1, <1>3 DEF Unacceptable
  <2>3. CacheOK(cache') /\ CacheAgrees'
    BY <2>1 DEF CreationInv, TypeOK, CacheOK, CacheAgrees, Authentic, tables
  <2> QED
    BY <1>1, <2>1, <2>2, <2>3, CompiledStep
<1> QED
  BY <1>2, <1>3

\* What is in the cache is a definition of the version.
LEMMA CompileCachedStep ==
    ASSUME CreationInv, NEW h \in Handler, CompileCached(h) PROVE CreationInv'
<1>1. /\ handler[h].phase = "compile" /\ handler[h].req.op = "start_run"
      /\ Ref(handler[h].req) \in DOMAIN cache
      /\ Compiled(h, cache[Ref(handler[h].req)])
      /\ UNCHANGED <<tables, cache>>
  BY DEF CompileCached, At
<1>2. /\ Authentic(Ref(handler[h].req), cache[Ref(handler[h].req)])
      /\ cache[Ref(handler[h].req)] \in Body
  BY <1>1 DEF CreationInv, CacheAgrees, TypeOK
<1>3. CacheOK(cache') /\ CacheAgrees'
  BY <1>1 DEF CreationInv, TypeOK, CacheOK, CacheAgrees, Authentic, tables
<1> QED
  BY <1>1, <1>2, <1>3, CompiledStep

\* What the table holds keeps its spelling when it is stored again.
LEMMA StoredAuthentic ==
    ASSUME CreationInv, NEW ref \in DOMAIN versions PROVE Authentic(ref, versions[ref])
<1>1. PICK k \in DOMAIN records : records[k].resource = VersionResource(ref[1], ref[2])
  BY DEF CreationInv, RowsInv
<1>2. Backed(k) /\ ref \in VersionRef
  BY <1>1 DEF CreationInv, RowsInv, TypeOK
<1>3. PICK v \in DOMAIN versions, b \in Body :
         records[k].resource = VersionResource(v[1], v[2]) /\ versions[v] = JSONB[b]
  <2>1. CASE k[1] = "start_run"
    <3>1. \E i : records[k].resource = RunResource(i)
      BY <1>2, <2>1 DEF Backed
    <3> QED
      BY <1>1, <3>1 DEF VersionResource, RunResource
  <2>2. CASE k[1] # "start_run"
    BY <1>2, <2>2 DEF Backed
  <2> QED
    BY <2>1, <2>2
<1>4. v \in VersionRef /\ v[1] = ref[1] /\ v[2] = ref[2]
  BY <1>1, <1>3 DEF CreationInv, TypeOK, VersionResource
<1>5. v = ref
  BY <1>2, <1>4 DEF VersionRef
<1>6. versions[ref] = JSONB[versions[ref]]
  BY <1>3, <1>5, JSONBAssumption
<1> QED
  BY <1>1, <1>6 DEF Authentic

\* The definition a Run is started from is read from the committed versions.
LEMMA LoadDefinitionStep ==
    ASSUME CreationInv, NEW h \in Handler, LoadDefinition(h) PROVE CreationInv'
<1> DEFINE r == handler[h].req
           n == [handler[h] EXCEPT !.phase = "loaded", !.body = versions[Ref(r)]]
<1>1. /\ handler[h].phase = "compile" /\ r.op = "start_run" /\ r \in Request /\ r # None
      /\ handler[h] \in Work /\ handler[h].code = "none"
  BY HandlerShape, RequestFields
     DEF LoadDefinition, At, CreationInv, Shaped, HandlersInv, Sound, Outcome
<1>2. CASE Ref(r) \notin DOMAIN versions
  <2>1. Refuse(h, "not_found")
    BY <1>2 DEF LoadDefinition
  <2> QED
    BY <1>1, <2>1, RefuseStep, PlainRefusals
<1>3. CASE Ref(r) \in DOMAIN versions
  <2>1. handler' = [handler EXCEPT ![h] = n] /\ UNCHANGED <<tables, cache>>
    BY <1>3 DEF LoadDefinition
  <2>2. versions[Ref(r)] \in Body /\ versions[Ref(r)] # None
    BY <1>3, RequestAssumption DEF CreationInv, TypeOK
  <2>3. /\ n \in Work /\ n.phase = "loaded" /\ n.body = versions[Ref(r)] /\ n.req = r
        /\ n.code = "none"
    BY <1>1, <2>2 DEF Work, Phase
  <2> HIDE DEF n
  <2>4. Shaped(n)
    BY <1>1, <2>2, <2>3 DEF Shaped
  <2>5. Sound(n)
    BY <1>1, <1>3, <2>3, StoredAuthentic DEF Sound, Definite, Fresh, Outcome, Explained, Holding, Writing
  <2>6. \A o \in Handler : Apart(n, handler[o]) /\ Apart(handler[o], n)
    BY <2>3, NoLocks DEF Holding
  <2>7. CacheOK(cache') /\ CacheAgrees'
    BY <2>1 DEF CreationInv, TypeOK, CacheOK, CacheAgrees, Authentic, tables
  <2> QED
    BY <2>1, <2>4, <2>5, <2>6, <2>7, LocalStep
<1> QED
  BY <1>2, <1>3

\* An entry of the cache that agrees with the table.
LEMMA CacheGrows ==
    ASSUME CreationInv, NEW ref, NEW body \in Body, Authentic(ref, body),
           cache' = Put(cache, ref, body), UNCHANGED tables
    PROVE  CacheOK(cache') /\ CacheAgrees'
<1>1. /\ DOMAIN cache' = DOMAIN cache \cup {ref} /\ cache'[ref] = body
      /\ \A x \in DOMAIN cache : x # ref => cache'[x] = cache[x]
  BY DEF Put
<1>2. ref \in VersionRef
  BY DEF CreationInv, TypeOK, Authentic
<1>3. CacheOK(cache')
  BY <1>1, <1>2 DEF CreationInv, TypeOK, CacheOK
<1>4. CacheAgrees'
  BY <1>1 DEF CreationInv, CacheAgrees, Authentic, tables
<1> QED
  BY <1>3, <1>4

\* putCache stores what was read, under the reference it was read for.
LEMMA CacheLoadedStep ==
    ASSUME CreationInv, NEW h \in Handler, CacheLoaded(h) PROVE CreationInv'
<1> DEFINE r == handler[h].req
<1>1. /\ handler[h].phase = "loaded" /\ cache' = Put(cache, Ref(r), handler[h].body)
      /\ Compiled(h, handler[h].body) /\ UNCHANGED tables
  BY DEF CacheLoaded, At
<1>2. /\ r.op = "start_run" /\ Authentic(Ref(r), handler[h].body)
      /\ handler[h].body \in Body
  BY <1>1, HandlerShape DEF CreationInv, HandlersInv, Sound, Definite, Compiling
<1>3. CacheOK(cache') /\ CacheAgrees'
  BY <1>1, <1>2, CacheGrows
<1> QED
  BY <1>1, <1>2, <1>3, CompiledStep

-----------------------------------------------------------------------------
(* The transaction.                                                          *)

\* What handler h needs to become n in its transaction.
Entitled(n, h) ==
    /\ Fresh(n)
    /\ n.phase = "finish" => Settled(n.req, n.resource)
    /\ \A o \in Handler \ {h} : Apart(n, handler[o]) /\ Apart(handler[o], n)

\* A step inside the transaction: the phase and the resource change.
LEMMA InTransaction ==
    ASSUME CreationInv, NEW h \in Handler, handler[h].phase \in Compiling \ {"loaded", "finish"},
           NEW n \in Work, n.phase \in Holding \cup {"finish"}, n.req = handler[h].req,
           n.body = handler[h].body, n.code = handler[h].code,
           handler' = [handler EXCEPT ![h] = n], UNCHANGED <<tables, cache>>, Entitled(n, h)
    PROVE  CreationInv'
<1>1. /\ handler[h] \in Work /\ handler[h].req # None /\ handler[h].code = "none"
      /\ handler[h].body # None /\ Definite(handler[h])
  BY HandlerShape, RequestFields
     DEF CreationInv, Shaped, HandlersInv, Sound, Outcome, Compiling
<1>2. Shaped(n)
  BY <1>1 DEF Shaped, Holding
<1>3. Definite(n)
  BY <1>1 DEF Definite, Compiling, Holding
<1>4. Outcome(n)
  BY <1>1 DEF Outcome, Explained, Entitled
<1>5. CacheOK(cache') /\ CacheAgrees'
  BY DEF CreationInv, TypeOK, CacheOK, CacheAgrees, Authentic, tables
<1> QED
  BY <1>2, <1>3, <1>4, <1>5, LocalStep DEF Sound, Entitled

\* Goto changes the phase of one handler and nothing else of it.
LEMMA GotoKeeps ==
    ASSUME TypeOK, NEW h \in Handler, NEW phase \in Phase, Goto(h, phase)
    PROVE  \E n \in Work :
              /\ handler' = [handler EXCEPT ![h] = n]
              /\ n.phase = phase /\ n.req = handler[h].req /\ n.body = handler[h].body
              /\ n.code = handler[h].code /\ n.resource = handler[h].resource
<1> DEFINE n == [handler[h] EXCEPT !.phase = phase]
<1>1. handler[h] \in Work /\ handler' = [handler EXCEPT ![h] = n]
  BY DEF TypeOK, Goto
<1>2. /\ n \in Work /\ n.phase = phase /\ n.req = handler[h].req /\ n.body = handler[h].body
      /\ n.code = handler[h].code /\ n.resource = handler[h].resource
  BY <1>1 DEF Work
<1> HIDE DEF n
<1> QED
  BY <1>1, <1>2

\* The same for a step that changes the resource too.
Becomes(h, phase, res) ==
    handler' = [handler EXCEPT ![h] = [handler[h] EXCEPT !.phase = phase, !.resource = res]]

\* A handler that moves on keeps its request, body and code.
LEMMA BecomesKeeps ==
    ASSUME TypeOK, NEW h \in Handler, NEW phase \in Phase, NEW res \in Stored \cup {NoResource},
           Becomes(h, phase, res)
    PROVE  \E n \in Work :
              /\ handler' = [handler EXCEPT ![h] = n]
              /\ n.phase = phase /\ n.req = handler[h].req /\ n.body = handler[h].body
              /\ n.code = handler[h].code /\ n.resource = res
<1> DEFINE n == [handler[h] EXCEPT !.phase = phase, !.resource = res]
<1>1. handler[h] \in Work /\ handler' = [handler EXCEPT ![h] = n]
  BY DEF TypeOK, Becomes
<1>2. /\ n \in Work /\ n.phase = phase /\ n.req = handler[h].req /\ n.body = handler[h].body
      /\ n.code = handler[h].code /\ n.resource = res
  BY <1>1 DEF Work
<1> HIDE DEF n
<1> QED
  BY <1>1, <1>2

\* What a handler in a transaction knows of itself.
LEMMA Knows ==
    ASSUME CreationInv, NEW h \in Handler, handler[h].phase \in Compiling
    PROVE  /\ handler[h] \in Work /\ handler[h].req \in Request /\ handler[h].body \in Body
           /\ handler[h].resource \in Stored \cup {NoResource}
           /\ Definite(handler[h]) /\ Fresh(handler[h])
           /\ handler[h].req.op \in Operation
           /\ IdemKey(handler[h].req) \in Operation \X Key
           /\ IdemKey(handler[h].req)[1] = handler[h].req.op
<1>1. /\ handler[h] \in Work /\ handler[h].req \in Request /\ handler[h].body \in Body
  BY HandlerShape DEF CreationInv, Shaped, Compiling
<1>2. handler[h].resource \in Stored \cup {NoResource}
  BY <1>1 DEF Work
<1>3. Definite(handler[h]) /\ Fresh(handler[h])
  BY DEF CreationInv, HandlersInv, Sound
<1> QED
  BY <1>1, <1>2, <1>3, RequestFields

\* The advisory lock: no other transaction holds the key.
LEMMA LockKeyStep ==
    ASSUME CreationInv, NEW h \in Handler, LockKey(h) PROVE CreationInv'
<1>1. handler[h].phase = "lock" /\ KeyFree(h) /\ Goto(h, "lookup") /\ UNCHANGED <<tables, cache>>
  BY DEF LockKey, At
<1>2. Fresh(handler[h])
  BY <1>1, Knows DEF Compiling
<1>3. PICK n \in Work :
         /\ handler' = [handler EXCEPT ![h] = n]
         /\ n.phase = "lookup" /\ n.req = handler[h].req /\ n.body = handler[h].body
         /\ n.code = handler[h].code /\ n.resource = handler[h].resource
  BY <1>1, GotoKeeps DEF CreationInv, Phase
<1>4. Entitled(n, h)
  <2>1. Fresh(n)
    BY <1>1, <1>2, <1>3 DEF Fresh, Holding, Writing
  <2>2. ASSUME NEW o \in Handler \ {h} PROVE Apart(n, handler[o]) /\ Apart(handler[o], n)
    BY <1>1, <1>3 DEF KeyFree, HoldsKey, Apart, Holding, Writing
  <2> QED
    BY <1>3, <2>1, <2>2 DEF Entitled
<1> QED
  BY <1>1, <1>3, <1>4, InTransaction DEF Holding, Compiling

\* A record under the key is of the operation of the request; if it was made
\* from the same request, its resource is the answer.
LEMMA LoadIdempotencyStep ==
    ASSUME CreationInv, NEW h \in Handler, LoadIdempotency(h) PROVE CreationInv'
<1> DEFINE r == handler[h].req
           k == IdemKey(handler[h].req)
<1>1. handler[h].phase = "lookup"
  BY DEF LoadIdempotency, At
<1>2. /\ handler[h] \in Work /\ r \in Request /\ handler[h].body \in Body
      /\ handler[h].resource \in Stored \cup {NoResource}
      /\ Definite(handler[h]) /\ Fresh(handler[h]) /\ k[1] = r.op /\ r.op \in Operation
  BY <1>1, Knows DEF Compiling
<1>3. CASE k \notin DOMAIN records
  <2>1. Goto(h, "reserve") /\ UNCHANGED <<tables, cache>>
    BY <1>3 DEF LoadIdempotency
  <2>2. PICK n \in Work :
           /\ handler' = [handler EXCEPT ![h] = n]
           /\ n.phase = "reserve" /\ n.req = handler[h].req /\ n.body = handler[h].body
           /\ n.code = handler[h].code /\ n.resource = handler[h].resource
    BY <2>1, GotoKeeps DEF CreationInv, Phase
  <2>3. Fresh(n)
    BY <1>1, <1>2, <1>3, <2>2 DEF Fresh, Holding, Writing
  <2>4. Entitled(n, h)
    BY <1>1, <2>2, <2>3, SameLocks DEF Holding, Entitled
  <2> QED
    BY <1>1, <2>1, <2>2, <2>4, InTransaction DEF Holding, Compiling
<1>4. CASE k \in DOMAIN records
  <2>1. records[k] \in Record /\ Backed(k)
    BY <1>4 DEF CreationInv, TypeOK, RowsInv
  <2>2. records[k].resource.type = ResourceType(r)
    <3>1. CASE r.op = "start_run"
      <4>1. \E i : records[k].resource = RunResource(i)
        BY <1>2, <2>1, <3>1 DEF Backed
      <4> QED
        BY <3>1, <4>1 DEF RunResource, ResourceType
    <3>2. CASE r.op # "start_run"
      <4>1. \E v : records[k].resource = VersionResource(v[1], v[2])
        BY <1>2, <2>1, <3>2 DEF Backed
      <4> QED
        BY <3>2, <4>1 DEF VersionResource, ResourceType
    <3> QED
      BY <3>1, <3>2
  <2>3. CASE ~ValidateReplay(records[k], r)
    <3>1. Refuse(h, "idempotency_conflict")
      BY <1>4, <2>3 DEF LoadIdempotency
    <3>2. records[k].hash # RequestHash(r)
      BY <2>2, <2>3 DEF ValidateReplay
    <3>3. Explained(r, "idempotency_conflict") /\ "idempotency_conflict" \in Code \ {"none", "ok"}
      BY <1>4, <3>2 DEF Explained, Code
    <3> QED
      BY <1>1, <3>1, <3>3, RefuseStep
  <2>4. CASE ValidateReplay(records[k], r)
    <3> DEFINE res == records[k].resource
    <3>1. Becomes(h, "finish", res) /\ UNCHANGED <<tables, cache>>
      BY <1>4, <2>4 DEF LoadIdempotency, Becomes
    <3>2. /\ records[k] = [hash |-> RequestHash(r), resource |-> res]
          /\ records[k].hash = RequestHash(r) /\ res \in Stored
      BY <2>1, <2>4 DEF ValidateReplay, Record
    <3>3. Settled(r, res)
      <4>1. CASE r.op = "start_run"
        <5>1. PICK i \in DOMAIN runs :
                 /\ res = RunResource(i) /\ Ref(r) \in DOMAIN versions
                 /\ runs[i] = [workflow |-> Ref(r)[1], version |-> Ref(r)[2],
                               body |-> versions[Ref(r)]]
          BY <1>2, <2>1, <3>2, <4>1 DEF Backed, RequestHash, Ref
        <5>2. res.id = i /\ Ref(r)[1] = r.workflow /\ Ref(r)[2] = r.version
          BY <5>1 DEF RunResource, Ref
        <5> QED
          BY <1>4, <3>2, <4>1, <5>1, <5>2 DEF Settled
      <4>2. CASE r.op # "start_run"
        <5>1. PICK v \in DOMAIN versions, b \in Body :
                 /\ res = VersionResource(v[1], v[2])
                 /\ RequestHash(r) = <<v[1], b>> /\ versions[v] = JSONB[b]
          BY <1>2, <2>1, <3>2, <4>2 DEF Backed
        <5>2. v \in VersionRef /\ r.id = r.workflow
          BY <1>1, <1>2, <4>2 DEF CreationInv, TypeOK, Definite, Compiling
        <5>3. res.id = r.workflow /\ <<res.id, res.version>> = v /\ versions[v] = JSONB[r.body]
          BY <4>2, <5>1, <5>2 DEF VersionResource, RequestHash, VersionRef
        <5> QED
          BY <1>4, <3>2, <4>2, <5>3 DEF Settled
      <4> QED
        BY <4>1, <4>2
    <3> HIDE DEF res
    <3>4. PICK n \in Work :
             /\ handler' = [handler EXCEPT ![h] = n]
             /\ n.phase = "finish" /\ n.req = handler[h].req /\ n.body = handler[h].body
             /\ n.code = handler[h].code /\ n.resource = res
      BY <3>1, <3>2, BecomesKeeps DEF CreationInv, Phase
    <3>5. Entitled(n, h)
      BY <3>3, <3>4, NoLocks DEF Fresh, Holding, Writing, Entitled
    <3> QED
      BY <1>1, <3>1, <3>4, <3>5, InTransaction DEF Holding, Compiling
  <2> QED
    BY <2>3, <2>4
<1> QED
  BY <1>3, <1>4


\* The first version of a workflow is inserted with it.
LEMMA ReserveFirstStep ==
    ASSUME CreationInv, NEW h \in Handler, ReserveFirst(h) PROVE CreationInv'
<1> DEFINE r == handler[h].req
           res == VersionResource(r.workflow, 1)
<1>1. /\ handler[h].phase = "reserve" /\ r.op = "create_workflow"
      /\ Becomes(h, "write", res) /\ UNCHANGED <<tables, cache>>
  BY DEF ReserveFirst, Reserved, At, Becomes
<1>2. r \in Request /\ Fresh(handler[h]) /\ r.workflow \in Workflow
  BY <1>1, Knows, RequestFields DEF Compiling
<1>3. res \in Stored
  BY <1>2 DEF Stored, VersionResource
<1> HIDE DEF res
<1>4. PICK n \in Work :
         /\ handler' = [handler EXCEPT ![h] = n]
         /\ n.phase = "write" /\ n.req = handler[h].req /\ n.body = handler[h].body
         /\ n.code = handler[h].code /\ n.resource = res
  BY <1>1, <1>3, BecomesKeeps DEF CreationInv, Phase
<1>5. Fresh(n)
  BY <1>1, <1>2, <1>4 DEF Fresh, Holding, Writing, res
<1>6. \A o \in Handler \ {h} : Apart(n, handler[o]) /\ Apart(handler[o], n)
  BY <1>1, <1>4 DEF CreationInv, LocksInv, Apart, Holding, Writing
<1>7. Entitled(n, h)
  BY <1>4, <1>5, <1>6 DEF Entitled
<1> QED
  BY <1>1, <1>4, <1>7, InTransaction DEF Holding, Compiling

\* FOR UPDATE: nobody else is about to number a version of the workflow.
LEMMA ReserveNextStep ==
    ASSUME CreationInv, NEW h \in Handler, ReserveNext(h) PROVE CreationInv'
<1> DEFINE r == handler[h].req
           res == VersionResource(r.workflow, workflows[r.workflow] + 1)
<1>1. handler[h].phase = "reserve" /\ r.op = "create_workflow_version"
  BY DEF ReserveNext, At
<1>2. r \in Request /\ Fresh(handler[h]) /\ r.workflow \in Workflow
  BY <1>1, Knows, RequestFields DEF Compiling
<1>3. CASE r.workflow \notin DOMAIN workflows
  <2>1. Refuse(h, "not_found")
    BY <1>3 DEF ReserveNext
  <2> QED
    BY <1>1, <2>1, RefuseStep, PlainRefusals
<1>4. CASE r.workflow \in DOMAIN workflows
  <2>1. RowFree(h) /\ Becomes(h, "write", res) /\ UNCHANGED <<tables, cache>>
    BY <1>4 DEF ReserveNext, Reserved, Becomes
  <2>2. workflows[r.workflow] \in Nat
    BY <1>4 DEF CreationInv, TypeOK
  <2>3. res \in Stored
    BY <1>2, <2>2 DEF Stored, VersionResource
  <2> HIDE DEF res
  <2>4. PICK n \in Work :
           /\ handler' = [handler EXCEPT ![h] = n]
           /\ n.phase = "write" /\ n.req = handler[h].req /\ n.body = handler[h].body
           /\ n.code = handler[h].code /\ n.resource = res
    BY <2>1, <2>3, BecomesKeeps DEF CreationInv, Phase
  <2>5. Fresh(n)
    BY <1>1, <1>2, <1>4, <2>4 DEF Fresh, Holding, Writing, res
  <2>6. ASSUME NEW o \in Handler \ {h} PROVE Apart(n, handler[o]) /\ Apart(handler[o], n)
    <3>1. Apart(handler[h], handler[o]) /\ Apart(handler[o], handler[h])
      BY DEF CreationInv, LocksInv
    <3> QED
      BY <1>1, <2>1, <2>4, <3>1 DEF RowFree, Apart, Holding, Writing
  <2>7. Entitled(n, h)
    BY <2>4, <2>5, <2>6 DEF Entitled
  <2> QED
    BY <1>1, <2>1, <2>4, <2>7, InTransaction DEF Holding, Compiling
<1> QED
  BY <1>3, <1>4

\* The snapshot is a definition of the version it was built from, which never
\* changes: if the two differ, the version was sent in another spelling.
LEMMA EnsureDefinitionMatchesStep ==
    ASSUME CreationInv, NEW h \in Handler, EnsureDefinitionMatches(h) PROVE CreationInv'
<1> DEFINE r == handler[h].req
           res == handler[h].resource
<1>1. handler[h].phase = "reserve" /\ r.op = "start_run"
  BY DEF EnsureDefinitionMatches, At
<1>2. /\ Fresh(handler[h]) /\ res \in Stored \cup {NoResource}
      /\ Authentic(Ref(r), handler[h].body)
  BY <1>1, Knows DEF Compiling, Definite
<1>3. CASE versions[Ref(r)] # handler[h].body
  <2>1. Refuse(h, "mismatch")
    BY <1>2, <1>3 DEF EnsureDefinitionMatches, Authentic
  <2>2. \E k \in DOMAIN records : Respelled(k, Ref(r))
    BY <1>2, <1>3 DEF Authentic, Respelled
  <2>3. Explained(r, "mismatch") /\ "mismatch" \in Code \ {"none", "ok"}
    BY <2>2 DEF Explained, Code
  <2> QED
    BY <1>1, <2>1, <2>3, RefuseStep
<1>4. CASE versions[Ref(r)] = handler[h].body
  <2>1. Becomes(h, "write", res) /\ UNCHANGED <<tables, cache>> /\ Ref(r) \in DOMAIN versions
    BY <1>2, <1>4 DEF EnsureDefinitionMatches, Reserved, Becomes, Authentic
  <2>2. PICK n \in Work :
           /\ handler' = [handler EXCEPT ![h] = n]
           /\ n.phase = "write" /\ n.req = handler[h].req /\ n.body = handler[h].body
           /\ n.code = handler[h].code /\ n.resource = res
    BY <1>2, <2>1, BecomesKeeps DEF CreationInv, Phase
  <2>3. Fresh(n)
    BY <1>1, <1>2, <1>4, <2>1, <2>2 DEF Fresh, Holding, Writing
  <2>4. \A o \in Handler \ {h} : Apart(n, handler[o]) /\ Apart(handler[o], n)
    BY <1>1, <2>2 DEF CreationInv, LocksInv, Apart, Holding, Writing
  <2>5. Entitled(n, h)
    BY <2>2, <2>3, <2>4 DEF Entitled
  <2> QED
    BY <1>1, <2>1, <2>2, <2>5, InTransaction DEF Holding, Compiling
<1> QED
  BY <1>3, <1>4

\* The primary keys: a violation is one the callers know, and has a record.
LEMMA ViolationExplained ==
    ASSUME CreationInv, NEW h \in Handler, handler[h].phase = "write", Violation(h) # "none"
    PROVE  Explained(handler[h].req, Violation(h)) /\ Violation(h) \in Code \ {"none", "ok"}
<1> DEFINE r == handler[h].req
           res == handler[h].resource
<1>1. /\ Fresh(handler[h]) /\ r \in Request /\ r.workflow \in Workflow /\ r.op \in Operation
  BY Knows, RequestFields DEF Compiling
<1>2. IdemKey(r) \notin DOMAIN records
  BY <1>1 DEF Fresh, Writing
<1>3. CASE r.op = "create_workflow" /\ r.workflow \in DOMAIN workflows
  <2>1. Violation(h) = "workflow_exists"
    BY <1>3 DEF Violation
  <2>2. workflows[r.workflow] \in Nat \ {0}
    BY <1>3 DEF CreationInv, TypeOK
  <2>3. 1 \in 1 .. workflows[r.workflow]
    BY <2>2
  <2>4. <<r.workflow, 1>> \in DOMAIN versions
    BY <1>3, <2>3 DEF CreationInv, RowsInv
  <2>5. PICK k \in DOMAIN records :
           k[1] = "create_workflow" /\ records[k].resource = VersionResource(r.workflow, 1)
    BY <2>4 DEF CreationInv, RowsInv
  <2> QED
    BY <1>2, <2>1, <2>5 DEF Explained, Code
<1>4. CASE r.op = "start_run" /\ res.id \in DOMAIN runs
  <2>1. Violation(h) = "run_exists"
    BY <1>4 DEF Violation
  <2>2. \E k \in DOMAIN records : k[1] = "start_run"
    BY <1>4 DEF CreationInv, RowsInv
  <2> QED
    BY <1>2, <2>1, <2>2 DEF Explained, Code
<1>5. CASE r.op = "create_workflow_version"
  <2>1. /\ r.workflow \in DOMAIN workflows /\ workflows[r.workflow] \in Nat
        /\ res = VersionResource(r.workflow, workflows[r.workflow] + 1)
    BY <1>1, <1>5 DEF CreationInv, TypeOK, Fresh, Writing
  <2>2. <<res.id, res.version>> = <<r.workflow, workflows[r.workflow] + 1>>
    BY <2>1 DEF VersionResource
  <2>3. <<r.workflow, workflows[r.workflow] + 1>> \notin DOMAIN versions
    BY <2>1 DEF CreationInv, RowsInv
  <2>4. Violation(h) = "none"
    BY <1>2, <1>5, <2>2, <2>3 DEF Violation
  <2> QED
    BY <2>4
<1>6. CASE ~ \/ r.op = "create_workflow" /\ r.workflow \in DOMAIN workflows
             \/ r.op = "start_run" /\ res.id \in DOMAIN runs
             \/ r.op = "create_workflow_version"
  BY <1>2, <1>6 DEF Violation
<1> QED
  BY <1>3, <1>4, <1>5, <1>6

\* The inserts of a transaction, and what the primary keys refuse.
LEMMA WriteStep ==
    ASSUME CreationInv, NEW h \in Handler, Write(h) PROVE CreationInv'
<1> DEFINE r == handler[h].req
           res == handler[h].resource
<1>1. handler[h].phase = "write" /\ InsertsFree(h)
  BY DEF Write, At
<1>2. CASE Violation(h) # "none"
  <2>1. Refuse(h, Violation(h))
    BY <1>2 DEF Write
  <2> QED
    BY <1>1, <1>2, <2>1, ViolationExplained, RefuseStep
<1>3. CASE Violation(h) = "none"
  <2>1. Goto(h, "commit") /\ UNCHANGED <<tables, cache>>
    BY <1>3 DEF Write
  <2>2. PICK n \in Work :
           /\ handler' = [handler EXCEPT ![h] = n]
           /\ n.phase = "commit" /\ n.req = handler[h].req /\ n.body = handler[h].body
           /\ n.code = handler[h].code /\ n.resource = handler[h].resource
    BY <2>1, GotoKeeps DEF CreationInv, Phase
  <2>3. /\ r.op = "create_workflow" => r.workflow \notin DOMAIN workflows
        /\ r.op = "start_run" => res.id \notin DOMAIN runs
    BY <1>3 DEF Violation
  <2>4. Fresh(handler[h])
    BY <1>1, Knows DEF Compiling
  <2>5. Fresh(n)
    BY <1>1, <2>2, <2>3, <2>4 DEF Fresh, Holding, Writing
  <2>6. ASSUME NEW o \in Handler \ {h} PROVE Apart(n, handler[o]) /\ Apart(handler[o], n)
    <3>1. Apart(handler[h], handler[o]) /\ Apart(handler[o], handler[h])
      BY DEF CreationInv, LocksInv
    <3> QED
      BY <1>1, <2>2, <3>1 DEF InsertsFree, Apart, Holding, Writing
  <2>7. Entitled(n, h)
    BY <2>2, <2>5, <2>6 DEF Entitled
  <2> QED
    BY <1>1, <2>1, <2>2, <2>7, InTransaction DEF Holding, Compiling
<1> QED
  BY <1>2, <1>3


\* After the transaction: the answer names what was stored, and so does the cache.
LEMMA FinishStep ==
    ASSUME CreationInv, NEW h \in Handler, Finish(h) PROVE CreationInv'
<1> DEFINE r == handler[h].req
           res == handler[h].resource
           n == [handler[h] EXCEPT !.phase = "answered", !.code = "ok", !.body = None,
                                   !.resource = res]
<1>1. /\ handler[h].phase = "finish" /\ UNCHANGED tables
      /\ cache' = IF res.type = "run" THEN cache
                  ELSE Put(cache, <<res.id, res.version>>, handler[h].body)
      /\ handler' = [handler EXCEPT ![h] = n]
  BY DEF Finish, At, Answer
<1>2. /\ handler[h] \in Work /\ r \in Request /\ r # None /\ Definite(handler[h])
      /\ r.op \in Operation /\ IdemKey(r)[1] = r.op
  BY <1>1, Knows, RequestFields DEF Compiling
<1>3. Settled(r, res)
  BY <1>1 DEF CreationInv, HandlersInv, Sound, Outcome
<1>4. /\ n \in Work /\ n.phase = "answered" /\ n.code = "ok" /\ n.body = None
      /\ n.req = r /\ n.resource = res
  BY <1>2 DEF Work, Phase, Code
<1> HIDE DEF n
<1>5. Shaped(n)
  BY <1>2, <1>4 DEF Shaped
<1>6. Sound(n)
  BY <1>3, <1>4 DEF Sound, Definite, Fresh, Outcome, Explained, Compiling, Holding, Writing
<1>7. \A o \in Handler : Apart(n, handler[o]) /\ Apart(handler[o], n)
  BY <1>4, NoLocks DEF Holding
<1>8. CacheOK(cache') /\ CacheAgrees'
  <2>1. CASE res.type = "run"
    BY <1>1, <2>1 DEF CreationInv, TypeOK, CacheOK, CacheAgrees, Authentic, tables
  <2>2. CASE res.type # "run"
    <3>1. r.op # "start_run"
      <4> SUFFICES ASSUME r.op = "start_run" PROVE FALSE
        OBVIOUS
      <4>1. IdemKey(r) \in DOMAIN records /\ records[IdemKey(r)].resource = res
        BY <1>3 DEF Settled
      <4>2. Backed(IdemKey(r))
        BY <4>1 DEF CreationInv, RowsInv
      <4>3. \E i : res = RunResource(i)
        BY <1>2, <4>1, <4>2 DEF Backed
      <4> QED
        BY <2>2, <4>3 DEF RunResource
    <3>2. /\ <<res.id, res.version>> \in DOMAIN versions
          /\ versions[<<res.id, res.version>>] = JSONB[r.body]
          /\ IdemKey(r) \in DOMAIN records
          /\ records[IdemKey(r)] = [hash |-> <<r.id, r.body>>, resource |-> res]
      BY <1>3, <3>1 DEF Settled, RequestHash
    <3>3. handler[h].body = r.body
      BY <1>1, <1>2, <3>1 DEF Definite, Compiling
    <3>4. PICK ref, body, k : ref = <<res.id, res.version>> /\ body = r.body /\ k = IdemKey(r)
      OBVIOUS
    <3>5. /\ cache' = Put(cache, ref, body) /\ body \in Body
          /\ ref \in DOMAIN versions /\ versions[ref] = JSONB[body]
          /\ k \in DOMAIN records /\ records[k].hash[2] = body /\ records[k].resource = res
      BY <1>1, <2>2, <3>2, <3>3, <3>4, Knows DEF Compiling
    <3>6. res = VersionResource(ref[1], ref[2])
      <4>1. res \in Stored
        BY <3>5 DEF CreationInv, TypeOK, Record
      <4> QED
        BY <2>2, <3>4, <4>1 DEF Stored, VersionResource
    <3>7. Authentic(ref, body)
      BY <3>5, <3>6 DEF Authentic
    <3> QED
      BY <1>1, <3>5, <3>7, CacheGrows
  <2> QED
    BY <2>1, <2>2
<1> QED
  BY <1>1, <1>5, <1>6, <1>7, <1>8, LocalStep

\* A failed call rolls back: no table changes.
LEMMA FailStep ==
    ASSUME CreationInv, NEW h \in Handler, Fail(h) PROVE CreationInv'
<1>1. handler[h].phase # "idle" /\ Refuse(h, "internal")
  BY DEF Fail
<1> QED
  BY <1>1, RefuseStep, PlainRefusals

\* The process dies: nothing it had is in the tables.
LEMMA CrashStep ==
    ASSUME CreationInv, Crash PROVE CreationInv'
<1>1. /\ workflows' = workflows /\ versions' = versions /\ runs' = runs /\ records' = records
      /\ handler' = [h \in Handler |-> Idle] /\ DOMAIN cache' = {}
  BY DEF Crash, tables
<1>2. /\ Idle \in Work /\ Idle.phase = "idle" /\ Idle.req = None /\ Idle.body = None
      /\ Idle.code = "none"
  BY DEF Idle, Work, Phase, Code
<1>3. TypeOK'
  BY <1>1, <1>2 DEF CreationInv, TypeOK, At
<1>4. RowsInv'
  BY <1>1 DEF CreationInv, RowsInv, Backed
<1>5. ASSUME NEW h \in Handler PROVE Sound(handler[h])'
  <2>1. handler'[h] = Idle
    BY <1>1
  <2> QED
    BY <1>2, <2>1 DEF Sound, Definite, Fresh, Outcome, Explained, Compiling, Holding, Writing
<1>6. ASSUME NEW h \in Handler, NEW o \in Handler PROVE Apart(handler[h], handler[o])'
  BY <1>1, <1>2, NoLocks DEF Holding
<1>7. CacheAgrees'
  BY <1>1 DEF CacheAgrees
<1> QED
  BY <1>3, <1>4, <1>5, <1>6, <1>7 DEF CreationInv, HandlersInv, LocksInv

-----------------------------------------------------------------------------
(* Commit.                                                                   *)

\* A table only gets rows.
Kept(old, new) == DOMAIN old \subseteq DOMAIN new /\ \A x \in DOMAIN old : new[x] = old[x]

\* What the handler that commits knows: all the rows it writes are new.
LEMMA CommitRows ==
    ASSUME CreationInv, NEW h \in Handler, handler[h].phase = "commit"
    PROVE  LET r == handler[h].req
               res == handler[h].resource
           IN  /\ IdemKey(r) \notin DOMAIN records
               /\ r.op = "start_run" =>
                     /\ res.id \in RunId /\ res = RunResource(res.id) /\ res.id \notin DOMAIN runs
                     /\ Ref(r) \in DOMAIN versions /\ handler[h].body = versions[Ref(r)]
               /\ r.op # "start_run" =>
                     /\ res.id = r.workflow /\ res.version \in Nat \ {0}
                     /\ res = VersionResource(res.id, res.version)
                     /\ <<res.id, res.version>> \notin DOMAIN versions
                     /\ r.id = r.workflow /\ handler[h].body = r.body
                     /\ \/ /\ r.op = "create_workflow" /\ res.version = 1
                           /\ res.id \notin DOMAIN workflows
                        \/ /\ r.op = "create_workflow_version" /\ res.id \in DOMAIN workflows
                           /\ res.version = workflows[res.id] + 1
<1> DEFINE r == handler[h].req
           res == handler[h].resource
<1>1. /\ Fresh(handler[h]) /\ Definite(handler[h]) /\ r \in Request
      /\ r.workflow \in Workflow /\ r.op \in Operation
  BY Knows, RequestFields DEF Compiling
<1>2. IdemKey(r) \notin DOMAIN records
  BY <1>1 DEF Fresh, Writing
<1>3. ASSUME r.op = "start_run"
      PROVE  /\ res.id \in RunId /\ res = RunResource(res.id) /\ res.id \notin DOMAIN runs
             /\ Ref(r) \in DOMAIN versions /\ handler[h].body = versions[Ref(r)]
  <2>1. PICK i \in RunId : res = RunResource(i)
    BY <1>1, <1>3 DEF Fresh, Holding
  <2>2. res.id = i
    BY <2>1 DEF RunResource
  <2> QED
    BY <1>1, <1>3, <2>1, <2>2 DEF Fresh, Writing
<1>4. ASSUME r.op # "start_run"
      PROVE  r.id = r.workflow /\ handler[h].body = r.body
  BY <1>1, <1>4 DEF Definite, Compiling
<1>5. ASSUME r.op = "create_workflow"
      PROVE  /\ res.id = r.workflow /\ res.version = 1 /\ res = VersionResource(res.id, res.version)
             /\ res.id \notin DOMAIN workflows /\ <<res.id, res.version>> \notin DOMAIN versions
  <2>1. res = VersionResource(r.workflow, 1) /\ r.workflow \notin DOMAIN workflows
    BY <1>1, <1>5 DEF Fresh, Writing
  <2>2. res.id = r.workflow /\ res.version = 1
    BY <2>1 DEF VersionResource
  <2>3. <<r.workflow, 1>> \notin DOMAIN versions
    BY <2>1 DEF CreationInv, RowsInv
  <2> QED
    BY <2>1, <2>2, <2>3
<1>6. ASSUME r.op = "create_workflow_version"
      PROVE  /\ res.id = r.workflow /\ res.version = workflows[res.id] + 1
             /\ res.version \in Nat \ {0} /\ res = VersionResource(res.id, res.version)
             /\ res.id \in DOMAIN workflows /\ <<res.id, res.version>> \notin DOMAIN versions
  <2>1. /\ res = VersionResource(r.workflow, workflows[r.workflow] + 1)
        /\ r.workflow \in DOMAIN workflows
    BY <1>1, <1>6 DEF Fresh, Writing
  <2>2. res.id = r.workflow /\ res.version = workflows[r.workflow] + 1
    BY <2>1 DEF VersionResource
  <2>3. workflows[r.workflow] \in Nat
    BY <2>1 DEF CreationInv, TypeOK
  <2>4. <<r.workflow, workflows[r.workflow] + 1>> \notin DOMAIN versions
    BY <2>1, <2>3 DEF CreationInv, RowsInv
  <2> QED
    BY <2>1, <2>2, <2>3, <2>4
<1> QED
  BY <1>1, <1>2, <1>3, <1>4, <1>5, <1>6 DEF Operation


\* How the tables grow: by the record, and by a Run or a version.
LEMMA CommitGrows ==
    ASSUME CreationInv, NEW h \in Handler, Committed(h)
    PROVE  LET r == handler[h].req
               res == handler[h].resource
               v == <<res.id, res.version>>
           IN  /\ handler[h].phase = "commit" /\ cache' = cache
               /\ Kept(records, records') /\ DOMAIN records' = DOMAIN records \cup {IdemKey(r)}
               /\ records'[IdemKey(r)] = [hash |-> RequestHash(r), resource |-> res]
               /\ Kept(runs, runs') /\ Kept(versions, versions')
               /\ r.op = "start_run" =>
                     /\ workflows' = workflows /\ versions' = versions
                     /\ DOMAIN runs' = DOMAIN runs \cup {res.id}
                     /\ runs'[res.id] = [workflow |-> r.workflow, version |-> r.version,
                                         body |-> handler[h].body]
               /\ r.op # "start_run" =>
                     /\ runs' = runs
                     /\ DOMAIN workflows' = DOMAIN workflows \cup {res.id}
                     /\ workflows'[res.id] = res.version
                     /\ \A w \in DOMAIN workflows : w # res.id => workflows'[w] = workflows[w]
                     /\ DOMAIN versions' = DOMAIN versions \cup {v}
                     /\ versions'[v] = JSONB[handler[h].body]
<1> DEFINE r == handler[h].req
           res == handler[h].resource
           v == <<res.id, res.version>>
<1>1. /\ handler[h].phase = "commit" /\ cache' = cache
      /\ records' = Put(records, IdemKey(r), NewRecord(h))
  BY DEF Committed, At, RecordsAfter
<1>2. /\ IdemKey(r) \notin DOMAIN records
      /\ r.op = "start_run" => res.id \notin DOMAIN runs
      /\ r.op # "start_run" => v \notin DOMAIN versions
  BY <1>1, CommitRows
<1>3. /\ Kept(records, records') /\ DOMAIN records' = DOMAIN records \cup {IdemKey(r)}
      /\ records'[IdemKey(r)] = [hash |-> RequestHash(r), resource |-> res]
  <2>1. PICK k, row : k = IdemKey(r) /\ row = NewRecord(h)
    OBVIOUS
  <2>2. records' = Put(records, k, row) /\ k \notin DOMAIN records
    BY <1>1, <1>2, <2>1
  <2>3. Kept(records, records') /\ DOMAIN records' = DOMAIN records \cup {k} /\ records'[k] = row
    BY <2>2 DEF Kept, Put
  <2> QED
    BY <2>1, <2>3 DEF NewRecord
<1>4. CASE r.op = "start_run"
  <2>1. /\ workflows' = workflows /\ versions' = versions
        /\ runs' = Put(runs, res.id, NewRun(h))
    BY <1>4 DEF Committed
  <2>2. PICK i, row : i = res.id /\ row = NewRun(h)
    OBVIOUS
  <2>3. runs' = Put(runs, i, row) /\ i \notin DOMAIN runs
    BY <1>2, <1>4, <2>1, <2>2
  <2>4. Kept(runs, runs') /\ DOMAIN runs' = DOMAIN runs \cup {i} /\ runs'[i] = row
    BY <2>3 DEF Kept, Put
  <2>5. Kept(versions, versions')
    BY <2>1 DEF Kept
  <2> QED
    BY <1>1, <1>3, <1>4, <2>1, <2>2, <2>4, <2>5 DEF NewRun
<1>5. CASE r.op # "start_run"
  <2>1. /\ runs' = runs /\ workflows' = Put(workflows, res.id, res.version)
        /\ versions' = Put(versions, v, JSONB[handler[h].body])
    BY <1>5 DEF Committed, LatestAfter
  <2>2. PICK w, n, ref, row :
           w = res.id /\ n = res.version /\ ref = v /\ row = JSONB[handler[h].body]
    OBVIOUS
  <2>3. /\ workflows' = Put(workflows, w, n) /\ versions' = Put(versions, ref, row)
        /\ ref \notin DOMAIN versions
    BY <1>2, <1>5, <2>1, <2>2
  <2>4. /\ DOMAIN workflows' = DOMAIN workflows \cup {w} /\ workflows'[w] = n
        /\ \A x \in DOMAIN workflows : x # w => workflows'[x] = workflows[x]
    BY <2>3 DEF Put
  <2>5. /\ Kept(versions, versions') /\ DOMAIN versions' = DOMAIN versions \cup {ref}
        /\ versions'[ref] = row
    BY <2>3 DEF Kept, Put
  <2>6. Kept(runs, runs')
    BY <2>1 DEF Kept
  <2> QED
    BY <1>1, <1>3, <1>5, <2>1, <2>2, <2>4, <2>5, <2>6
<1> QED
  BY <1>4, <1>5

\* The types of the tables after a commit.
LEMMA CommitTypes ==
    ASSUME CreationInv, NEW h \in Handler, Committed(h), handler' \in [Handler -> Work],
           \A o \in Handler : Shaped(handler'[o])
    PROVE  TypeOK'
<1> DEFINE r == handler[h].req
           res == handler[h].resource
           v == <<res.id, res.version>>
<1>1. handler[h].phase = "commit"
  BY CommitGrows
<1>2. /\ r \in Request /\ handler[h].body \in Body /\ r.workflow \in Workflow
      /\ r.id \in Workflow /\ r.version \in Nat \ {0} /\ Ref(r) \in VersionRef
      /\ IdemKey(r) \in Operation \X Key
  BY <1>1, Knows, RequestFields DEF Compiling
<1>3. \A k \in DOMAIN records' : k \in Operation \X Key /\ records'[k] \in Record
  <2>1. res \in Stored
    <3>1. CASE r.op = "start_run"
      <4>1. PICK i \in RunId : res = RunResource(i)
        BY <1>1, <3>1, CommitRows
      <4> QED
        BY <4>1 DEF Stored, RunResource
    <3>2. CASE r.op # "start_run"
      <4>1. PICK w \in Workflow, n \in Nat \ {0} : res = VersionResource(w, n)
        BY <1>1, <1>2, <3>2, CommitRows
      <4> QED
        BY <4>1 DEF Stored, VersionResource
    <3> QED
      BY <3>1, <3>2
  <2>2. RequestHash(r) \in VersionRef \cup (Workflow \X Body)
    <3>1. CASE r.op = "start_run"
      BY <1>2, <3>1 DEF RequestHash, Ref
    <3>2. CASE r.op # "start_run"
      BY <1>1, <1>2, <3>2, CommitRows DEF RequestHash
    <3> QED
      BY <3>1, <3>2
  <2>3. [hash |-> RequestHash(r), resource |-> res] \in Record
    BY <2>1, <2>2 DEF Record
  <2>4. /\ DOMAIN records' = DOMAIN records \cup {IdemKey(r)}
        /\ \A k \in DOMAIN records : records'[k] = records[k]
        /\ records'[IdemKey(r)] \in Record
    BY <2>3, CommitGrows DEF Kept
  <2>5. \A k \in DOMAIN records : k \in Operation \X Key /\ records[k] \in Record
    BY DEF CreationInv, TypeOK
  <2> QED
    BY <1>2, <2>4, <2>5
<1>4. \A i \in DOMAIN runs' : i \in RunId /\ runs'[i] \in Run
  <2>1. \A i \in DOMAIN runs : i \in RunId /\ runs[i] \in Run
    BY DEF CreationInv, TypeOK
  <2>2. CASE r.op = "start_run"
    <3>1. [workflow |-> r.workflow, version |-> r.version, body |-> handler[h].body] \in Run
      BY <1>2 DEF Run
    <3>2. /\ DOMAIN runs' = DOMAIN runs \cup {res.id} /\ runs'[res.id] \in Run /\ res.id \in RunId
          /\ \A i \in DOMAIN runs : runs'[i] = runs[i]
      BY <1>1, <2>2, <3>1, CommitGrows, CommitRows DEF Kept
    <3> QED
      BY <2>1, <3>2
  <2>3. CASE r.op # "start_run"
    BY <2>1, <2>3, CommitGrows
  <2> QED
    BY <2>2, <2>3
<1>5. /\ \A x \in DOMAIN versions' : x \in VersionRef /\ versions'[x] \in Body
      /\ \A w \in DOMAIN workflows' : w \in Workflow /\ workflows'[w] \in Nat \ {0}
  <2>1. /\ \A x \in DOMAIN versions : x \in VersionRef /\ versions[x] \in Body
        /\ \A w \in DOMAIN workflows : w \in Workflow /\ workflows[w] \in Nat \ {0}
    BY DEF CreationInv, TypeOK
  <2>2. CASE r.op = "start_run"
    BY <2>1, <2>2, CommitGrows
  <2>3. CASE r.op # "start_run"
    <3>1. /\ DOMAIN versions' = DOMAIN versions \cup {v} /\ versions'[v] = JSONB[handler[h].body]
          /\ \A x \in DOMAIN versions : versions'[x] = versions[x]
          /\ DOMAIN workflows' = DOMAIN workflows \cup {res.id} /\ workflows'[res.id] = res.version
          /\ \A w \in DOMAIN workflows : w # res.id => workflows'[w] = workflows[w]
      BY <2>3, CommitGrows DEF Kept
    <3>2. res.id \in Workflow /\ res.version \in Nat \ {0} /\ v \in VersionRef
      BY <1>1, <1>2, <2>3, CommitRows DEF VersionRef
    <3>3. JSONB[handler[h].body] \in Body
      BY <1>2, JSONBAssumption
    <3> QED
      BY <2>1, <3>1, <3>2, <3>3
  <2> QED
    BY <2>2, <2>3
<1>6. cache' = cache
  BY CommitGrows
<1> QED
  BY <1>3, <1>4, <1>5, <1>6 DEF CreationInv, TypeOK, Shaped, At


\* The request that commits is settled by its rows.
LEMMA CommitSettles ==
    ASSUME CreationInv, NEW h \in Handler, Committed(h), NEW r, NEW res,
           r = handler[h].req, res = handler[h].resource
    PROVE  Settled(r, res)'
<1>1. handler[h].phase = "commit"
  BY CommitGrows
<1>2. /\ IdemKey(r) \in DOMAIN records'
      /\ records'[IdemKey(r)] = [hash |-> RequestHash(r), resource |-> res]
  BY CommitGrows
<1>3. CASE r.op = "start_run"
  <2>1. Ref(r) \in DOMAIN versions /\ handler[h].body = versions[Ref(r)]
    BY <1>1, <1>3, CommitRows
  <2>2. /\ res.id \in DOMAIN runs' /\ versions' = versions
        /\ runs'[res.id] = [workflow |-> r.workflow, version |-> r.version,
                            body |-> handler[h].body]
    BY <1>3, CommitGrows
  <2> QED
    BY <1>2, <1>3, <2>1, <2>2 DEF Settled
<1>4. CASE r.op # "start_run"
  <2>1. /\ <<res.id, res.version>> \in DOMAIN versions'
        /\ versions'[<<res.id, res.version>>] = JSONB[handler[h].body]
    BY <1>4, CommitGrows
  <2>2. res.id = r.workflow /\ handler[h].body = r.body
    BY <1>1, <1>4, CommitRows
  <2> QED
    BY <1>2, <1>4, <2>1, <2>2 DEF Settled
<1> QED
  BY <1>3, <1>4

\* The tables stay consistent: the new record backs the new row, and nothing else.
LEMMA CommitConsistent ==
    ASSUME CreationInv, NEW h \in Handler, Committed(h) PROVE RowsInv'
<1>1. handler[h].phase = "commit"
  BY CommitGrows
<1>r. PICK r, res, key :
         r = handler[h].req /\ res = handler[h].resource /\ key = IdemKey(handler[h].req)
  OBVIOUS
<1> DEFINE v == <<res.id, res.version>>
<1>n. /\ r.op = "start_run" =>
            res = RunResource(res.id) /\ res.id \notin DOMAIN runs
      /\ r.op # "start_run" =>
            /\ res = VersionResource(res.id, res.version) /\ v \notin DOMAIN versions
            /\ r.id = r.workflow /\ res.id = r.workflow /\ res.version \in Nat \ {0}
            /\ \/ r.op = "create_workflow" /\ res.version = 1 /\ res.id \notin DOMAIN workflows
               \/ res.id \in DOMAIN workflows /\ res.version = workflows[res.id] + 1
  BY <1>1, <1>r, CommitRows
<1>g. /\ r.op = "start_run" =>
            /\ workflows' = workflows /\ versions' = versions
            /\ DOMAIN runs' = DOMAIN runs \cup {res.id}
      /\ r.op # "start_run" =>
            /\ runs' = runs
            /\ DOMAIN workflows' = DOMAIN workflows \cup {res.id}
            /\ workflows'[res.id] = res.version
            /\ \A w \in DOMAIN workflows : w # res.id => workflows'[w] = workflows[w]
            /\ DOMAIN versions' = DOMAIN versions \cup {v}
  BY <1>r, CommitGrows
<1>2. /\ DOMAIN records' = DOMAIN records \cup {key} /\ key \notin DOMAIN records
      /\ records'[key] = [hash |-> RequestHash(r), resource |-> res]
      /\ \A k \in DOMAIN records : records'[k] = records[k]
      /\ \A i \in DOMAIN runs : i \in DOMAIN runs' /\ runs'[i] = runs[i]
      /\ \A x \in DOMAIN versions : x \in DOMAIN versions' /\ versions'[x] = versions[x]
  BY <1>1, <1>r, CommitGrows, CommitRows DEF Kept
<1>3. r \in Request /\ key[1] = r.op /\ r.op \in Operation
  BY <1>1, <1>r, Knows DEF Compiling
<1>4. Settled(r, res)'
  BY <1>r, CommitSettles
<1>5. ASSUME NEW k \in DOMAIN records PROVE Backed(k)'
  <2>1. Backed(k) /\ records'[k] = records[k]
    BY <1>2 DEF CreationInv, RowsInv
  <2>2. CASE k[1] = "start_run"
    BY <1>2, <2>1, <2>2 DEF Backed
  <2>3. CASE k[1] # "start_run"
    BY <1>2, <2>1, <2>3 DEF Backed
  <2> QED
    BY <2>2, <2>3
<1>6. Backed(key)'
  <2>1. CASE r.op = "start_run"
    <3>1. /\ records'[key].resource = RunResource(res.id)
          /\ records'[key].hash = Ref(r)
      BY <1>2, <1>n, <2>1 DEF RequestHash, Ref
    <3>2. /\ res.id \in DOMAIN runs' /\ Ref(r) \in DOMAIN versions'
          /\ runs'[res.id] = [workflow |-> Ref(r)[1], version |-> Ref(r)[2],
                              body |-> versions'[Ref(r)]]
      BY <1>4, <2>1 DEF Settled, Ref
    <3> QED
      BY <1>3, <2>1, <3>1, <3>2 DEF Backed
  <2>2. CASE r.op # "start_run"
    <3>1. PICK w, n : res.id = w /\ res.version = n
      OBVIOUS
    <3>2. /\ w = r.workflow /\ w = r.id /\ <<w, n>> \in DOMAIN versions'
          /\ versions'[<<w, n>>] = JSONB[r.body] /\ res = VersionResource(w, n)
      BY <1>4, <1>n, <2>2, <3>1 DEF Settled
    <3>3. r.body \in Body
      BY <1>1, <1>r, <2>2, CommitRows, Knows DEF Compiling
    <3>5. /\ records'[key].resource = VersionResource(w, n)
          /\ records'[key].hash = <<w, r.body>>
      BY <1>2, <2>2, <3>2 DEF RequestHash
    <3>4. PICK x \in DOMAIN versions' : x = <<w, n>> /\ x[1] = w /\ x[2] = n
      BY <3>2
    <3> QED
      BY <1>3, <2>2, <3>2, <3>3, <3>4, <3>5 DEF Backed
  <2> QED
    BY <2>1, <2>2
<1>7. ASSUME NEW i \in DOMAIN runs'
      PROVE  \E k \in DOMAIN records' : k[1] = "start_run" /\ records'[k].resource = RunResource(i)
  <2>1. CASE i \in DOMAIN runs
    BY <1>2, <2>1 DEF CreationInv, RowsInv
  <2>2. CASE i \notin DOMAIN runs
    <3>1. r.op = "start_run" /\ i = res.id /\ res = RunResource(i)
      BY <1>n, <1>g, <2>2
    <3> QED
      BY <1>2, <1>3, <3>1
  <2> QED
    BY <2>1, <2>2
<1>8. ASSUME NEW x \in DOMAIN versions'
      PROVE  \E k \in DOMAIN records' :
                /\ records'[k].resource = VersionResource(x[1], x[2])
                /\ x[2] = 1 => k[1] = "create_workflow"
  <2>1. CASE x \in DOMAIN versions
    BY <1>2, <2>1 DEF CreationInv, RowsInv
  <2>2. CASE x \notin DOMAIN versions
    <3>1. r.op # "start_run" /\ x = v
      BY <1>g, <2>2
    <3>2. /\ res = VersionResource(x[1], x[2]) /\ x[2] = res.version
          /\ x[2] = 1 => r.op = "create_workflow"
      <4>1. \A w \in DOMAIN workflows : workflows[w] \in Nat \ {0}
        BY DEF CreationInv, TypeOK
      <4> QED
        BY <1>n, <3>1, <4>1
    <3> QED
      BY <1>2, <1>3, <3>2
  <2> QED
    BY <2>1, <2>2
<1>9. ASSUME NEW k \in DOMAIN records PROVE records[k].resource # res
  <2> SUFFICES ASSUME records[k].resource = res PROVE FALSE
    OBVIOUS
  <2>1. Backed(k)
    BY DEF CreationInv, RowsInv
  <2>2. CASE r.op = "start_run"
    <3>1. res = RunResource(res.id) /\ res.id \notin DOMAIN runs
      BY <1>n, <2>2
    <3>2. \/ \E i \in DOMAIN runs : res = RunResource(i)
          \/ \E x \in DOMAIN versions : res = VersionResource(x[1], x[2])
      BY <2>1 DEF Backed
    <3> QED
      BY <3>1, <3>2 DEF RunResource, VersionResource
  <2>3. CASE r.op # "start_run"
    <3>1. res = VersionResource(res.id, res.version) /\ v \notin DOMAIN versions
      BY <1>n, <2>3
    <3>2. \/ \E i \in DOMAIN runs : res = RunResource(i)
          \/ \E x \in DOMAIN versions : res = VersionResource(x[1], x[2])
      BY <2>1 DEF Backed
    <3>3. \A x \in DOMAIN versions : x = <<x[1], x[2]>>
      BY DEF CreationInv, TypeOK, VersionRef
    <3> QED
      BY <3>1, <3>2, <3>3 DEF RunResource, VersionResource
  <2> QED
    BY <2>2, <2>3
<1>10. \A j, k \in DOMAIN records' : records'[j].resource = records'[k].resource => j = k
  <2>1. \A j, k \in DOMAIN records : records[j].resource = records[k].resource => j = k
    BY DEF CreationInv, RowsInv
  <2>2. records'[key].resource = res
    BY <1>2
  <2> QED
    BY <1>2, <1>9, <2>1, <2>2
<1>11. /\ \A x \in DOMAIN versions' : x[1] \in DOMAIN workflows' /\ x[2] <= workflows'[x[1]]
       /\ \A w \in DOMAIN workflows' : \A n \in 1..workflows'[w] : <<w, n>> \in DOMAIN versions'
  <2>1. /\ \A x \in DOMAIN versions : x[1] \in DOMAIN workflows /\ x[2] <= workflows[x[1]]
        /\ \A w \in DOMAIN workflows : \A n \in 1..workflows[w] : <<w, n>> \in DOMAIN versions
        /\ \A x \in DOMAIN versions : x \in VersionRef
        /\ \A w \in DOMAIN workflows : workflows[w] \in Nat \ {0}
    BY DEF CreationInv, TypeOK, RowsInv
  <2>2. CASE r.op = "start_run"
    BY <1>g, <2>1, <2>2
  <2>3. CASE r.op # "start_run"
    <3>1. PICK u, m : u = res.id /\ m = res.version
      OBVIOUS
    <3>2. /\ DOMAIN versions' = DOMAIN versions \cup {<<u, m>>}
          /\ DOMAIN workflows' = DOMAIN workflows \cup {u} /\ workflows'[u] = m
          /\ \A w \in DOMAIN workflows : w # u => workflows'[w] = workflows[w]
      BY <1>g, <2>3, <3>1
    <3>3. /\ m \in Nat \ {0}
          /\ \/ u \notin DOMAIN workflows /\ m = 1
             \/ u \in DOMAIN workflows /\ m = workflows[u] + 1
      BY <1>n, <2>3, <3>1
    <3>4. ASSUME NEW x \in DOMAIN versions'
          PROVE  x[1] \in DOMAIN workflows' /\ x[2] <= workflows'[x[1]]
      <4>1. CASE x = <<u, m>>
        BY <3>2, <3>3, <4>1
      <4>2. CASE x \in DOMAIN versions
        <5>1. /\ x[1] \in DOMAIN workflows /\ x[2] \in Nat /\ x[2] <= workflows[x[1]]
              /\ workflows[x[1]] \in Nat
          BY <2>1, <4>2 DEF VersionRef
        <5> QED
          BY <3>2, <3>3, <5>1
      <4> QED
        BY <3>2, <4>1, <4>2
    <3>5. ASSUME NEW w \in DOMAIN workflows', NEW n \in 1..workflows'[w]
          PROVE  <<w, n>> \in DOMAIN versions'
      <4>1. CASE w = u /\ n = m
        BY <3>2, <4>1
      <4>2. CASE w = u /\ n # m
        <5>1. w \in DOMAIN workflows /\ n \in 1..workflows[w]
          BY <2>1, <3>2, <3>3, <4>2
        <5> QED
          BY <2>1, <3>2, <5>1
      <4>3. CASE w # u
        BY <2>1, <3>2, <4>3
      <4> QED
        BY <4>1, <4>2, <4>3
    <3> QED
      BY <3>4, <3>5
  <2> QED
    BY <2>2, <2>3
<1> QED
  BY <1>2, <1>5, <1>6, <1>7, <1>8, <1>10, <1>11 DEF RowsInv


\* What a request is settled or refused by stays.
LEMMA OutcomeKept ==
    ASSUME CreationInv, NEW h \in Handler, Committed(h), NEW m, Outcome(m)
    PROVE  Outcome(m)'
<1>1. /\ \A k \in DOMAIN records : k \in DOMAIN records' /\ records'[k] = records[k]
      /\ \A i \in DOMAIN runs : i \in DOMAIN runs' /\ runs'[i] = runs[i]
      /\ \A x \in DOMAIN versions : x \in DOMAIN versions' /\ versions'[x] = versions[x]
  BY CommitGrows DEF Kept
<1>2. Settled(m.req, m.resource) => Settled(m.req, m.resource)'
  BY <1>1 DEF Settled
<1>3. Explained(m.req, m.code)'
  <2>1. Explained(m.req, m.code)
    BY DEF Outcome
  <2> QED
    BY <1>1, <2>1 DEF Explained, Respelled
<1> QED
  BY <1>2, <1>3 DEF Outcome

\* What another handler counts on is not touched by a commit.
LEMMA CommitOthers ==
    ASSUME CreationInv, NEW h \in Handler, Committed(h), NEW o \in Handler \ {h},
           NEW m, m = handler[o]
    PROVE  Sound(m)'
<1>1. handler[h].phase = "commit"
  BY CommitGrows
<1>2. PICK n : n = handler[h]
  OBVIOUS
<1>3. Definite(m) /\ Fresh(m) /\ Outcome(m) /\ Apart(n, m)
  BY <1>2 DEF CreationInv, HandlersInv, Sound, LocksInv
<1>4. Definite(m)'
  <2>1. /\ \A x \in DOMAIN versions : x \in DOMAIN versions' /\ versions'[x] = versions[x]
        /\ \A k \in DOMAIN records : k \in DOMAIN records' /\ records'[k] = records[k]
    BY CommitGrows DEF Kept
  <2> QED
    BY <1>3, <2>1 DEF Definite, Authentic
<1>5. Outcome(m)'
  BY <1>3, OutcomeKept
<1>6. n.phase = "commit" /\ n.req.op \in Operation
  BY <1>1, <1>2, Knows DEF Compiling
<1>7. m.phase \in {"reserve"} \cup Writing => IdemKey(m.req) \notin DOMAIN records'
  <2>1. DOMAIN records' = DOMAIN records \cup {IdemKey(n.req)}
    BY <1>2, CommitGrows
  <2> QED
    BY <1>3, <1>6, <2>1 DEF Fresh, Apart, Holding, Writing
<1>v. m.phase \in Writing /\ m.req.op = "start_run" =>
          Ref(m.req) \in DOMAIN versions' /\ m.body = versions'[Ref(m.req)]
  BY <1>3, CommitGrows DEF Fresh, Kept
<1>8. CASE n.req.op = "start_run"
  <2>1. workflows' = workflows /\ DOMAIN runs' = DOMAIN runs \cup {n.resource.id}
    BY <1>2, <1>8, CommitGrows
  <2>2. n.resource = RunResource(n.resource.id)
    BY <1>1, <1>2, <1>8, CommitRows
  <2>3. m.phase = "commit" /\ m.req.op = "start_run" => m.resource.id \notin DOMAIN runs'
    <3> SUFFICES ASSUME m.phase = "commit", m.req.op = "start_run" PROVE m.resource.id \notin DOMAIN runs'
      OBVIOUS
    <3>1. PICK i \in RunId : m.resource = RunResource(i)
      BY <1>3 DEF Fresh, Holding
    <3>2. m.resource.id = i /\ i \notin DOMAIN runs
      BY <1>3, <3>1 DEF Fresh, RunResource
    <3>3. m.resource # n.resource
      BY <1>3, <1>6 DEF Apart
    <3>4. i # n.resource.id
      BY <2>2, <3>1, <3>3
    <3> QED
      BY <2>1, <3>2, <3>4
  <2>4. Fresh(m)'
    BY <1>3, <1>7, <1>v, <2>1, <2>3 DEF Fresh
  <2> QED
    BY <1>4, <1>5, <2>4 DEF Sound
<1>9. CASE n.req.op # "start_run"
  <2>1. PICK u, w : u = n.resource.id /\ w = m.req.workflow
    OBVIOUS
  <2>2. /\ runs' = runs /\ DOMAIN workflows' = DOMAIN workflows \cup {u}
        /\ \A x \in DOMAIN workflows : x # u => workflows'[x] = workflows[x]
    BY <1>2, <1>9, <2>1, CommitGrows
  <2>3. /\ u = n.req.workflow /\ n.resource = VersionResource(u, n.resource.version)
        /\ \/ n.req.op = "create_workflow" /\ n.resource.version = 1 /\ u \notin DOMAIN workflows
           \/ n.req.op = "create_workflow_version" /\ u \in DOMAIN workflows
    BY <1>1, <1>2, <1>9, <2>1, CommitRows
  <2>4. ASSUME m.phase \in Writing, m.req.op = "create_workflow_version"
        PROVE  w \in DOMAIN workflows' /\ workflows'[w] = workflows[w]
    <3>1. w \in DOMAIN workflows
      BY <1>3, <2>1, <2>4 DEF Fresh
    <3>2. w # u
      BY <1>3, <1>6, <2>1, <2>3, <2>4, <3>1 DEF Apart, Writing
    <3> QED
      BY <2>2, <3>1, <3>2
  <2>5. ASSUME m.phase = "commit", m.req.op = "create_workflow" PROVE w \notin DOMAIN workflows'
    <3>1. w \notin DOMAIN workflows /\ m.resource = VersionResource(w, 1)
      BY <1>3, <2>1, <2>5 DEF Fresh, Writing
    <3>2. w # u
      BY <1>3, <1>6, <2>3, <2>5, <3>1 DEF Apart
    <3> QED
      BY <2>2, <3>1, <3>2
  <2>6. Fresh(m)'
    BY <1>3, <1>7, <1>v, <2>1, <2>2, <2>4, <2>5 DEF Fresh
  <2> QED
    BY <1>4, <1>5, <2>6 DEF Sound
<1> QED
  BY <1>8, <1>9

\* A commit keeps the invariant, whatever becomes of the handler without its locks.
LEMMA CommittedStep ==
    ASSUME CreationInv, NEW h \in Handler, Committed(h), NEW n,
           handler' = [handler EXCEPT ![h] = n], Shaped(n), n.phase \notin Holding, Sound(n)'
    PROVE  CreationInv'
<1>1. ASSUME NEW o \in Handler PROVE handler'[o] = IF o = h THEN n ELSE handler[o]
  BY DEF CreationInv, TypeOK
<1>2. TypeOK'
  <2>1. handler' \in [Handler -> Work]
    BY DEF CreationInv, TypeOK, Shaped
  <2>2. ASSUME NEW o \in Handler PROVE Shaped(handler'[o])
    BY <1>1, HandlerShape DEF CreationInv
  <2> QED
    BY <2>1, <2>2, CommitTypes
<1>3. ASSUME NEW o \in Handler PROVE Sound(handler[o])'
  <2>1. PICK m : m = handler'[o]
    OBVIOUS
  <2>2. Sound(m)'
    <3>1. CASE o = h
      BY <1>1, <2>1, <3>1
    <3>2. CASE o # h
      BY <1>1, <2>1, <3>2, CommitOthers
    <3> QED
      BY <3>1, <3>2
  <2> QED
    BY <2>1, <2>2
<1>4. ASSUME NEW o \in Handler, NEW p \in Handler, o # p PROVE Apart(handler'[o], handler'[p])
  BY <1>1, <1>4, NoLocks DEF CreationInv, LocksInv
<1>5. CacheAgrees'
  <2>1. /\ cache' = cache
        /\ \A x \in DOMAIN versions : x \in DOMAIN versions' /\ versions'[x] = versions[x]
        /\ \A k \in DOMAIN records : k \in DOMAIN records' /\ records'[k] = records[k]
    BY CommitGrows DEF Kept
  <2> QED
    BY <2>1 DEF CreationInv, CacheAgrees, Authentic
<1>6. RowsInv'
  BY CommitConsistent
<1> QED
  BY <1>2, <1>3, <1>4, <1>5, <1>6 DEF CreationInv, HandlersInv, LocksInv

\* A commit makes the resource and its idempotency record appear together.
LEMMA CommitStep ==
    ASSUME CreationInv, NEW h \in Handler, Commit(h) PROVE CreationInv'
<1>1. Committed(h) /\ Goto(h, "finish")
  BY DEF Commit
<1>2. handler[h].phase = "commit"
  BY <1>1, CommitGrows
<1>3. PICK n \in Work :
         /\ handler' = [handler EXCEPT ![h] = n]
         /\ n.phase = "finish" /\ n.req = handler[h].req /\ n.body = handler[h].body
         /\ n.code = handler[h].code /\ n.resource = handler[h].resource
  BY <1>1, GotoKeeps DEF CreationInv, Phase
<1>4. /\ Definite(handler[h]) /\ handler[h].req \in Request /\ handler[h].req # None
      /\ handler[h].body \in Body /\ handler[h].body # None
  BY <1>2, Knows, RequestFields, RequestAssumption DEF Compiling
<1>5. n.code = "none"
  BY <1>2, <1>3 DEF CreationInv, HandlersInv, Sound, Outcome
<1>6. Shaped(n)
  BY <1>3, <1>4 DEF Shaped
<1>7. Settled(n.req, n.resource)'
  <2>1. PICK r, res : r = n.req /\ res = n.resource
    OBVIOUS
  <2>2. Settled(r, res)'
    BY <1>1, <1>3, <2>1, CommitSettles
  <2> QED
    BY <2>1, <2>2
<1>8. Definite(n)'
  <2>1. /\ \A x \in DOMAIN versions : x \in DOMAIN versions' /\ versions'[x] = versions[x]
        /\ \A k \in DOMAIN records : k \in DOMAIN records' /\ records'[k] = records[k]
    BY <1>1, CommitGrows DEF Kept
  <2> QED
    BY <1>2, <1>3, <1>4, <2>1 DEF Definite, Authentic, Compiling
<1>9. Sound(n)'
  BY <1>3, <1>5, <1>7, <1>8 DEF Sound, Fresh, Outcome, Explained, Holding, Writing
<1> QED
  BY <1>1, <1>3, <1>6, <1>9, CommittedStep DEF Holding

\* The commit went through and the caller is told of an error.
LEMMA CommitUnknownStep ==
    ASSUME CreationInv, NEW h \in Handler, CommitUnknown(h) PROVE CreationInv'
<1>1. PICK n : n = [handler[h] EXCEPT !.phase = "answered", !.code = "internal", !.body = None,
                                      !.resource = NoResource]
  OBVIOUS
<1>2. Committed(h) /\ handler' = [handler EXCEPT ![h] = n]
  BY <1>1 DEF CommitUnknown, Answer
<1>3. handler[h] \in Work /\ handler[h].req \in Request /\ handler[h].req # None
  BY <1>2, CommitGrows, Knows, RequestFields DEF Compiling
<1>4. /\ n \in Work /\ n.phase = "answered" /\ n.code = "internal" /\ n.body = None
      /\ n.req = handler[h].req
  BY <1>1, <1>3 DEF Work, Phase, Code
<1>5. Shaped(n)
  BY <1>3, <1>4 DEF Shaped
<1>6. Sound(n)'
  BY <1>4 DEF Sound, Definite, Fresh, Outcome, Explained, Compiling, Holding, Writing
<1> QED
  BY <1>2, <1>4, <1>5, <1>6, CommittedStep DEF Holding

-----------------------------------------------------------------------------
(* The theorems.                                                             *)

\* The empty tables satisfy the invariant.
LEMMA CreationInit == Init => CreationInv
<1> SUFFICES ASSUME Init PROVE CreationInv
  OBVIOUS
<1>1. /\ DOMAIN workflows = {} /\ DOMAIN versions = {} /\ DOMAIN runs = {}
      /\ DOMAIN records = {} /\ DOMAIN cache = {}
      /\ handler = [h \in Handler |-> Idle]
  BY DEF Init
<1>2. /\ Idle \in Work /\ Idle.phase = "idle" /\ Idle.req = None /\ Idle.body = None
      /\ Idle.code = "none"
  BY DEF Idle, Work, Phase, Code
<1>3. TypeOK
  BY <1>1, <1>2 DEF TypeOK, At
<1>4. RowsInv
  BY <1>1 DEF RowsInv
<1>5. HandlersInv
  BY <1>1, <1>2 DEF HandlersInv, Sound, Definite, Fresh, Outcome, Explained, Compiling, Holding,
                    Writing
<1>6. LocksInv
  BY <1>1, <1>2 DEF LocksInv, Apart, Holding, Writing
<1>7. CacheAgrees
  BY <1>1 DEF CacheAgrees
<1> QED
  BY <1>3, <1>4, <1>5, <1>6, <1>7 DEF CreationInv

\* A stuttering step keeps the invariant.
LEMMA CreationStutter == CreationInv /\ UNCHANGED vars => CreationInv'
  BY DEF vars, CreationInv, TypeOK, RowsInv, Backed, HandlersInv, Sound, Definite, Fresh, Outcome,
         Settled, Explained, Respelled, LocksInv, CacheAgrees, Authentic, At

\* CreationInv is inductive.
LEMMA CreationInvariant == Spec => []CreationInv
<1>1. CreationInv /\ Next => CreationInv'
  <2> SUFFICES ASSUME CreationInv, Next PROVE CreationInv'
    OBVIOUS
  <2>1. CASE Crash
    BY <2>1, CrashStep
  <2>2. ASSUME NEW h \in Handler, Receive(h) \/ Step(h) \/ Fail(h) \/ CommitUnknown(h)
        PROVE  CreationInv'
    BY <2>2, ReceiveStep, CompileSentStep, CompileCachedStep, LoadDefinitionStep, CacheLoadedStep,
       LockKeyStep, LoadIdempotencyStep, ReserveFirstStep, ReserveNextStep,
       EnsureDefinitionMatchesStep, WriteStep, CommitStep, FinishStep, FailStep,
       CommitUnknownStep DEF Step
  <2> QED
    BY <2>1, <2>2 DEF Next
<1>2. CreationInv /\ [Next]_vars => CreationInv'
  BY <1>1, CreationStutter
<1> QED
  BY <1>2, CreationInit, PTL DEF Spec

(* A successful answer names the resource recorded under the key, to the     *)
(* first request and to every retry, and the resource is what was asked for, *)
(* whatever requests run at once, fail, lose their answer or die with the    *)
(* process (CreateDefinition, CreateVersion, CreateRun, validateReplay).     *)
THEOREM AnswersHold == Spec => []AnswersAgree
<1>1. CreationInv => AnswersAgree
  BY DEF CreationInv, HandlersInv, Sound, Outcome, AnswersAgree
<1> QED
  BY <1>1, CreationInvariant, PTL

(* A refusal is accounted for by a record of another request; the advisory   *)
(* lock, FOR UPDATE and the immutable versions leave no race that surfaces   *)
(* as an unexpected violation, nor as a mismatch unless the version was sent *)
(* in a spelling the database does not keep (insertIdempotency,              *)
(* ensureDefinitionMatches).                                                 *)
THEOREM RefusalsHold == Spec => []RefusalsExplained
<1>1. CreationInv => RefusalsExplained
  BY DEF CreationInv, HandlersInv, Sound, Outcome, RefusalsExplained
<1> QED
  BY <1>1, CreationInvariant, PTL

(* Rows and idempotency records stand in a one-to-one correspondence and the *)
(* versions of a workflow are numbered without a gap, after any crash, lost  *)
(* answer or failed commit (CreateDefinition, CreateVersion, CreateRun).     *)
THEOREM TablesConsistent == Spec => []TablesInv
<1>1. CreationInv => TablesInv
  <2> SUFFICES ASSUME CreationInv PROVE TablesInv
    OBVIOUS
  <2>1. {records[k].resource : k \in DOMAIN records} = StoredResources
    <3>1. ASSUME NEW k \in DOMAIN records PROVE records[k].resource \in StoredResources
      <4>1. Backed(k)
        BY DEF CreationInv, RowsInv
      <4> QED
        BY <4>1 DEF Backed, StoredResources
    <3>2. ASSUME NEW x \in StoredResources PROVE \E k \in DOMAIN records : x = records[k].resource
      <4>1. CASE \E i \in DOMAIN runs : x = RunResource(i)
        BY <4>1 DEF CreationInv, RowsInv
      <4>2. CASE \E v \in DOMAIN versions : x = VersionResource(v[1], v[2])
        BY <4>2 DEF CreationInv, RowsInv
      <4> QED
        BY <4>1, <4>2 DEF StoredResources
    <3> QED
      BY <3>1, <3>2
  <2>2. \A j, k \in DOMAIN records : records[j].resource = records[k].resource => j = k
    BY DEF CreationInv, RowsInv
  <2>3. DOMAIN versions = UNION {{<<w, n>> : n \in 1..workflows[w]} : w \in DOMAIN workflows}
    <3>1. ASSUME NEW v \in DOMAIN versions
          PROVE  \E w \in DOMAIN workflows : \E n \in 1..workflows[w] : v = <<w, n>>
      <4>1. PICK w \in Workflow, n \in Nat \ {0} : v = <<w, n>>
        BY DEF CreationInv, TypeOK, VersionRef
      <4>2. v[1] \in DOMAIN workflows /\ v[2] <= workflows[v[1]] /\ v[1] = w /\ v[2] = n
        BY <4>1 DEF CreationInv, RowsInv
      <4>3. workflows[w] \in Nat
        BY <4>2 DEF CreationInv, TypeOK
      <4> QED
        BY <4>1, <4>2, <4>3
    <3>2. ASSUME NEW w \in DOMAIN workflows, NEW n \in 1..workflows[w]
          PROVE  <<w, n>> \in DOMAIN versions
      BY DEF CreationInv, RowsInv
    <3> QED
      BY <3>1, <3>2
  <2> QED
    BY <2>1, <2>2, <2>3 DEF CreationInv, TablesInv
<1> QED
  BY <1>1, CreationInvariant, PTL

(* The cache of the service holds a version as the table has it or as it was *)
(* sent, which is the same but for the spelling of numbers                   *)
(* (workflowService.putCache).                                               *)
THEOREM CacheHolds == Spec => []CacheAgrees
<1>1. CreationInv => CacheAgrees
  BY DEF CreationInv
<1> QED
  BY <1>1, CreationInvariant, PTL

(* Of the requests that are open one can always go on: who waits, waits for  *)
(* a handler that is further in the order key, row, inserted rows, and a     *)
(* handler about to commit waits for nobody (pg_advisory_xact_lock, FOR      *)
(* UPDATE).                                                                  *)
THEOREM RequestsProceed == Spec => []NoStall
<1>1. TypeOK => NoStall
  <2> SUFFICES ASSUME TypeOK, NEW g \in Handler, InFlight(g)
               PROVE  \E h \in Handler : InFlight(h) /\ ~Waits(h)
    BY DEF NoStall
  <2>1. CASE \E h \in Handler : handler[h].phase = "commit"
    BY <2>1 DEF InFlight, Waits, At
  <2>2. CASE /\ ~ \E h \in Handler : handler[h].phase = "commit"
             /\ \E h \in Handler : handler[h].phase = "write"
    BY <2>2 DEF InFlight, Waits, At, InsertsFree
  <2>3. CASE /\ ~ \E h \in Handler : handler[h].phase \in {"commit", "write"}
             /\ \E h \in Handler : handler[h].phase \in {"lookup", "reserve"}
    BY <2>3 DEF InFlight, Waits, At, RowFree
  <2>4. CASE ~ \E h \in Handler : handler[h].phase \in {"commit", "write", "lookup", "reserve"}
    BY <2>4 DEF InFlight, Waits, At, KeyFree, HoldsKey
  <2> QED
    BY <2>1, <2>2, <2>3, <2>4
<1>2. CreationInv => TypeOK
  BY DEF CreationInv
<1> QED
  BY <1>1, <1>2, CreationInvariant, PTL


===============================================================================
