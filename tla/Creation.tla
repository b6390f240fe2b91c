------------------------------ MODULE Creation ------------------------------
(***************************************************************************)
(* The idempotent writes of the control plane: create a workflow, create a *)
(* version of it, start a Run of a version.  The HTTP handlers of one      *)
(* server process (internal/httpapi/server.go) call the services of        *)
(* internal/app, which call one transaction of internal/postgres each.     *)
(*                                                                         *)
(* A handler is a record.  Its transaction holds the advisory lock of its  *)
(* idempotency key from LockKey on and the row it inserted or locked from  *)
(* Reserve or Write on, until the transaction ends, so which handler holds *)
(* what is read off the phases.  The statements run at READ COMMITTED:     *)
(* each one sees what was committed when it started, and what a            *)
(* transaction wrote appears at Commit.                                    *)
(*                                                                         *)
(* The principal of a request is the role of its token and only operators  *)
(* may write, so every request has the same principal and it is left out   *)
(* of the keys.  Wake, which CreateRun's caller sends to the coordinator,  *)
(* only shortens the wait for the next scan: Dispatch lets scans happen at *)
(* any time and needs no wake-up.                                          *)
(***************************************************************************)
EXTENDS Naturals

CONSTANTS
    Handler,    \* concurrent HTTP requests of the server
    Workflow,   \* workflow identifiers
    Body,       \* canonical definitions, as Compile returns them
    JSONB,      \* what the database makes of each of them
    Malformed,  \* definitions Compile refuses
    Key,        \* values of the Idempotency-Key header
    RunId,      \* identifiers newRunID may draw
    Request,    \* the requests the clients send, each any number of times
    None        \* no definition yet

Operation == {"create_workflow", "create_workflow_version", "start_run"}

\* What a client asks for.  "version" counts for start_run only, "body" for
\* the other two; "id" is the ID inside the definition that was sent.
ValidRequest ==
    [op : Operation, key : Key, workflow : Workflow, id : Workflow,
     body : Body \cup Malformed, version : Nat \ {0}]

ASSUME RequestAssumption ==
    /\ Request \subseteq ValidRequest
    /\ Body \cap Malformed = {}
    /\ None \notin Request \cup Body \cup Malformed
    /\ \A r \in Request : r.op = "create_workflow" => r.id = r.workflow

(* The column definition_json is JSONB: a number comes back in the spelling  *)
(* of PostgreSQL, 1e2 as 100, and that spelling it keeps.  The decoders keep *)
(* a number as it is spelled (UseNumber), so definitions that differ in it   *)
(* are different definitions to the program.                                 *)
ASSUME JSONBAssumption ==
    /\ JSONB \in [Body -> Body]
    /\ \A b \in Body : JSONB[JSONB[b]] = JSONB[b]

VARIABLES
    workflows,  \* table workflows: identifier -> latest_version
    versions,   \* table workflow_versions: <<identifier, version>> -> body
    runs,       \* tables workflow_runs and task_runs: what a Run was made from
    records,    \* table idempotency_records: <<operation, key>> -> record
    cache,      \* workflowService.cache: <<identifier, version>> -> body
    handler     \* the request each handler works on and how far it is

vars == <<workflows, versions, runs, records, cache, handler>>
tables == <<workflows, versions, runs, records>>

(***************************************************************************)
(* Values.                                                                 *)
(***************************************************************************)
\* resource_type, resource_id and resource_version of an idempotency record
VersionResource(w, n) == [type |-> "workflow_version", id |-> w, version |-> n]
RunResource(i) == [type |-> "run", id |-> i, version |-> 0]
NoResource == [type |-> "none", id |-> None, version |-> 0]

ResourceType(r) == IF r.op = "start_run" THEN "run" ELSE "workflow_version"

\* definitionHash and startRequestHash: equal exactly for equal requests,
\* whatever key they come with; a definition is hashed as it was sent.
RequestHash(r) ==
    IF r.op = "start_run" THEN <<r.workflow, r.version>> ELSE <<r.id, r.body>>

IdemKey(r) == <<r.op, r.key>>
Ref(r) == <<r.workflow, r.version>>

\* one row more in a table
Put(table, k, row) == [x \in DOMAIN table \cup {k} |-> IF x = k THEN row ELSE table[x]]

Idle == [phase |-> "idle", req |-> None, body |-> None,
         resource |-> NoResource, code |-> "none"]

(***************************************************************************)
(* Locks.                                                                  *)
(***************************************************************************)
\* Faulty variant: a lock of the session, which outlives the transaction.
HoldsKey_Session(h) ==
    handler[h].phase \in {"lookup", "reserve", "write", "commit", "answered"}

\* pg_advisory_xact_lock is held from LockKey to the end of the transaction.
HoldsKey(h) == handler[h].phase \in {"lookup", "reserve", "write", "commit"}

\* Faulty variant: no lock of the key.
KeyFree_NoLock(h) == TRUE

KeyFree(h) ==
    \A o \in Handler \ {h} :
        HoldsKey(o) => IdemKey(handler[o].req) # IdemKey(handler[h].req)

\* SELECT ... FOR UPDATE of the workflow row by CreateVersion.
RowFree(h) ==
    \A o \in Handler \ {h} :
        ~ /\ handler[o].phase \in {"write", "commit"}
          /\ handler[o].req.op = "create_workflow_version"
          /\ handler[o].req.workflow = handler[h].req.workflow

\* An INSERT waits for a transaction that inserted the same primary key and
\* has not ended.
InsertsFree(h) ==
    \A o \in Handler \ {h} :
        handler[o].phase = "commit" =>
            /\ handler[o].resource # handler[h].resource
            /\ IdemKey(handler[o].req) # IdemKey(handler[h].req)

-----------------------------------------------------------------------------
Init ==
    /\ workflows = [w \in {} |-> 0]
    /\ versions = [r \in {} |-> None]
    /\ runs = [i \in {} |-> None]
    /\ records = [k \in {} |-> None]
    /\ cache = [r \in {} |-> None]
    /\ handler = [h \in Handler |-> Idle]

At(h, phase) == handler[h].phase = phase
Goto(h, phase) == handler' = [handler EXCEPT ![h].phase = phase]

Answer(h, code, resource) ==
    handler' = [handler EXCEPT ![h] =
                   [@ EXCEPT !.phase = "answered", !.code = code,
                             !.body = None, !.resource = resource]]

\* The handler returns an error; the deferred Rollback ends its transaction.
Refuse(h, code) == Answer(h, code, NoResource) /\ UNCHANGED <<tables, cache>>

\* A request arrives, the first of its kind or a retry of an earlier one.
Receive(h) ==
    /\ handler[h].phase \in {"idle", "answered"}
    /\ \E r \in Request :
          handler' = [handler EXCEPT ![h] = [Idle EXCEPT !.phase = "compile", !.req = r]]
    /\ UNCHANGED <<tables, cache>>

(***************************************************************************)
(* Before the transaction.                                                 *)
(***************************************************************************)
\* Start draws an identifier for the Run it is going to create.
Compiled(h, body) ==
    LET r == handler[h].req IN
    \E res \in IF r.op = "start_run" THEN {RunResource(i) : i \in RunId} ELSE {NoResource} :
        handler' = [handler EXCEPT ![h] =
                       [@ EXCEPT !.phase = "lock", !.body = body, !.resource = res]]

\* Compile refuses the definition, or it is not one of the workflow it was
\* sent to.
Unacceptable(r) == r.body \in Malformed \/ r.id # r.workflow

\* Create and CreateVersion compile the definition that was sent.
CompileSent(h) ==
    /\ At(h, "compile")
    /\ handler[h].req.op # "start_run"
    /\ LET r == handler[h].req IN
       IF Unacceptable(r)
       THEN Refuse(h, "invalid_argument")
       ELSE Compiled(h, r.body) /\ UNCHANGED <<tables, cache>>

\* Start compiles the stored version, from the cache if it is there.
CompileCached(h) ==
    /\ At(h, "compile")
    /\ handler[h].req.op = "start_run"
    /\ Ref(handler[h].req) \in DOMAIN cache
    /\ Compiled(h, cache[Ref(handler[h].req)])
    /\ UNCHANGED <<tables, cache>>

\* The definition as the database gives it back.
LoadDefinition(h) ==
    /\ At(h, "compile")
    /\ LET r == handler[h].req IN
       /\ r.op = "start_run"
       /\ Ref(r) \notin DOMAIN cache
       /\ IF Ref(r) \in DOMAIN versions
          THEN /\ handler' = [handler EXCEPT ![h] =
                                 [@ EXCEPT !.phase = "loaded", !.body = versions[Ref(r)]]]
               /\ UNCHANGED <<tables, cache>>
          ELSE Refuse(h, "not_found")

CacheLoaded(h) ==
    /\ At(h, "loaded")
    /\ cache' = Put(cache, Ref(handler[h].req), handler[h].body)
    /\ Compiled(h, handler[h].body)
    /\ UNCHANGED tables

(***************************************************************************)
(* The transaction: CreateDefinition, CreateVersion, CreateRun.            *)
(***************************************************************************)
LockKey(h) ==
    /\ At(h, "lock")
    /\ KeyFree(h)
    /\ Goto(h, "lookup")
    /\ UNCHANGED <<tables, cache>>

\* Faulty variant: the hash of the request is not compared.
ValidateReplay_TypeOnly(record, r) == record.resource.type = ResourceType(r)

ValidateReplay(record, r) ==
    record.hash = RequestHash(r) /\ record.resource.type = ResourceType(r)

\* A record under the key is a replay of the same request, answered with the
\* recorded resource, or a conflict.  Either way the transaction ends.
LoadIdempotency(h) ==
    /\ At(h, "lookup")
    /\ LET r == handler[h].req IN
       IF IdemKey(r) \notin DOMAIN records
       THEN Goto(h, "reserve") /\ UNCHANGED <<tables, cache>>
       ELSE IF ValidateReplay(records[IdemKey(r)], r)
       THEN /\ handler' = [handler EXCEPT ![h] =
                  [@ EXCEPT !.phase = "finish", !.resource = records[IdemKey(r)].resource]]
            /\ UNCHANGED <<tables, cache>>
       ELSE Refuse(h, "idempotency_conflict")

Reserved(h, resource) ==
    /\ handler' = [handler EXCEPT ![h] =
                      [@ EXCEPT !.phase = "write", !.resource = resource]]
    /\ UNCHANGED <<tables, cache>>

ReserveFirst(h) ==
    /\ At(h, "reserve")
    /\ handler[h].req.op = "create_workflow"
    /\ Reserved(h, VersionResource(handler[h].req.workflow, 1))

\* latest_version is read under the lock of the workflow's row; a workflow
\* another transaction is still creating is not visible.
ReserveNext(h) ==
    /\ At(h, "reserve")
    /\ LET w == handler[h].req.workflow IN
       /\ handler[h].req.op = "create_workflow_version"
       /\ IF w \in DOMAIN workflows
          THEN RowFree(h) /\ Reserved(h, VersionResource(w, workflows[w] + 1))
          ELSE Refuse(h, "not_found")

\* ensureDefinitionMatches: the snapshot was built before the transaction,
\* so the version it names is read again and the two are compared as text.
EnsureDefinitionMatches(h) ==
    /\ At(h, "reserve")
    /\ LET r == handler[h].req IN
       /\ r.op = "start_run"
       /\ IF Ref(r) \notin DOMAIN versions THEN Refuse(h, "not_found")
          ELSE IF versions[Ref(r)] # handler[h].body THEN Refuse(h, "mismatch")
          ELSE Reserved(h, handler[h].resource)

\* What the primary keys refuse once the rows a transaction waited for are
\* committed.  The first two have an error of their own; "constraint" is the
\* violation no caller expects.
Violation(h) ==
    LET r == handler[h].req
        res == handler[h].resource
    IN  IF r.op = "create_workflow" /\ r.workflow \in DOMAIN workflows THEN "workflow_exists"
        ELSE IF r.op = "start_run" /\ res.id \in DOMAIN runs THEN "run_exists"
        ELSE IF \/ r.op = "create_workflow_version" /\ <<res.id, res.version>> \in DOMAIN versions
                \/ IdemKey(r) \in DOMAIN records
        THEN "constraint"
        ELSE "none"

Write(h) ==
    /\ At(h, "write")
    /\ InsertsFree(h)
    /\ IF Violation(h) = "none"
       THEN Goto(h, "commit") /\ UNCHANGED <<tables, cache>>
       ELSE Refuse(h, Violation(h))

NewRecord(h) == [hash |-> RequestHash(handler[h].req), resource |-> handler[h].resource]

\* Faulty variant: the Run is bound to the latest version.
NewRun_Latest(h) ==
    [workflow |-> handler[h].req.workflow,
     version |-> workflows[handler[h].req.workflow], body |-> handler[h].body]

\* The row of the Run, and the definition its TaskRuns were made from.
NewRun(h) ==
    [workflow |-> handler[h].req.workflow, version |-> handler[h].req.version,
     body |-> handler[h].body]

LatestAfter(h) == Put(workflows, handler[h].resource.id, handler[h].resource.version)

\* Faulty variant: the record is left to a transaction of its own, which a
\* crash or a failure keeps from happening.
RecordsAfter_Later(h) == records

RecordsAfter(h) == Put(records, IdemKey(handler[h].req), NewRecord(h))

\* The writes of the transaction become visible together.
Committed(h) ==
    /\ At(h, "commit")
    /\ LET r == handler[h].req
           res == handler[h].resource
       IN  IF r.op = "start_run"
           THEN /\ runs' = Put(runs, res.id, NewRun(h))
                /\ UNCHANGED <<workflows, versions>>
           ELSE /\ workflows' = LatestAfter(h)
                /\ versions' = Put(versions, <<res.id, res.version>>, JSONB[handler[h].body])
                /\ UNCHANGED runs
    /\ records' = RecordsAfter(h)
    /\ UNCHANGED cache

Commit(h) == Committed(h) /\ Goto(h, "finish")

\* After the transaction: Create and CreateVersion cache what they compiled
\* under the version they were given, and the answer is written.
Finish(h) ==
    /\ At(h, "finish")
    /\ LET res == handler[h].resource IN
       cache' = IF res.type = "run" THEN cache
                ELSE Put(cache, <<res.id, res.version>>, handler[h].body)
    /\ Answer(h, "ok", handler[h].resource)
    /\ UNCHANGED tables

(***************************************************************************)
(* Failures.                                                               *)
(***************************************************************************)
\* The client goes away or a database call fails: the deferred Rollback undoes
\* the transaction.
Fail(h) ==
    /\ handler[h].phase \in {"compile", "lock", "lookup", "reserve", "write", "commit"}
    /\ Refuse(h, "internal")

\* The commit goes through and the connection fails before its answer: the
\* caller is told of an error and nothing is cached.
CommitUnknown(h) == Committed(h) /\ Answer(h, "internal", NoResource)

\* The process dies: its transactions are rolled back and its cache is gone.
Crash ==
    /\ cache' = [r \in {} |-> None]
    /\ handler' = [h \in Handler |-> Idle]
    /\ UNCHANGED tables

Step(h) ==
    \/ CompileSent(h) \/ CompileCached(h) \/ LoadDefinition(h) \/ CacheLoaded(h)
    \/ LockKey(h) \/ LoadIdempotency(h)
    \/ ReserveFirst(h) \/ ReserveNext(h) \/ EnsureDefinitionMatches(h)
    \/ Write(h) \/ Commit(h) \/ Finish(h)

Next ==
    \/ \E h \in Handler : Receive(h) \/ Step(h) \/ Fail(h) \/ CommitUnknown(h)
    \/ Crash

Spec == Init /\ [][Next]_vars

-----------------------------------------------------------------------------
Code == {"none", "ok", "invalid_argument", "not_found", "idempotency_conflict",
         "workflow_exists", "run_exists", "mismatch", "constraint", "internal"}
Phase == {"idle", "compile", "loaded", "lock", "lookup", "reserve", "write",
          "commit", "finish", "answered"}
VersionRef == Workflow \X (Nat \ {0})
Stored == [type : {"workflow_version"}, id : Workflow, version : Nat \ {0}]
            \cup [type : {"run"}, id : RunId, version : {0}]
Run == [workflow : Workflow, version : Nat \ {0}, body : Body]
Record == [hash : VersionRef \cup (Workflow \X Body), resource : Stored]
Work == [phase : Phase, req : Request \cup {None}, body : Body \cup {None},
         resource : Stored \cup {NoResource}, code : Code]

\* Only identifiers, bodies and hashes of well-formed requests are stored, and
\* a handler carries a definition exactly while it works on it.
TypeOK ==
    /\ DOMAIN workflows \subseteq Workflow
    /\ \A w \in DOMAIN workflows : workflows[w] \in Nat \ {0}
    /\ DOMAIN versions \subseteq VersionRef
    /\ \A r \in DOMAIN versions : versions[r] \in Body
    /\ DOMAIN runs \subseteq RunId
    /\ \A i \in DOMAIN runs : runs[i] \in Run
    /\ DOMAIN records \subseteq Operation \X Key
    /\ \A k \in DOMAIN records : records[k] \in Record
    /\ DOMAIN cache \subseteq VersionRef
    /\ \A r \in DOMAIN cache : cache[r] \in Body
    /\ handler \in [Handler -> Work]
    /\ \A h \in Handler :
          /\ handler[h].req = None <=> At(h, "idle")
          /\ handler[h].body = None <=> handler[h].phase \in {"idle", "compile", "answered"}

\* The resource is recorded under the key of the request and is what the
\* request asked for.
Settled(r, res) ==
    /\ IdemKey(r) \in DOMAIN records
    /\ records[IdemKey(r)] = [hash |-> RequestHash(r), resource |-> res]
    /\ IF r.op = "start_run"
       THEN /\ res.id \in DOMAIN runs /\ Ref(r) \in DOMAIN versions
            /\ runs[res.id] = [workflow |-> r.workflow, version |-> r.version,
                               body |-> versions[Ref(r)]]
       ELSE /\ res.id = r.workflow /\ <<res.id, res.version>> \in DOMAIN versions
            /\ versions[<<res.id, res.version>>] = JSONB[r.body]

\* A successful answer, to the request that did the work or to any retry of
\* it, names the one resource recorded under the key, and that resource is
\* what the request asked for: the version holds the body that was sent, as
\* the database spells it, the Run is bound to the version that was named and
\* its tasks are those of that version (CreateDefinition, CreateVersion, CreateRun, validateReplay).
AnswersAgree ==
    \A h \in Handler : handler[h].code = "ok" => Settled(handler[h].req, handler[h].resource)

\* The record k of the version was made for a definition that the database
\* gives back spelled in another way.
Respelled(k, ref) ==
    /\ records[k].resource = VersionResource(ref[1], ref[2])
    /\ ref \in DOMAIN versions /\ versions[ref] # records[k].hash[2]

\* The records that account for a refusal.
Explained(r, code) ==
    /\ code # "constraint"
    /\ code = "idempotency_conflict" =>
          IdemKey(r) \in DOMAIN records /\ records[IdemKey(r)].hash # RequestHash(r)
    /\ code = "workflow_exists" =>
          \E k \in DOMAIN records :
              /\ k[1] = "create_workflow" /\ k # IdemKey(r)
              /\ records[k].resource = VersionResource(r.workflow, 1)
    /\ code = "run_exists" => \E k \in DOMAIN records : k[1] = "start_run" /\ k # IdemKey(r)
    /\ code = "mismatch" => \E k \in DOMAIN records : Respelled(k, Ref(r))

\* A refusal has a reason in the tables that is not the client's own earlier
\* try: a conflict is a different request under the key, workflow_exists a
\* workflow another key created, run_exists a Run of another key, and a
\* definition that does not match its version is one that was sent in another
\* spelling than the database keeps.  No race between two handlers surfaces as
\* a mismatch or as an unexpected constraint violation.
RefusalsExplained == \A h \in Handler : Explained(handler[h].req, handler[h].code)

\* The resources of the tables, as the records name them.
StoredResources ==
    {VersionResource(v[1], v[2]) : v \in DOMAIN versions}
    \cup {RunResource(i) : i \in DOMAIN runs}

\* Every stored version and Run belongs to exactly one idempotency record and
\* every record to a stored resource, whatever crashes, failed commits and lost
\* answers came between (insertIdempotency in the creating transaction); the
\* versions of a workflow are numbered 1 to latest_version without a gap,
\* however many CreateVersion transactions run at once (definitions.go, FOR
\* UPDATE).
TablesInv ==
    /\ TypeOK
    /\ {records[k].resource : k \in DOMAIN records} = StoredResources
    /\ \A j, k \in DOMAIN records :
          records[j].resource = records[k].resource => j = k
    /\ DOMAIN versions = UNION {{<<w, n>> : n \in 1..workflows[w]} : w \in DOMAIN workflows}

\* What Start may take from the cache is what LoadDefinition would have read or
\* what the request that created the version sent, which the database stores
\* as just that; replays and failures included (workflowService.putCache).
Authentic(ref, body) ==
    /\ ref \in DOMAIN versions
    /\ versions[ref] = JSONB[body]
    /\ \E k \in DOMAIN records :
          /\ records[k].resource = VersionResource(ref[1], ref[2])
          /\ body \in {versions[ref], records[k].hash[2]}

CacheAgrees == \A r \in DOMAIN cache : Authentic(r, cache[r])

InFlight(h) == handler[h].phase \notin {"idle", "answered"}

Waits(h) ==
    \/ At(h, "lock") /\ ~KeyFree(h)
    \/ At(h, "reserve") /\ handler[h].req.op = "create_workflow_version" /\ ~RowFree(h)
    \/ At(h, "write") /\ ~InsertsFree(h)

\* The handlers never all wait for each other: as long as requests are open,
\* one of them can take its next step.  Locks are taken in one order, key, row,
\* inserted rows, and every way out of a transaction gives them all back.
NoStall == (\E h \in Handler : InFlight(h)) => \E h \in Handler : InFlight(h) /\ ~Waits(h)
=============================================================================
