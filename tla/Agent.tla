--------------------------------- MODULE Agent ---------------------------------
(***************************************************************************)
(* Drafts of workflows (agent/, internal/httpapi/draft.go): a model turns  *)
(* a goal into a draft within a budget of model turns and tool calls       *)
(* (GenerateDraft), and an operator edits the draft, has it validated and  *)
(* confirms it.  The server keeps no draft: it travels in the requests, so *)
(* the browser tabs of the operator are the only place it is in.           *)
(* The operator never computes a content hash; a digest of SHA-256 is      *)
(* taken to determine what it was computed from.                           *)
(***************************************************************************)
EXTENDS Integers, Sequences, FiniteSets, SequencesExt

CONSTANTS
    MaxModelTurns, MaxToolCalls,    \* Limits
    Permissions,        \* what the service may call tools with
    TaskPermissions,    \* what the validator grants to tasks
    Tools,          \* the tool registry: required permission by name, or None
    Batches,        \* the sequences of tool calls a model may ask for
    Definitions,    \* the definitions a model or an operator may write
    Compiles,       \* those workflow.Compile accepts
    Catalogs,       \* the task templates of successive releases
    Tab,            \* places the operator has a draft open in
    None

\* ErrorCode: what GenerateDraft may end with; and the codes of a validation report.
ErrorCodes == {"model_timeout", "canceled", "budget_exceeded", "model_unavailable",
               "model_invalid_response", "tool_timeout", "tool_invalid_input", "tool_not_allowed"}
IssueCodes == {"concurrency_limit_exceeded", "workflow_definition_invalid", "question_unresolved",
               "unknown_action", "permission_missing", "timeout_limit_exceeded",
               "required_input_missing", "input_type_mismatch", "input_enum_mismatch",
               "unknown_input"}

\* The types of the audit events.
EventTypes == {"draft.generation_started", "model.completed", "model.retry", "tool.allowed",
               "tool.denied", "draft.generated", "draft.generation_failed"}

ASSUME AgentAssumption ==
    /\ MaxModelTurns \in Nat \ {0} /\ MaxToolCalls \in Nat \ {0}
    /\ Compiles \subseteq Definitions
    /\ <<>> \in Batches
    /\ \A b \in Batches : b \in Seq({b[i] : i \in DOMAIN b})
    /\ None \notin ErrorCodes \cup [def : Definitions, open : BOOLEAN]

VARIABLES
    session,    \* one call of GenerateDraft
    audit,      \* the types of its audit events
    tab,        \* the draft in each tab
    catalog,    \* the templates of the running release
    reviewed,   \* what ValidateDraft answered as ready for confirmation
    confirmed   \* what ConfirmDraft was given when it returned a definition

vars == <<session, audit, tab, catalog, reviewed, confirmed>>

(* ctx: the context with the time limit of the session; turns, tools: the    *)
(* budget used; calls: calls of the model begun; batch, next: the tool calls *)
(* of the last answer and the one due; records: calls kept for the draft;    *)
(* draft: the answer's draft; code: the error GenerateDraft returns.         *)
Idle == [at |-> "idle", ctx |-> "live", turns |-> 0, tools |-> 0, calls |-> 0, batch |-> <<>>,
         next |-> 1, records |-> 0, draft |-> None, code |-> None]

\* What the model writes, what the hash is computed from, and a draft of the service.
Written == [def : Definitions, open : BOOLEAN]
DraftStatus == {"generated", "validated", "needs_confirmation"}
Content == [def : Definitions, open : BOOLEAN, errors : SUBSET IssueCodes, records : Nat,
            status : DraftStatus]
Draft == [def : Definitions, open : BOOLEAN, errors : SUBSET IssueCodes, records : Nat,
          status : DraftStatus, hash : Content \cup {None}]

At == {"idle", "begin", "turn", "calling", "retrying", "answered", "checking", "tool", "invoking",
       "draft", "done"}
Generating == [at : At, ctx : {"live", "canceled", "deadline"}, turns : Nat, tools : Nat,
               calls : Nat, batch : Batches, next : Nat, records : Nat,
               draft : Written \cup Draft \cup {None}, code : ErrorCodes \cup {None}]

TypeOK ==
    /\ session \in Generating
    /\ audit \in Seq(EventTypes)
    /\ tab \in [Tab -> Draft \cup {None}]
    /\ catalog \in Catalogs
    /\ reviewed \subseteq Content
    /\ confirmed \subseteq [draft : Content, read : Content]

Init ==
    /\ session = Idle
    /\ audit = <<>>
    /\ tab = [t \in Tab |-> None]
    /\ catalog \in Catalogs
    /\ reviewed = {} /\ confirmed = {}

Session(s) == session' = s /\ UNCHANGED <<tab, catalog, reviewed, confirmed>>

Record(type) == audit' = Append(audit, type)

Live == session.ctx = "live"

-----------------------------------------------------------------------------
(* GenerateDraft.                                                            *)

\* Faulty variant: the closing event is recorded with the session's context.
Fail_SessionContext(s, code) ==
    /\ Session([s EXCEPT !.at = "done", !.code = code])
    /\ IF Live THEN Record("draft.generation_failed") ELSE UNCHANGED audit

(* Every return with an error passes the deferred function, which records    *)
(* the failure with a context that is not canceled with the request.         *)
Fail(s, code) ==
    /\ Session([s EXCEPT !.at = "done", !.code = code])
    /\ Record("draft.generation_failed")

\* mapContextError: what the context says, if it is done.
mapContextError(code) ==
    CASE session.ctx = "deadline" -> "model_timeout"
      [] session.ctx = "canceled" -> "canceled"
      [] OTHER -> code

\* dispatchDraft calls GenerateDraft; one draft is asked for until it is there.
Request ==
    /\ session.at = "idle"
    /\ \A t \in Tab : tab[t] = None
    /\ Session([session EXCEPT !.at = "begin"])
    /\ UNCHANGED audit

Begin ==
    /\ session.at = "begin"
    /\ IF Live
       THEN Session([session EXCEPT !.at = "turn"]) /\ Record("draft.generation_started")
       ELSE Fail(session, mapContextError(None))

\* The client goes away, or RuntimeTimeout is over.
ContextDone ==
    /\ session.at \notin {"idle", "done"}
    /\ Live
    /\ \E why \in {"canceled", "deadline"} : Session([session EXCEPT !.ctx = why])
    /\ UNCHANGED audit

\* Faulty variant: the last turn is not refused.
UseModelTurn_OneMore(s) == s.turns > MaxModelTurns

\* UseModelTurn and UseToolCall: the budget is used up.
UseModelTurn(s) == s.turns >= MaxModelTurns
UseToolCall(s) == s.tools >= MaxToolCalls

\* The head of the loop: the context, then the budget, then the model is called.
Turn ==
    /\ session.at = "turn"
    /\ IF ~Live THEN Fail(session, mapContextError(None))
       ELSE IF UseModelTurn(session) THEN Fail(session, "budget_exceeded")
       ELSE /\ Session([session EXCEPT !.at = "calling", !.turns = @ + 1, !.calls = @ + 1])
            /\ UNCHANGED audit

(* Client.Generate of httpmodel fails: with a temporary error for a failed   *)
(* request, the statuses 429 and 5xx or a broken body, else for good.        *)
ModelErrors == [code : {"model_unavailable"}, temporary : BOOLEAN]
                 \cup [code : {"model_invalid_response", "budget_exceeded"}, temporary : {FALSE}]

(* A temporary failure is tried once more, at the cost of another turn,      *)
(* which is used even when the context is done before the second call.       *)
Retry ==
    LET s == [session EXCEPT !.turns = @ + 1]
    IN  IF UseModelTurn(session) THEN Fail(session, "budget_exceeded")
        ELSE IF ~Live THEN Fail(s, mapContextError(None))
        ELSE Session([s EXCEPT !.at = "retrying", !.calls = @ + 1]) /\ Record("model.retry")

ModelFails ==
    /\ session.at \in {"calling", "retrying"}
    /\ \E e \in ModelErrors :
          IF e.temporary /\ session.at = "calling"
          THEN Retry
          ELSE Fail(session, mapContextError(e.code))

(* The model answers, with tool calls or a draft or, badly, both or neither; *)
(* a draft that decodeDraft refuses counts as none.                          *)
ModelAnswers ==
    /\ session.at \in {"calling", "retrying"}
    /\ \E b \in Batches, d \in Written \cup {None} :
          Session([session EXCEPT !.at = "answered", !.batch = b, !.next = 1, !.draft = d])
    /\ UNCHANGED audit

\* validateToolCalls: every call of the batch is complete and has an ID of its own.
validateToolCalls(batch) ==
    /\ \A i \in DOMAIN batch : batch[i].complete
    /\ \A i, j \in DOMAIN batch : batch[i].id = batch[j].id => i = j

(* The answer is checked as a whole before any tool is called: its size,     *)
(* then its tool calls, which go before a draft, then its draft.             *)
Answered ==
    /\ session.at = "answered"
    /\ \/ ~Live /\ Fail(session, mapContextError(None))
       \/ Live /\ Fail(session, "budget_exceeded")       \* CheckResponseSize
       \/ /\ Live
          /\ Session([session EXCEPT !.at = "checking"])
          /\ Record("model.completed")

Checked ==
    /\ session.at = "checking"
    /\ IF session.batch # <<>>
       THEN IF validateToolCalls(session.batch)
            THEN Session([session EXCEPT !.at = "tool"]) /\ UNCHANGED audit
            ELSE Fail(session, "model_invalid_response")
       ELSE IF session.draft = None
            THEN Fail(session, "model_invalid_response")
            ELSE Session([session EXCEPT !.at = "draft"]) /\ UNCHANGED audit

\* The next call of the batch, or the next turn after the last one.
ToolDue ==
    /\ session.at = "tool"
    /\ IF session.next > Len(session.batch)
       THEN Session([session EXCEPT !.at = "turn", !.batch = <<>>, !.next = 1, !.draft = None])
            /\ UNCHANGED audit
       ELSE IF ~Live THEN Fail(session, mapContextError(None))
       ELSE IF UseToolCall(session) THEN Fail(session, "budget_exceeded")
       ELSE /\ Session([session EXCEPT !.at = "invoking", !.tools = @ + 1])
            /\ UNCHANGED audit

Registered(call) == call.name \in DOMAIN Tools /\ Tools[call.name] \in Permissions \cup {None}

\* ToolRegistry.Invoke and the catalogue query: the errors a call may end with.
ToolErrors(call) ==
    IF Registered(call)
    THEN {"tool_timeout"} \cup (IF call.fits THEN {} ELSE {"tool_invalid_input"})
    ELSE {"tool_not_allowed"}

(* The event of a refused call is lost if the context is done just then; the *)
(* closing one never is.                                                     *)
ToolReturns ==
    /\ session.at = "invoking"
    /\ LET call == session.batch[session.next]
       IN  \/ ~Live /\ Fail(session, mapContextError(None))
           \/ /\ Live
              /\ \E code \in ToolErrors(call) :
                    /\ Session([session EXCEPT !.at = "done", !.code = code])
                    /\ \E denied \in {audit, Append(audit, "tool.denied")} :
                          audit' = Append(denied, "draft.generation_failed")
           \/ Live /\ Registered(call) /\ call.fits /\ Fail(session, "budget_exceeded")    \* CheckResponseSize
           \/ /\ Live /\ Registered(call) /\ call.fits
              /\ Session([session EXCEPT !.at = "tool", !.next = @ + 1, !.records = @ + 1])
              /\ Record("tool.allowed")

-----------------------------------------------------------------------------
(* Drafts.                                                                   *)

\* ComputeDraftHash: what the operator reviews, the status with it.
ComputeDraftHash(d) == [def |-> d.def, open |-> d.open, errors |-> d.errors,
                        records |-> d.records, status |-> d.status]

Hashed(d) == [d EXCEPT !.hash = ComputeDraftHash(d)]

(* The draft is given its ID, status and hash whatever the model wrote there,*)
(* and returned if the event can still be recorded.                          *)
Drafted ==
    /\ session.at = "draft"
    /\ IF ~Live
       THEN Fail(session, mapContextError(None))
       ELSE /\ Session([session EXCEPT !.at = "done",
                           !.draft = Hashed([def |-> @.def, open |-> @.open, errors |-> {},
                                             records |-> session.records, status |-> "generated",
                                             hash |-> None])])
            /\ Record("draft.generated")

\* The response reaches the operator: a draft, or an error.
Respond ==
    /\ session.at = "done"
    /\ \/ session.code # None /\ UNCHANGED tab
       \/ session.code = None /\ \E t \in Tab : tab' = [tab EXCEPT ![t] = session.draft]
    /\ session' = Idle
    /\ audit' = <<>>
    /\ UNCHANGED <<catalog, reviewed, confirmed>>

MaxWorkflowConcurrency == 32

\* validateInput: a parameter has a type, may be required, may be an enumeration.
validateInput(input, parameters) ==
    LET given == DOMAIN input \cap DOMAIN parameters
        Fits(n) == input[n].type = parameters[n].type
    IN  {"required_input_missing" : n \in {n \in DOMAIN parameters : parameters[n].required}
                                             \ DOMAIN input}
          \cup {"input_type_mismatch" : n \in {n \in given : ~Fits(n)}}
          \cup {"input_enum_mismatch" : n \in {n \in given :
                   Fits(n) /\ parameters[n].enum # {} /\ input[n].value \notin parameters[n].enum}}
          \cup {"unknown_input" : n \in DOMAIN input \ DOMAIN parameters}

Issue(code, is) == IF is THEN {code} ELSE {}

TaskIssues(task) ==
    IF task.action \notin DOMAIN catalog \/ ~catalog[task.action].agentAllowed
    THEN {"unknown_action"}
    ELSE LET template == catalog[task.action]
         IN  Issue("permission_missing", template.permission \notin TaskPermissions \cup {None})
               \cup Issue("timeout_limit_exceeded",
                          template.maxTimeout > 0 /\ task.timeout > template.maxTimeout)
               \cup validateInput(task.input, template.parameters)

\* DraftValidator.Validate: the codes of the errors of the report.
Validate(d) ==
    Issue("concurrency_limit_exceeded", \/ d.def.concurrency > MaxWorkflowConcurrency
                                        \/ d.def.concurrency > Len(d.def.tasks))
      \cup Issue("workflow_definition_invalid", d.def \notin Compiles)
      \cup (UNION {TaskIssues(d.def.tasks[i]) : i \in DOMAIN d.def.tasks})
      \cup Issue("question_unresolved", d.open)

\* The operator edits the draft: its definition, or the answers to its questions.
Edit(t) ==
    /\ tab[t] # None
    /\ \E def \in Definitions, open \in BOOLEAN :
          tab' = [tab EXCEPT ![t].def = def, ![t].open = open]
    /\ UNCHANGED <<session, audit, catalog, reviewed, confirmed>>

\* The draft is opened in another tab, or saved there.
CopyDraft(t, u) ==
    /\ tab[t] # None
    /\ tab' = [tab EXCEPT ![u] = tab[t]]
    /\ UNCHANGED <<session, audit, catalog, reviewed, confirmed>>

\* TransitionDraft, the questions of a confirmation apart.
Allowed(from, to) ==
    <<from, to>> \in {<<"generated", "validated">>, <<"validated", "validated">>,
                      <<"validated", "needs_confirmation">>,
                      <<"needs_confirmation", "validated">>, <<"needs_confirmation", "confirmed">>}

(* ValidateDraft: the report decides whether the draft waits for             *)
(* confirmation; a draft that is edited and validated again starts over.     *)
ValidateDraft(t) ==
    /\ tab[t] # None
    /\ Allowed(tab[t].status, "validated")
    /\ LET errors == Validate(tab[t])
           status == IF errors = {} THEN "needs_confirmation" ELSE "validated"
           answer == Hashed([tab[t] EXCEPT !.errors = errors, !.status = status])
       IN  /\ tab' = [tab EXCEPT ![t] = answer]
           /\ reviewed' = IF errors = {} THEN reviewed \cup {answer.hash} ELSE reviewed
    /\ UNCHANGED <<session, audit, catalog, confirmed>>

\* Faulty variant: the hash of the draft is believed, not computed again.
HashAgrees_Stored(d, expected) == expected # None /\ expected = d.hash

HashAgrees(d, expected) ==
    /\ expected # None
    /\ expected = d.hash
    /\ expected = ComputeDraftHash(d)

(* ConfirmDraft, with the hash the operator read in some tab.  The draft is  *)
(* validated again, by the catalogue of the release that runs now.           *)
ConfirmDraft(t, u) ==
    /\ tab[t] # None /\ tab[u] # None
    /\ Allowed(tab[t].status, "confirmed")
    /\ HashAgrees(tab[t], tab[u].hash)
    /\ ~tab[t].open
    /\ Validate(tab[t]) = {}
    /\ confirmed' = confirmed \cup {[draft |-> ComputeDraftHash(tab[t]), read |-> tab[u].hash]}
    /\ UNCHANGED <<session, audit, tab, catalog, reviewed>>

\* The control plane is replaced by another release; drafts stay with the client.
Release ==
    /\ \E t \in Tab : tab[t] # None
    /\ catalog' \in Catalogs \ {catalog}
    /\ UNCHANGED <<session, audit, tab, reviewed, confirmed>>

-----------------------------------------------------------------------------
Generation ==
    \/ Request \/ Begin \/ ContextDone \/ Turn \/ ModelFails \/ ModelAnswers \/ Answered \/ Checked
    \/ ToolDue \/ ToolReturns \/ Drafted \/ Respond

Review ==
    \/ \E t \in Tab : Edit(t) \/ ValidateDraft(t)
    \/ \E t, u \in Tab : CopyDraft(t, u) \/ ConfirmDraft(t, u)
    \/ Release

Next == Generation \/ Review

Spec == Init /\ [][Next]_vars

-----------------------------------------------------------------------------
(* Properties.                                                               *)

Count(trail, type) == Cardinality({i \in DOMAIN trail : trail[i] = type})
Events(type) == Count(audit, type)

(* The session stays within its limits whatever the model asks for: no more  *)
(* calls of the model, retries included, than turns and no more tool calls   *)
(* than allowed; a turn is used up without a call only by a session that     *)
(* ends there; and no tool is called out of an answer with an incomplete     *)
(* call or the same ID twice, not even before the bad call is reached        *)
(* (UseModelTurn, UseToolCall, validateToolCalls).                           *)
BudgetInv ==
    /\ TypeOK
    /\ session.calls <= session.turns /\ session.turns <= MaxModelTurns
    /\ session.records <= session.tools /\ session.tools <= MaxToolCalls
    /\ session.calls < session.turns => session.at = "done" /\ session.code # None
    /\ session.at = "invoking" =>
          /\ \A i \in DOMAIN session.batch : session.batch[i].complete
          /\ Cardinality({session.batch[i].id : i \in DOMAIN session.batch}) = Len(session.batch)

(* The audit trail of a session tells how it ended: the last event, and only *)
(* that one, closes it, as a success exactly when a draft was returned; and  *)
(* the draft lists as many tool calls as were recorded as allowed, even when *)
(* the request was canceled or the time was over (the deferred function of   *)
(* GenerateDraft, record).                                                   *)
AuditInv ==
    LET closing == {"draft.generated", "draft.generation_failed"}
    IN  /\ \A i \in DOMAIN audit : audit[i] \in closing => i = Len(audit)
        /\ session.at = "done" =>
              /\ audit # <<>>
              /\ Last(audit) = IF session.code = None THEN "draft.generated"
                                                      ELSE "draft.generation_failed"
        /\ session.at # "done" => \A i \in DOMAIN audit : audit[i] \notin closing
        /\ Events("model.completed") + Events("model.retry") <= session.turns
        /\ session.at = "done" /\ session.code = None =>
              session.draft.records = Events("tool.allowed")

(* Whatever is confirmed was shown to the operator by a validation, without  *)
(* errors and open questions, and is what the hash that was read stands for: *)
(* an edit after the review, in this tab or another, or a stale copy of the  *)
(* draft does not get through (ConfirmDraft).                                *)
ConfirmedReviewed ==
    \A c \in confirmed :
        /\ c.draft \in reviewed
        /\ c.read = c.draft
        /\ c.draft.errors = {} /\ ~c.draft.open
=============================================================================
