------------------------------ MODULE AgentProofs ------------------------------
(***************************************************************************)
(* Proofs about the drafts: the budget and the audit trail of a session    *)
(* (GenerationInv), then what a confirmation accepts (DraftsInv).          *)
(***************************************************************************)
EXTENDS Agent, FiniteSetTheorems, SequenceTheorems, TLAPS

Closing == {"draft.generated", "draft.generation_failed"}

\* The limits of a session, and the events of a session that goes on.
Limits(s) ==
    /\ s.calls <= s.turns /\ s.turns <= MaxModelTurns
    /\ s.records <= s.tools /\ s.tools <= MaxToolCalls

Trail(s, a) ==
    /\ a \in Seq(EventTypes)
    /\ \A type \in EventTypes : Count(a, type) \in Nat
    /\ Count(a, "model.completed") + Count(a, "model.retry") <= s.turns
    /\ Count(a, "tool.allowed") = s.records

Open(a) == \A i \in DOMAIN a : a[i] \notin Closing

(* A session before its end: no turn is lost, the turn of an answer that is  *)
(* still to be recorded is not in the trail yet, a tool call under way is not*)
(* in the draft yet, and the tools are called out of a checked batch.        *)
Going(s, a) ==
    /\ s \in Generating /\ s.at # "done"
    /\ Limits(s) /\ Trail(s, a) /\ Open(a)
    /\ s.code = None
    /\ s.calls = s.turns
    /\ s.at \in {"calling", "retrying", "answered"} =>
          Count(a, "model.completed") + Count(a, "model.retry") + 1 <= s.turns
    /\ s.at \in {"tool", "invoking"} => validateToolCalls(s.batch)
    /\ s.at = "invoking" => s.records < s.tools
    /\ s.draft \in Written \cup {None} /\ (s.at = "draft" => s.draft # None)

(* A session that ended, and how: what its last event says.                  *)
Ended(s, a) ==
    /\ s \in Generating /\ s.at = "done"
    /\ Limits(s) /\ Trail(s, a)
    /\ s.calls < s.turns => s.code # None
    /\ a # <<>> /\ \A i \in DOMAIN a : a[i] \in Closing => i = Len(a)
    /\ a[Len(a)] = IF s.code = None THEN "draft.generated" ELSE "draft.generation_failed"
    /\ s.code = None =>
          s.draft \in Draft /\ s.draft.records = s.records /\ s.draft.hash.status = "generated"

GenerationInv == Going(session, audit) \/ Ended(session, audit)

-----------------------------------------------------------------------------
(* The audit trail.                                                          *)

\* An event more is counted once, under its own type.
LEMMA CountAppend ==
    ASSUME NEW a \in Seq(EventTypes), NEW x \in EventTypes, NEW type
    PROVE  /\ Count(a, type) \in Nat
           /\ Count(Append(a, x), type) = IF x = type THEN Count(a, type) + 1 ELSE Count(a, type)
<1> DEFINE S == {i \in DOMAIN a : a[i] = type}
           T == {i \in DOMAIN Append(a, x) : Append(a, x)[i] = type}
<1>1. IsFiniteSet(DOMAIN a)
  BY FS_Interval, 0 \in Int, LenProperties
<1>2. IsFiniteSet(S) /\ Cardinality(S) \in Nat
  BY <1>1, FS_Subset, FS_CardinalityType
<1>a. DOMAIN a = 1 .. Len(a) /\ Len(a) \in Nat
  BY LenProperties
<1>b. /\ DOMAIN Append(a, x) = 1 .. (Len(a) + 1)
      /\ \A i \in 1 .. Len(a) : Append(a, x)[i] = a[i]
      /\ Append(a, x)[Len(a) + 1] = x
  BY AppendProperties, LenProperties
<1>3. Len(a) + 1 \notin S
  BY <1>a
<1>4. T = IF x = type THEN S \cup {Len(a) + 1} ELSE S
  BY <1>a, <1>b
<1>5. x = type => Cardinality(T) = Cardinality(S) + 1
  BY <1>2, <1>3, <1>4, FS_AddElement
<1> QED
  BY <1>2, <1>4, <1>5 DEF Count

\* The empty trail counts nothing.
LEMMA CountEmpty == \A type \in EventTypes : Count(<<>>, type) = 0
<1> SUFFICES ASSUME NEW type \in EventTypes PROVE Count(<<>>, type) = 0
  OBVIOUS
<1>1. {i \in DOMAIN <<>> : <<>>[i] = type} = {}
  OBVIOUS
<1> QED
  BY <1>1, FS_EmptySet DEF Count

\* Events that are not counted leave a trail as it is to the session.
LEMMA TrailAppend ==
    ASSUME NEW s, NEW a, NEW x \in EventTypes, Trail(s, a),
           x \notin {"model.completed", "model.retry", "tool.allowed"}
    PROVE  Trail(s, Append(a, x))
<1>1. a \in Seq(EventTypes) /\ Append(a, x) \in Seq(EventTypes)
  BY DEF Trail
<1>2. ASSUME NEW type \in EventTypes PROVE Count(Append(a, x), type) \in Nat
  <2>1. Count(a, type) \in Nat
    BY DEF Trail
  <2> QED
    BY <1>1, <2>1, CountAppend
<1>3. ASSUME NEW type, type # x PROVE Count(Append(a, x), type) = Count(a, type)
  BY <1>1, <1>3, CountAppend
<1> QED
  BY <1>1, <1>2, <1>3 DEF Trail

\* A trail stays open by an event that does not close it, and is closed by one that does.
LEMMA OpenAppend ==
    ASSUME NEW a \in Seq(EventTypes), NEW x \in EventTypes, Open(a)
    PROVE  /\ x \notin Closing => Open(Append(a, x))
           /\ Append(a, x) # <<>> /\ Append(a, x)[Len(Append(a, x))] = x
           /\ \A i \in DOMAIN Append(a, x) :
                 Append(a, x)[i] \in Closing => i = Len(Append(a, x))
<1>1. DOMAIN a = 1 .. Len(a) /\ Len(a) \in Nat
  BY LenProperties
<1>2. /\ DOMAIN Append(a, x) = 1 .. (Len(a) + 1) /\ Len(Append(a, x)) = Len(a) + 1
      /\ \A i \in 1 .. Len(a) : Append(a, x)[i] = a[i]
      /\ Append(a, x)[Len(a) + 1] = x
      /\ Append(a, x) # <<>>
  BY AppendProperties, LenProperties
<1> QED
  BY <1>1, <1>2 DEF Open

\* Every return with an error ends the session with its closing event.
LEMMA FailEnds ==
    ASSUME NEW s \in Generating, NEW a, NEW code \in ErrorCodes, Limits(s), Trail(s, a), Open(a)
    PROVE  Ended([s EXCEPT !.at = "done", !.code = code], Append(a, "draft.generation_failed"))
<1> DEFINE n == [s EXCEPT !.at = "done", !.code = code]
           b == Append(a, "draft.generation_failed")
<1>1. n \in Generating /\ n.at = "done" /\ n.code = code
  BY DEF Generating, At
<1>2. /\ n.calls = s.calls /\ n.turns = s.turns
      /\ n.tools = s.tools /\ n.records = s.records
  BY DEF Generating
<1>3. Limits(n)
  BY <1>2 DEF Limits
<1>4. Trail(s, b)
  BY TrailAppend DEF EventTypes
<1>5. Trail(n, b)
  BY <1>2, <1>4 DEF Trail
<1>6. code # None
  BY AgentAssumption
<1>7. /\ b # <<>> /\ b[Len(b)] = "draft.generation_failed"
      /\ \A i \in DOMAIN b : b[i] \in Closing => i = Len(b)
  BY OpenAppend DEF Trail, EventTypes
<1> HIDE DEF n, b
<1>8. Ended(n, b)
  BY <1>1, <1>3, <1>5, <1>6, <1>7 DEF Ended
<1> QED
  BY <1>8 DEF n, b

\* mapContextError gives one of the error codes once the context is done.
LEMMA ContextErrors ==
    ASSUME NEW code, session \in Generating, ~Live \/ code \in ErrorCodes
    PROVE  mapContextError(code) \in ErrorCodes
  BY DEF mapContextError, Live, Generating, ErrorCodes

\* What a session that goes on does to its limits and its trail when it fails.
LEMMA GoingFails ==
    ASSUME Going(session, audit), NEW code \in ErrorCodes, Fail(session, code)
    PROVE  GenerationInv'
<1>1. Ended([session EXCEPT !.at = "done", !.code = code],
            Append(audit, "draft.generation_failed"))
  BY FailEnds DEF Going
<1>2. /\ session' = [session EXCEPT !.at = "done", !.code = code]
      /\ audit' = Append(audit, "draft.generation_failed")
  BY DEF Fail, Session, Record
<1> QED
  BY <1>1, <1>2 DEF GenerationInv

\* Request, Begin and ContextDone: nothing is spent.
LEMMA RequestStep ==
    ASSUME Going(session, audit), Request PROVE GenerationInv'
<1> DEFINE s == [session EXCEPT !.at = "begin"]
<1>1. session' = s /\ audit' = audit /\ session \in Generating
  BY DEF Request, Session, Going
<1>2. /\ s.draft = session.draft
      /\ s \in Generating /\ s.at = "begin" /\ s.code = session.code /\ s.calls = session.calls
      /\ s.turns = session.turns /\ s.tools = session.tools /\ s.records = session.records
  BY <1>1 DEF Generating, At
<1> HIDE DEF s
<1> QED
  BY <1>1, <1>2 DEF Going, Limits, Trail, GenerationInv

\* Begin (the session record and the first turn) keeps the generation invariant.
LEMMA BeginStep ==
    ASSUME Going(session, audit), Begin PROVE GenerationInv'
<1> DEFINE s == [session EXCEPT !.at = "turn"]
<1>1. CASE ~Live
  <2>1. Fail(session, mapContextError(None))
    BY <1>1 DEF Begin
  <2>2. mapContextError(None) \in ErrorCodes
    BY <1>1, ContextErrors DEF Going
  <2> QED
    BY <2>1, <2>2, GoingFails
<1>2. CASE Live
  <2>1. /\ session' = s /\ audit' = Append(audit, "draft.generation_started")
        /\ session \in Generating
    BY <1>2 DEF Begin, Session, Record, Going
  <2>2. /\ s.draft = session.draft
        /\ s \in Generating /\ s.at = "turn" /\ s.code = session.code /\ s.calls = session.calls
        /\ s.turns = session.turns /\ s.tools = session.tools /\ s.records = session.records
    BY <2>1 DEF Generating, At
  <2>3. Trail(session, audit')
    BY <2>1, TrailAppend DEF EventTypes, Going
  <2>4. Open(audit')
    BY <2>1, OpenAppend DEF EventTypes, Going, Trail, Closing
  <2> HIDE DEF s
  <2> QED
    BY <2>1, <2>2, <2>3, <2>4 DEF Going, Limits, Trail, GenerationInv
<1> QED
  BY <1>1, <1>2

\* The end of the request or of the session time limit ends the generation with its event.
LEMMA ContextDoneStep ==
    ASSUME Going(session, audit), ContextDone PROVE GenerationInv'
<1>1. PICK why \in {"canceled", "deadline"} :
         session' = [session EXCEPT !.ctx = why] /\ audit' = audit
  BY DEF ContextDone, Session
<1> DEFINE s == [session EXCEPT !.ctx = why]
<1>2. session' = s /\ session \in Generating
  BY <1>1 DEF Going
<1>3. /\ s \in Generating /\ s.at = session.at /\ s.code = session.code
      /\ s.calls = session.calls /\ s.turns = session.turns /\ s.tools = session.tools
      /\ s.records = session.records /\ s.batch = session.batch /\ s.draft = session.draft
  BY <1>2 DEF Generating
<1> HIDE DEF s
<1> QED
  BY <1>1, <1>2, <1>3 DEF Going, Limits, Trail, GenerationInv

\* The head of the loop spends a turn on the call it begins.
LEMMA TurnStep ==
    ASSUME Going(session, audit), Turn PROVE GenerationInv'
<1> DEFINE s == [session EXCEPT !.at = "calling", !.turns = @ + 1, !.calls = @ + 1]
<1>1. session \in Generating /\ MaxModelTurns \in Nat
  BY AgentAssumption DEF Going
<1>2. CASE ~Live
  <2>1. Fail(session, mapContextError(None)) /\ mapContextError(None) \in ErrorCodes
    BY <1>1, <1>2, ContextErrors DEF Turn
  <2> QED
    BY <2>1, GoingFails
<1>3. CASE Live /\ UseModelTurn(session)
  <2>1. Fail(session, "budget_exceeded") /\ "budget_exceeded" \in ErrorCodes
    BY <1>3 DEF Turn, ErrorCodes
  <2> QED
    BY <2>1, GoingFails
<1>4. CASE Live /\ ~UseModelTurn(session)
  <2>1. session' = s /\ audit' = audit
    BY <1>4 DEF Turn, Session
  <2>2. /\ s.draft = session.draft
        /\ s \in Generating /\ s.at = "calling" /\ s.code = session.code
        /\ s.calls = session.calls + 1 /\ s.turns = session.turns + 1
        /\ s.tools = session.tools /\ s.records = session.records
    <3>1. PICK m \in Nat, n \in Nat : m = session.turns + 1 /\ n = session.calls + 1
      BY <1>1 DEF Generating
    <3>2. s = [session EXCEPT !.at = "calling", !.turns = m, !.calls = n]
      BY <3>1
    <3> HIDE DEF s
    <3> QED
      BY <1>1, <3>1, <3>2 DEF Generating, At
  <2>3. session.turns \in Nat /\ session.calls = session.turns /\ session.turns < MaxModelTurns
    BY <1>1, <1>4 DEF UseModelTurn, Generating, Going
  <2> HIDE DEF s
  <2>4. Limits(s)
    BY <1>1, <2>2, <2>3 DEF Limits, Going
  <2>5. /\ Count(audit, "model.completed") \in Nat /\ Count(audit, "model.retry") \in Nat
        /\ Count(audit, "model.completed") + Count(audit, "model.retry") <= session.turns
    BY DEF Going, Trail, EventTypes
  <2>6. Trail(s, audit) /\ Count(audit, "model.completed") + Count(audit, "model.retry") + 1 <= s.turns
    BY <2>2, <2>3, <2>5 DEF Going, Trail
  <2> QED
    BY <2>1, <2>2, <2>4, <2>6 DEF Going, GenerationInv
<1> QED
  BY <1>2, <1>3, <1>4


\* A temporary failure costs a turn, whether the model is called again or not.
LEMMA RetryStep ==
    ASSUME Going(session, audit), session.at = "calling", Retry PROVE GenerationInv'
<1> DEFINE t == [session EXCEPT !.turns = @ + 1]
           s == [t EXCEPT !.at = "retrying", !.calls = @ + 1]
<1>1. session \in Generating /\ MaxModelTurns \in Nat
  BY AgentAssumption DEF Going
<1>2. CASE UseModelTurn(session)
  <2>1. Fail(session, "budget_exceeded") /\ "budget_exceeded" \in ErrorCodes
    BY <1>2 DEF Retry, ErrorCodes
  <2> QED
    BY <2>1, GoingFails
<1>3. CASE ~UseModelTurn(session)
  <2>1. /\ t.draft = session.draft
        /\ t \in Generating /\ t.at = session.at /\ t.code = session.code
        /\ t.calls = session.calls /\ t.turns = session.turns + 1
        /\ t.tools = session.tools /\ t.records = session.records
    BY <1>1 DEF Generating
  <2>2. session.turns \in Nat /\ session.calls = session.turns /\ session.turns < MaxModelTurns
    BY <1>1, <1>3 DEF UseModelTurn, Generating, Going
  <2>3. /\ Count(audit, "model.completed") \in Nat /\ Count(audit, "model.retry") \in Nat
        /\ Count(audit, "model.completed") + Count(audit, "model.retry") + 1 <= session.turns
    BY DEF Going, Trail, EventTypes
  <2> HIDE DEF t
  <2>4. Limits(t)
    BY <1>1, <2>1, <2>2 DEF Limits, Going
  <2>5. Trail(t, audit) /\ Open(audit)
    BY <2>1, <2>2, <2>3 DEF Going, Trail
  <2>6. CASE ~Live
    <3>1. Fail(t, mapContextError(None)) /\ mapContextError(None) \in ErrorCodes
      BY <1>1, <1>3, <2>6, ContextErrors DEF Retry, t
    <3>2. /\ session' = [t EXCEPT !.at = "done", !.code = mapContextError(None)]
          /\ audit' = Append(audit, "draft.generation_failed")
      BY <3>1 DEF Fail, Session, Record
    <3> QED
      BY <2>1, <2>4, <2>5, <3>1, <3>2, FailEnds DEF GenerationInv
  <2>7. CASE Live
    <3>1. session' = s /\ audit' = Append(audit, "model.retry")
      BY <1>3, <2>7 DEF Retry, Session, Record, t
    <3>2. /\ s.draft = t.draft
          /\ s \in Generating /\ s.at = "retrying" /\ s.code = t.code
          /\ s.calls = t.calls + 1 /\ s.turns = t.turns
          /\ s.tools = t.tools /\ s.records = t.records
      <4>1. PICK n \in Nat : n = t.calls + 1
        BY <2>1 DEF Generating
      <4>2. s = [t EXCEPT !.at = "retrying", !.calls = n]
        BY <4>1
      <4> HIDE DEF s
      <4> QED
        BY <2>1, <4>1, <4>2 DEF Generating, At
    <3>3. audit \in Seq(EventTypes) /\ "model.retry" \in EventTypes
      BY DEF Going, Trail, EventTypes
    <3>4. /\ Count(audit', "model.completed") = Count(audit, "model.completed")
          /\ Count(audit', "model.retry") = Count(audit, "model.retry") + 1
          /\ Count(audit', "tool.allowed") = Count(audit, "tool.allowed")
          /\ audit' \in Seq(EventTypes)
          /\ \A type \in EventTypes : Count(audit', type) \in Nat
      BY <3>1, <3>3, CountAppend, AppendProperties
    <3>5. Open(audit')
      BY <3>1, <3>3, OpenAppend DEF Going, Closing
    <3> HIDE DEF s
    <3>6. Limits(s)
      BY <1>1, <2>1, <2>2, <2>4, <3>2 DEF Limits
    <3>7. Count(audit', "model.completed") + Count(audit', "model.retry") + 1 <= s.turns
      BY <2>1, <2>2, <2>3, <3>2, <3>4
    <3>8. Trail(s, audit')
      BY <2>1, <2>2, <2>3, <3>2, <3>4 DEF Going, Trail
    <3> QED
      BY <2>1, <2>2, <3>1, <3>2, <3>5, <3>6, <3>7, <3>8 DEF Going, GenerationInv
  <2> QED
    BY <2>6, <2>7
<1> QED
  BY <1>2, <1>3

\* A failed model call ends the generation with the event of its error.
LEMMA ModelFailsStep ==
    ASSUME Going(session, audit), ModelFails PROVE GenerationInv'
<1>1. PICK e \in ModelErrors :
         IF e.temporary /\ session.at = "calling" THEN Retry
         ELSE Fail(session, mapContextError(e.code))
  BY DEF ModelFails
<1>2. CASE e.temporary /\ session.at = "calling"
  BY <1>1, <1>2, RetryStep
<1>3. CASE ~(e.temporary /\ session.at = "calling")
  <2>1. e.code \in ErrorCodes
    BY DEF ModelErrors, ErrorCodes
  <2>2. Fail(session, mapContextError(e.code)) /\ mapContextError(e.code) \in ErrorCodes
    BY <1>1, <1>3, <2>1, ContextErrors DEF Going
  <2> QED
    BY <2>2, GoingFails
<1> QED
  BY <1>2, <1>3

\* An answer is still to be checked and recorded.
LEMMA ModelAnswersStep ==
    ASSUME Going(session, audit), ModelAnswers PROVE GenerationInv'
<1>1. PICK b \in Batches, d \in Written \cup {None} :
         session' = [session EXCEPT !.at = "answered", !.batch = b, !.next = 1, !.draft = d]
  BY DEF ModelAnswers, Session
<1> DEFINE s == [session EXCEPT !.at = "answered", !.batch = b, !.next = 1, !.draft = d]
<1>2. /\ session' = s /\ audit' = audit /\ session \in Generating
      /\ session.at \in {"calling", "retrying"}
  BY <1>1 DEF ModelAnswers, Going
<1>3. /\ s.draft = d
      /\ s \in Generating /\ s.at = "answered" /\ s.code = session.code
      /\ s.calls = session.calls /\ s.turns = session.turns /\ s.tools = session.tools
      /\ s.records = session.records
  BY <1>2 DEF Generating, At
<1> HIDE DEF s
<1> QED
  BY <1>2, <1>3 DEF Going, Limits, Trail, GenerationInv

\* The answer is recorded: the turn it took is in the trail from here on.
LEMMA AnsweredStep ==
    ASSUME Going(session, audit), Answered PROVE GenerationInv'
<1> DEFINE s == [session EXCEPT !.at = "checking"]
<1>1. CASE ~Live
  <2>1. Fail(session, mapContextError(None)) /\ mapContextError(None) \in ErrorCodes
    BY <1>1, ContextErrors DEF Answered, Going
  <2> QED
    BY <2>1, GoingFails
<1>2. CASE Fail(session, "budget_exceeded")
  BY <1>2, GoingFails DEF ErrorCodes
<1>3. CASE Session(s) /\ Record("model.completed")
  <2>1. /\ session' = s /\ audit' = Append(audit, "model.completed")
        /\ session \in Generating /\ session.at = "answered"
    BY <1>3 DEF Session, Record, Going, Answered
  <2>2. /\ s.draft = session.draft
        /\ s \in Generating /\ s.at = "checking" /\ s.code = session.code
        /\ s.calls = session.calls /\ s.turns = session.turns
        /\ s.tools = session.tools /\ s.records = session.records
    BY <2>1 DEF Generating, At
  <2>3. /\ Count(audit, "model.completed") \in Nat /\ Count(audit, "model.retry") \in Nat
        /\ Count(audit, "model.completed") + Count(audit, "model.retry") + 1 <= session.turns
        /\ session.turns \in Nat
    BY <2>1 DEF Going, Trail, EventTypes, Generating
  <2>4. audit \in Seq(EventTypes) /\ "model.completed" \in EventTypes
    BY DEF Going, Trail, EventTypes
  <2>5. /\ Count(audit', "model.completed") = Count(audit, "model.completed") + 1
        /\ Count(audit', "model.retry") = Count(audit, "model.retry")
        /\ Count(audit', "tool.allowed") = Count(audit, "tool.allowed")
        /\ audit' \in Seq(EventTypes)
        /\ \A type \in EventTypes : Count(audit', type) \in Nat
    BY <2>1, <2>4, CountAppend, AppendProperties
  <2>6. Open(audit')
    BY <2>1, <2>4, OpenAppend DEF Going, Closing
  <2> HIDE DEF s
  <2>7. Trail(s, audit')
    BY <2>2, <2>3, <2>5 DEF Going, Trail
  <2> QED
    BY <2>1, <2>2, <2>6, <2>7 DEF Going, Limits, GenerationInv
<1> QED
  BY <1>1, <1>2, <1>3 DEF Answered


\* The batch of an answer is checked before its first call, its draft before it is kept.
LEMMA CheckedStep ==
    ASSUME Going(session, audit), Checked PROVE GenerationInv'
<1>1. CASE Fail(session, "model_invalid_response")
  BY <1>1, GoingFails DEF ErrorCodes
<1>2. ASSUME NEW at \in {"tool", "draft"}, Session([session EXCEPT !.at = at]), audit' = audit,
             at = "tool" => validateToolCalls(session.batch),
             at = "draft" => session.draft # None
      PROVE  GenerationInv'
  <2> DEFINE s == [session EXCEPT !.at = at]
  <2>1. session' = s /\ session \in Generating
    BY <1>2 DEF Session, Going
  <2>2. /\ s \in Generating /\ s.at = at /\ s.code = session.code /\ s.calls = session.calls
        /\ s.turns = session.turns /\ s.tools = session.tools /\ s.records = session.records
        /\ s.batch = session.batch /\ s.draft = session.draft
    BY <2>1 DEF Generating, At
  <2> HIDE DEF s
  <2> QED
    BY <1>2, <2>1, <2>2 DEF Going, Limits, Trail, GenerationInv
<1> QED
  BY <1>1, <1>2 DEF Checked

\* A tool call is paid for before it is made.
LEMMA ToolDueStep ==
    ASSUME Going(session, audit), ToolDue PROVE GenerationInv'
<1>1. /\ session \in Generating /\ session.at = "tool" /\ MaxToolCalls \in Nat
      /\ validateToolCalls(session.batch)
  BY AgentAssumption DEF Going, ToolDue
<1>2. CASE session.next > Len(session.batch)
  <2> DEFINE s == [session EXCEPT !.at = "turn", !.batch = <<>>, !.next = 1, !.draft = None]
  <2>1. session' = s /\ audit' = audit
    BY <1>2 DEF ToolDue, Session
  <2>2. /\ s.draft = None
        /\ s \in Generating /\ s.at = "turn" /\ s.code = session.code
        /\ s.calls = session.calls /\ s.turns = session.turns
        /\ s.tools = session.tools /\ s.records = session.records
    BY <1>1, AgentAssumption DEF Generating, At
  <2> HIDE DEF s
  <2> QED
    BY <2>1, <2>2 DEF Going, Limits, Trail, GenerationInv
<1>3. CASE ~(session.next > Len(session.batch)) /\ ~Live
  <2>1. Fail(session, mapContextError(None)) /\ mapContextError(None) \in ErrorCodes
    BY <1>1, <1>3, ContextErrors DEF ToolDue
  <2> QED
    BY <2>1, GoingFails
<1>4. CASE ~(session.next > Len(session.batch)) /\ Live /\ UseToolCall(session)
  <2>1. Fail(session, "budget_exceeded")
    BY <1>4 DEF ToolDue
  <2> QED
    BY <2>1, GoingFails DEF ErrorCodes
<1>5. CASE ~(session.next > Len(session.batch)) /\ Live /\ ~UseToolCall(session)
  <2> DEFINE s == [session EXCEPT !.at = "invoking", !.tools = @ + 1]
  <2>1. session' = s /\ audit' = audit
    BY <1>5 DEF ToolDue, Session
  <2>2. /\ s.draft = session.draft
        /\ s \in Generating /\ s.at = "invoking" /\ s.code = session.code
        /\ s.calls = session.calls /\ s.turns = session.turns
        /\ s.tools = session.tools + 1 /\ s.records = session.records
        /\ s.batch = session.batch
    <3>1. PICK n \in Nat : n = session.tools + 1
      BY <1>1 DEF Generating
    <3>2. s = [session EXCEPT !.at = "invoking", !.tools = n]
      BY <3>1
    <3> HIDE DEF s
    <3> QED
      BY <1>1, <3>1, <3>2 DEF Generating, At
  <2>3. /\ session.tools \in Nat /\ session.records \in Nat
        /\ session.tools < MaxToolCalls /\ session.records <= session.tools
    BY <1>1, <1>5 DEF UseToolCall, Generating, Going, Limits
  <2> HIDE DEF s
  <2>4. Limits(s) /\ s.records < s.tools
    BY <1>1, <2>2, <2>3 DEF Limits, Going
  <2>5. Trail(s, audit)
    BY <2>2 DEF Trail, Going
  <2> QED
    BY <1>1, <2>1, <2>2, <2>4, <2>5 DEF Going, GenerationInv
<1> QED
  BY <1>2, <1>3, <1>4, <1>5

\* A call that is allowed is kept for the draft and recorded; any other ends the session.
LEMMA ToolReturnsStep ==
    ASSUME Going(session, audit), ToolReturns PROVE GenerationInv'
<1> DEFINE call == session.batch[session.next]
           s == [session EXCEPT !.at = "tool", !.next = @ + 1, !.records = @ + 1]
<1>1. /\ session \in Generating /\ session.at = "invoking"
      /\ validateToolCalls(session.batch) /\ session.records < session.tools
  BY DEF Going, ToolReturns
<1>2. CASE ~Live /\ Fail(session, mapContextError(None))
  BY <1>1, <1>2, ContextErrors, GoingFails
<1>3. CASE Fail(session, "budget_exceeded")
  BY <1>3, GoingFails DEF ErrorCodes
<1>4. ASSUME NEW code \in ToolErrors(call), Session([session EXCEPT !.at = "done", !.code = code]),
             NEW denied \in {audit, Append(audit, "tool.denied")},
             audit' = Append(denied, "draft.generation_failed")
      PROVE  GenerationInv'
  <2>1. code \in ErrorCodes
    BY <1>4 DEF ToolErrors, ErrorCodes
  <2>2. Trail(session, denied)
    BY <1>4, TrailAppend DEF EventTypes, Going
  <2>3. Open(denied)
    BY <1>4, OpenAppend DEF EventTypes, Going, Trail, Closing
  <2>4. Ended([session EXCEPT !.at = "done", !.code = code], audit')
    BY <1>1, <1>4, <2>1, <2>2, <2>3, FailEnds DEF Going
  <2> QED
    BY <1>4, <2>4 DEF Session, GenerationInv
<1>5. CASE Session(s) /\ Record("tool.allowed")
  <2>1. session' = s /\ audit' = Append(audit, "tool.allowed")
    BY <1>5 DEF Session, Record
  <2>2. /\ s.draft = session.draft
        /\ s \in Generating /\ s.at = "tool" /\ s.code = session.code
        /\ s.calls = session.calls /\ s.turns = session.turns
        /\ s.tools = session.tools /\ s.records = session.records + 1
        /\ s.batch = session.batch
    <3>1. PICK m \in Nat, n \in Nat : m = session.next + 1 /\ n = session.records + 1
      BY <1>1 DEF Generating
    <3>2. s = [session EXCEPT !.at = "tool", !.next = m, !.records = n]
      BY <3>1
    <3> HIDE DEF s
    <3> QED
      BY <1>1, <3>1, <3>2 DEF Generating, At
  <2>3. audit \in Seq(EventTypes) /\ "tool.allowed" \in EventTypes
    BY DEF Going, Trail, EventTypes
  <2>4. /\ Count(audit', "model.completed") = Count(audit, "model.completed")
        /\ Count(audit', "model.retry") = Count(audit, "model.retry")
        /\ Count(audit', "tool.allowed") = Count(audit, "tool.allowed") + 1
        /\ audit' \in Seq(EventTypes)
        /\ \A type \in EventTypes : Count(audit', type) \in Nat
    BY <2>1, <2>3, CountAppend, AppendProperties
  <2>5. Open(audit')
    BY <2>1, <2>3, OpenAppend DEF Going, Closing
  <2>6. session.records \in Nat /\ session.tools \in Nat
    BY <1>1 DEF Generating
  <2> HIDE DEF s
  <2>7. Limits(s)
    BY <1>1, <2>2, <2>6 DEF Limits, Going
  <2>8. Trail(s, audit')
    BY <2>2, <2>4 DEF Going, Trail
  <2> QED
    BY <1>1, <2>1, <2>2, <2>5, <2>7, <2>8 DEF Going, GenerationInv
<1> QED
  BY <1>2, <1>3, <1>4, <1>5 DEF ToolReturns

\* The draft is given the records of the session, and its event closes the trail.
LEMMA DraftedStep ==
    ASSUME Going(session, audit), Drafted PROVE GenerationInv'
<1>1. session \in Generating /\ session.draft \in Written /\ session.code = None
  BY DEF Going, Drafted
<1>2. CASE ~Live
  <2>1. Fail(session, mapContextError(None)) /\ mapContextError(None) \in ErrorCodes
    BY <1>1, <1>2, ContextErrors DEF Drafted
  <2> QED
    BY <2>1, GoingFails
<1>3. CASE Live
  <2> DEFINE bare == [def |-> session.draft.def, open |-> session.draft.open, errors |-> {},
                      records |-> session.records, status |-> "generated", hash |-> None]
             s == [session EXCEPT !.at = "done", !.draft = Hashed(bare)]
  <2>1. session' = s /\ audit' = Append(audit, "draft.generated")
    BY <1>3 DEF Drafted, Session, Record
  <2>2. bare \in Draft /\ bare.records = session.records /\ bare.status = "generated"
    BY <1>1 DEF Draft, Written, Generating, DraftStatus
  <2> HIDE DEF bare
  <2>3. /\ Hashed(bare) \in Draft /\ Hashed(bare).records = session.records
        /\ Hashed(bare).hash.status = "generated"
    BY <2>2 DEF Hashed, ComputeDraftHash, Draft, Content
  <2>4. /\ s \in Generating /\ s.at = "done" /\ s.code = None /\ s.calls = session.calls
        /\ s.turns = session.turns /\ s.tools = session.tools /\ s.records = session.records
        /\ s.draft = Hashed(bare)
    BY <1>1, <2>3 DEF Generating, At
  <2>5. Trail(session, audit')
    BY <2>1, TrailAppend DEF EventTypes, Going
  <2>6. /\ audit' # <<>> /\ audit'[Len(audit')] = "draft.generated"
        /\ \A i \in DOMAIN audit' : audit'[i] \in Closing => i = Len(audit')
    BY <2>1, OpenAppend DEF EventTypes, Going, Trail
  <2> HIDE DEF s
  <2>7. Limits(s) /\ Trail(s, audit') /\ ~(s.calls < s.turns)
    BY <1>1, <2>4, <2>5 DEF Limits, Trail, Going, Generating
  <2> QED
    BY <2>1, <2>3, <2>4, <2>6, <2>7 DEF Ended, GenerationInv
<1> QED
  BY <1>2, <1>3

\* The session of the next request starts over.
LEMMA IdleGoes == Going(Idle, <<>>)
<1>1. /\ Idle.draft = None
      /\ Idle \in Generating /\ Idle.at = "idle" /\ Idle.code = None /\ Idle.calls = 0
      /\ Idle.turns = 0 /\ Idle.tools = 0 /\ Idle.records = 0
  BY AgentAssumption DEF Idle, Generating, At
<1>2. Limits(Idle)
  BY <1>1, AgentAssumption DEF Limits
<1>3. Trail(Idle, <<>>)
  BY <1>1, CountEmpty DEF Trail, EventTypes
<1> QED
  BY <1>1, <1>2, <1>3 DEF Going, Open


\* GenerationInv is inductive.
LEMMA GenerationInit == Init => GenerationInv
  BY IdleGoes DEF Init, GenerationInv

\* Every step keeps the generation invariant.
LEMMA GenerationStep ==
    ASSUME GenerationInv, [Next]_vars PROVE GenerationInv'
<1>1. CASE UNCHANGED <<session, audit>>
  BY <1>1 DEF GenerationInv
<1>2. CASE Respond
  BY <1>2, IdleGoes DEF Respond, GenerationInv
<1>3. CASE Generation /\ ~Respond
  <2>1. session.at # "done"
    BY <1>3 DEF Generation, Request, Begin, ContextDone, Turn, ModelFails, ModelAnswers, Answered,
                Checked, ToolDue, ToolReturns, Drafted
  <2>2. Going(session, audit)
    BY <2>1 DEF GenerationInv, Ended
  <2> QED
    BY <1>3, <2>2, RequestStep, BeginStep, ContextDoneStep, TurnStep, ModelFailsStep,
       ModelAnswersStep, AnsweredStep, CheckedStep, ToolDueStep, ToolReturnsStep, DraftedStep
       DEF Generation
<1>4. CASE Review
  BY <1>1, <1>4 DEF Review, Edit, ValidateDraft, CopyDraft, ConfirmDraft, Release
<1> QED
  BY <1>1, <1>2, <1>3, <1>4 DEF Next, vars

-----------------------------------------------------------------------------
(* Drafts.                                                                   *)

(* A hash with the status that asks for a confirmation was given by a        *)
(* validation that found no errors, in whatever tab it is now and whatever   *)
(* was edited around it.                                                     *)
DraftsInv ==
    /\ tab \in [Tab -> Draft \cup {None}]
    /\ catalog \in Catalogs
    /\ reviewed \subseteq Content /\ \A h \in reviewed : h.errors = {}
    /\ \A t \in Tab : /\ tab[t] # None
                      /\ tab[t].hash # None
                      /\ tab[t].hash.status = "needs_confirmation"
                      => tab[t].hash \in reviewed
    /\ confirmed \subseteq [draft : Content, read : Content]
    /\ ConfirmedReviewed

\* The report of a validation holds codes of issues only.
LEMMA ValidateType ==
    ASSUME NEW d PROVE Validate(d) \subseteq IssueCodes
<1>1. \A input, parameters : validateInput(input, parameters) \subseteq IssueCodes
  BY DEF validateInput, IssueCodes
<1>2. \A task : TaskIssues(task) \subseteq IssueCodes
  BY <1>1 DEF TaskIssues, Issue, IssueCodes
<1> DEFINE concurrency == Issue("concurrency_limit_exceeded",
                               \/ d.def.concurrency > MaxWorkflowConcurrency
                               \/ d.def.concurrency > Len(d.def.tasks))
           definition == Issue("workflow_definition_invalid", d.def \notin Compiles)
           tasks == UNION {TaskIssues(d.def.tasks[i]) : i \in DOMAIN d.def.tasks}
           questions == Issue("question_unresolved", d.open)
<1>3. tasks \subseteq IssueCodes
  BY <1>2
<1>4. /\ concurrency \subseteq IssueCodes /\ definition \subseteq IssueCodes
      /\ questions \subseteq IssueCodes
  <2>1. \A code \in IssueCodes : \A is : Issue(code, is) \subseteq IssueCodes
    BY Zenon DEF Issue
  <2> QED
    BY <2>1, Zenon DEF IssueCodes
<1>5. Validate(d) = concurrency \cup definition \cup tasks \cup questions
  BY Zenon DEF Validate
<1> HIDE DEF concurrency, definition, tasks, questions
<1> QED
  BY <1>3, <1>4, <1>5

\* The hash of a draft is of what the operator reviews.
LEMMA HashType ==
    ASSUME NEW d \in Draft
    PROVE  /\ ComputeDraftHash(d) \in Content
           /\ ComputeDraftHash(d).status = d.status /\ ComputeDraftHash(d).errors = d.errors
           /\ ComputeDraftHash(d).open = d.open
           /\ Hashed(d) \in Draft /\ Hashed(d).hash = ComputeDraftHash(d)
  BY DEF Hashed, ComputeDraftHash, Draft, Content

\* No draft exists at first.
LEMMA DraftsInit == Init => DraftsInv
  BY DEF Init, DraftsInv, ConfirmedReviewed

\* One tab gets a draft whose hash does not ask for a confirmation, or is a reviewed one.
LEMMA TabStep ==
    ASSUME DraftsInv, NEW t \in Tab, NEW d \in Draft, tab' = [tab EXCEPT ![t] = d],
           catalog' = catalog, confirmed' = confirmed,
           NEW new \in SUBSET Content, reviewed' = reviewed \cup new,
           \A h \in new : h.errors = {},
           d.hash # None /\ d.hash.status = "needs_confirmation" => d.hash \in reviewed'
    PROVE  DraftsInv'
<1>1. tab' \in [Tab -> Draft \cup {None}]
  BY DEF DraftsInv
<1>2. reviewed' \subseteq Content /\ \A h \in reviewed' : h.errors = {}
  BY DEF DraftsInv
<1>3. ASSUME NEW u \in Tab, tab'[u] # None, tab'[u].hash # None,
             tab'[u].hash.status = "needs_confirmation"
      PROVE  tab'[u].hash \in reviewed'
  BY <1>3 DEF DraftsInv
<1>4. ConfirmedReviewed'
  BY DEF DraftsInv, ConfirmedReviewed
<1> QED
  BY <1>1, <1>2, <1>3, <1>4 DEF DraftsInv

\* Edit changes what is reviewed, never the hash.
LEMMA EditStep ==
    ASSUME DraftsInv, NEW t \in Tab, Edit(t) PROVE DraftsInv'
<1>1. PICK def \in Definitions, open \in BOOLEAN :
         tab' = [tab EXCEPT ![t].def = def, ![t].open = open]
  BY DEF Edit
<1> DEFINE d == [tab[t] EXCEPT !.def = def, !.open = open]
<1>2. tab[t] \in Draft /\ tab[t] # None
  BY DEF Edit, DraftsInv
<1>3. tab' = [tab EXCEPT ![t] = d]
  BY <1>1 DEF DraftsInv
<1>4. d \in Draft /\ d.hash = tab[t].hash
  BY <1>2 DEF Draft
<1> HIDE DEF d
<1>5. catalog' = catalog /\ confirmed' = confirmed /\ reviewed' = reviewed \cup {}
  BY DEF Edit
<1>6. d.hash # None /\ d.hash.status = "needs_confirmation" => d.hash \in reviewed'
  BY <1>2, <1>4, <1>5 DEF DraftsInv
<1>7. {} \in SUBSET Content /\ \A h \in {} : h.errors = {}
  OBVIOUS
<1> QED
  BY <1>3, <1>4, <1>5, <1>6, <1>7, TabStep

\* A copied draft was reviewed exactly if the one it is copied from was.
LEMMA CopyDraftStep ==
    ASSUME DraftsInv, NEW t \in Tab, NEW u \in Tab, CopyDraft(t, u) PROVE DraftsInv'
<1>1. tab[t] \in Draft /\ tab[t] # None
  BY DEF CopyDraft, DraftsInv
<1>2. /\ tab' = [tab EXCEPT ![u] = tab[t]]
      /\ catalog' = catalog /\ confirmed' = confirmed /\ reviewed' = reviewed \cup {}
  BY DEF CopyDraft
<1>3. tab[t].hash # None /\ tab[t].hash.status = "needs_confirmation" => tab[t].hash \in reviewed'
  BY <1>1, <1>2 DEF DraftsInv
<1>4. {} \in SUBSET Content /\ \A h \in {} : h.errors = {}
  OBVIOUS
<1> QED
  BY <1>1, <1>2, <1>3, <1>4, TabStep

\* ValidateDraft gives the hash that asks for a confirmation to a draft without errors only.
LEMMA ValidateDraftStep ==
    ASSUME DraftsInv, NEW t \in Tab, ValidateDraft(t) PROVE DraftsInv'
<1> DEFINE errors == Validate(tab[t])
           status == IF errors = {} THEN "needs_confirmation" ELSE "validated"
           d == [tab[t] EXCEPT !.errors = errors, !.status = status]
           new == IF errors = {} THEN {Hashed(d).hash} ELSE {}
<1>1. tab[t] \in Draft /\ errors \subseteq IssueCodes /\ status \in DraftStatus
  BY ValidateType DEF ValidateDraft, DraftsInv, DraftStatus
<1>2. /\ tab' = [tab EXCEPT ![t] = Hashed(d)]
      /\ reviewed' = reviewed \cup new
      /\ catalog' = catalog /\ confirmed' = confirmed
  BY DEF ValidateDraft
<1>3. status = "needs_confirmation" => errors = {}
  OBVIOUS
<1> HIDE DEF errors, status
<1>4. d \in Draft /\ d.errors = errors /\ d.status = status
  BY <1>1 DEF Draft
<1> HIDE DEF d
<1>5. /\ Hashed(d) \in Draft /\ Hashed(d).hash \in Content
      /\ Hashed(d).hash.errors = errors /\ Hashed(d).hash.status = status
  BY <1>4, HashType
<1>6. new \subseteq Content /\ \A h \in new : h.errors = {}
  BY <1>5
<1>7. Hashed(d).hash.status = "needs_confirmation" => Hashed(d).hash \in reviewed'
  BY <1>2, <1>3, <1>5
<1> QED
  BY <1>2, <1>5, <1>6, <1>7, TabStep

\* The hash ConfirmDraft computes again is the one a validation gave.
LEMMA ConfirmDraftStep ==
    ASSUME DraftsInv, NEW t \in Tab, NEW u \in Tab, ConfirmDraft(t, u) PROVE DraftsInv'
<1> DEFINE h == ComputeDraftHash(tab[t])
<1>1. tab[t] \in Draft /\ tab[t] # None /\ tab[t].status = "needs_confirmation" /\ ~tab[t].open
  BY DEF ConfirmDraft, DraftsInv, Allowed
<1>2. tab[u].hash = h /\ tab[t].hash = h /\ tab[t].hash # None
  BY DEF ConfirmDraft, HashAgrees
<1>3. confirmed' = confirmed \cup {[draft |-> h, read |-> h]} /\ UNCHANGED <<tab, catalog, reviewed>>
  BY <1>2 DEF ConfirmDraft
<1>4. h \in Content /\ h.status = "needs_confirmation" /\ ~h.open
  BY <1>1, HashType
<1> HIDE DEF h
<1>5. h \in reviewed /\ h.errors = {}
  BY <1>1, <1>2, <1>4 DEF DraftsInv
<1>6. confirmed' \subseteq [draft : Content, read : Content]
  BY <1>3, <1>4 DEF DraftsInv
<1>7. ConfirmedReviewed'
  BY <1>3, <1>4, <1>5 DEF DraftsInv, ConfirmedReviewed
<1> QED
  BY <1>3, <1>6, <1>7 DEF DraftsInv

\* A response puts a generated draft into a tab, or nothing.
LEMMA RespondStep ==
    ASSUME DraftsInv, GenerationInv, Respond PROVE DraftsInv'
<1>1. CASE UNCHANGED tab
  BY <1>1 DEF Respond, DraftsInv, ConfirmedReviewed
<1>2. ASSUME session.code = None, NEW t \in Tab, tab' = [tab EXCEPT ![t] = session.draft]
      PROVE  DraftsInv'
  <2>1. session.draft \in Draft /\ session.draft.hash.status = "generated"
    BY <1>2 DEF Respond, GenerationInv, Going, Ended
  <2>2. catalog' = catalog /\ confirmed' = confirmed /\ reviewed' = reviewed \cup {}
    BY DEF Respond
  <2>3. {} \in SUBSET Content /\ \A h \in {} : h.errors = {}
    OBVIOUS
  <2> QED
    BY <1>2, <2>1, <2>2, <2>3, TabStep
<1> QED
  BY <1>1, <1>2 DEF Respond

\* Every step keeps what is known of the drafts in the tabs and of the confirmed ones.
LEMMA DraftsStep ==
    ASSUME DraftsInv, GenerationInv, [Next]_vars PROVE DraftsInv'
<1>1. CASE UNCHANGED <<tab, catalog, reviewed, confirmed>>
  BY <1>1 DEF DraftsInv, ConfirmedReviewed
<1>2. CASE Generation /\ ~Respond
  <2>1. UNCHANGED <<tab, catalog, reviewed, confirmed>>
    BY <1>2 DEF Generation, Request, Begin, ContextDone, Turn, ModelFails, Retry, ModelAnswers,
                Answered, Checked, ToolDue, ToolReturns, Drafted, Session, Fail
  <2> QED
    BY <1>1, <2>1
<1>3. CASE Respond
  BY <1>3, RespondStep
<1>4. CASE Release
  BY <1>4 DEF Release, DraftsInv, ConfirmedReviewed
<1>5. CASE Review /\ ~Release
  BY <1>5, EditStep, CopyDraftStep, ValidateDraftStep, ConfirmDraftStep DEF Review
<1> QED
  BY <1>1, <1>2, <1>3, <1>4, <1>5 DEF Next, vars

-----------------------------------------------------------------------------
(* The theorems.                                                             *)

\* The two inductive invariants together.
LEMMA AgentInvariant == Spec => [](GenerationInv /\ DraftsInv)
<1>1. Init => GenerationInv /\ DraftsInv
  BY GenerationInit, DraftsInit
<1>2. GenerationInv /\ DraftsInv /\ [Next]_vars => (GenerationInv /\ DraftsInv)'
  BY GenerationStep, DraftsStep
<1> QED
  BY <1>1, <1>2, PTL DEF Spec

\* The IDs of a batch that was checked are as many as its calls.
LEMMA DistinctIds ==
    ASSUME NEW batch \in Batches, validateToolCalls(batch)
    PROVE  Cardinality({batch[i].id : i \in DOMAIN batch}) = Len(batch)
<1> DEFINE D == DOMAIN batch
           I == {batch[i].id : i \in D}
           f == [i \in D |-> batch[i].id]
<1>1. D = 1 .. Len(batch) /\ Len(batch) \in Nat
  BY AgentAssumption, LenProperties
<1>2. IsFiniteSet(D) /\ Cardinality(D) = Len(batch)
  <2>1. PICK n \in Nat : n = Len(batch)
    BY <1>1
  <2>2. IsFiniteSet(1 .. n) /\ Cardinality(1 .. n) = n
    BY FS_Interval
  <2> QED
    BY <1>1, <2>1, <2>2
<1>3. f \in Bijection(D, I)
  BY DEF validateToolCalls, Bijection, Injection, Surjection, IsInjective
<1>4. ExistsBijection(D, I)
  BY <1>3 DEF ExistsBijection
<1> QED
  BY <1>2, <1>4, FS_Bijection

(* A session of GenerateDraft stays within MaxModelTurns and MaxToolCalls,   *)
(* whatever the model answers and however often it fails, and calls a tool   *)
(* out of a batch with complete calls and distinct IDs only (UseModelTurn,   *)
(* UseToolCall, validateToolCalls).                                          *)
THEOREM BudgetKept == Spec => []BudgetInv
<1>1. GenerationInv /\ DraftsInv => BudgetInv
  <2> SUFFICES ASSUME GenerationInv, DraftsInv PROVE BudgetInv
    OBVIOUS
  <2>1. session \in Generating /\ audit \in Seq(EventTypes) /\ Limits(session)
    BY DEF GenerationInv, Going, Ended, Trail
  <2>2. TypeOK
    BY <2>1 DEF TypeOK, DraftsInv
  <2>3. session.calls < session.turns => session.at = "done" /\ session.code # None
    BY <2>1 DEF GenerationInv, Going, Ended, Generating
  <2>4. ASSUME session.at = "invoking"
        PROVE  /\ \A i \in DOMAIN session.batch : session.batch[i].complete
               /\ Cardinality({session.batch[i].id : i \in DOMAIN session.batch})
                     = Len(session.batch)
    <3>1. session.batch \in Batches /\ validateToolCalls(session.batch)
      BY <2>1, <2>4 DEF GenerationInv, Going, Ended, Generating
    <3>2. \A i \in DOMAIN session.batch : session.batch[i].complete
      BY <3>1 DEF validateToolCalls
    <3> QED
      BY <3>1, <3>2, DistinctIds
  <2> QED
    BY <2>1, <2>2, <2>3, <2>4 DEF BudgetInv, Limits
<1> QED
  BY <1>1, AgentInvariant, PTL

(* The audit trail closes with its last event and only there, with a success *)
(* exactly when a draft was returned, and the draft lists the tool calls the *)
(* trail says were allowed, also when the request was canceled on the way    *)
(* (the deferred function of GenerateDraft).                                 *)
THEOREM AuditComplete == Spec => []AuditInv
<1>1. GenerationInv => AuditInv
  <2> SUFFICES ASSUME GenerationInv PROVE AuditInv
    OBVIOUS
  <2>1. audit \in Seq(EventTypes)
    BY DEF GenerationInv, Going, Ended, Trail
  <2>2. Events("model.completed") + Events("model.retry") <= session.turns
    BY DEF GenerationInv, Going, Ended, Trail, Events
  <2>3. CASE Going(session, audit)
    BY <2>2, <2>3 DEF AuditInv, Going, Open, Closing
  <2>4. CASE Ended(session, audit)
    <3>1. Last(audit) = audit[Len(audit)]
      BY DEF Last
    <3>2. session.code = None => session.draft.records = Events("tool.allowed")
      BY <2>4 DEF Ended, Trail, Events
    <3> QED
      BY <2>2, <2>4, <3>1, <3>2 DEF AuditInv, Ended, Closing
  <2> QED
    BY <2>3, <2>4 DEF GenerationInv
<1> QED
  BY <1>1, AgentInvariant, PTL

(* ConfirmDraft returns a definition only for content a validation showed    *)
(* the operator without errors and open questions, under the hash that was   *)
(* read, whatever was edited or copied between tabs and whichever release    *)
(* validated it.                                                             *)
THEOREM OnlyReviewedConfirmed == Spec => []ConfirmedReviewed
  BY AgentInvariant, PTL DEF DraftsInv


=============================================================================
