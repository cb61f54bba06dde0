---------------------------- MODULE AgentRunProofs ----------------------------
(***************************************************************************)
(* Whatever the model asks for, a call that leaves harness is one the user *)
(* is entitled to.  The property alone is not inductive: act only compares *)
(* with allowed_tools, so what has to be carried along is that this set,   *)
(* computed once by authorize, is never larger than what resolve answered, *)
(* and that nothing was called before it was computed.                     *)
(*                                                                         *)
(* The same for the types, for what an answered run has put on record, for *)
(* the guardrails it has passed and for what its cache entry says: each    *)
(* needs what is true at every node on the way there, for any tools,       *)
(* employees, chunks and pieces of text.                                   *)
(***************************************************************************)
EXTENDS AgentRun, TLAPS

\* allowed_tools is what the policy decision left of the tools, from authorize on.
AuthInv ==
    /\ pc = "authorize" => reached = {}
    /\ allowed_tools \subseteq resolve(disabled)
    /\ OnlyAuthorizedCalls

-----------------------------------------------------------------------------
(* What has to hold at every node for the rows of an answered run to be complete, for its  *)
(* guardrails to have run, and for its cache entry to be impersonal.                       *)

\* The nodes behind the input guardrails, and the ones behind the output guardrails.
Checked == {"cache_lookup", "retrieve", "rag_guardrails", "respond", "act",
            "output_guardrails", "cache_write", "persist", "answered"}
Judged == {"cache_write", "persist", "answered"}

\* A call that reached a service was allowed and left its rows, unless it raised.
CallsRecorded ==
    \A c \in reached :
       /\ c.tool \in allowed_tools
       /\ pc # "error" =>
            /\ \E r \in records : r.tool = c.tool
            /\ c.effect = "execute" =>
                  \E m \in mutations : m.tool = c.tool /\ m.status \in {"executed", "failed"}

\* Rows are committed with the answer and never before.
RowsWithAnswer ==
    /\ pc = "answered" => persisted = {Rows}
    /\ pc # "answered" => persisted = {}

\* refused and the refusal go together, with the event that asked for it and no citation.
RefusalStands ==
    IF refused
    THEN /\ pc \in Judged \cup Failures
         /\ output_text = {"refusal"} /\ citations = {}
         /\ \E e \in guardrail_events : e.action = "block"
    ELSE "refusal" \notin output_text

\* What an earlier turn left as the answer is gone once the model was asked.
AnswerIsNew ==
    pc \in Judged \cup {"output_guardrails"} => "earlier_answer" \notin output_text

\* What the model is shown: the redacted question, chunks, and results of recorded calls.
PromptKnown ==
    /\ input_text \subseteq {"question", "own_pii", "placeholder"}
    /\ pc \in Checked => "own_pii" \notin input_text \/ refused
    /\ "placeholder" \in input_text \cup messages =>
          \E e \in guardrail_events : e.rule = "pii_redaction"
    /\ \A p \in messages :
          \/ p \in {"question", "placeholder", "tool_error"} \cup Chunks \cup PublicChunks
          \/ p \in Tools /\ \E r \in records : r.tool = p

\* The checks a node has behind it passed.
ChecksPassed ==
    /\ pc \in Checked /\ ~refused =>
          /\ Passed("input_size") /\ Passed("prompt_injection")
          /\ request.agent.described => Passed("off_topic")
    /\ pc \in Judged /\ ~refused /\ ~cache_hit => Passed("format_validity")

\* Nothing poisoned is cited, retrieved behind rag_guardrails, or shown to the model,
\* unless search_public_faq found it.
PoisonKeptOut ==
    /\ citations \cap Poisoned = {}
    /\ pc \in {"respond", "act", "output_guardrails"} => retrieved_chunks \cap Poisoned = {}
    /\ messages \cap Poisoned # {} => \E r \in records : r.tool \in Tools /\ Manifest[r.tool].faq

\* The answer is made of what the model was shown and what it made up; without an event
\* about personal data, of what it was shown.
AnswerFromPrompt ==
    /\ pc = "output_guardrails" => output_text \subseteq messages \cup {"invented_pii"}
    /\ pc = "cache_write" /\ ~refused =>
          /\ output_text # {}
          /\ PiiEvents = {} => output_text \subseteq messages

RecordInv == CallsRecorded /\ RowsWithAnswer
\* Nothing is cited before the input guardrails are through.
NothingCited == pc \in {"authorize", "input_guardrails"} => citations = {}

AnswerInv == NothingCited /\ RefusalStands /\ AnswerIsNew /\ PromptKnown /\ AnswerFromPrompt
GuardInv == ChecksPassed /\ PoisonKeptOut
-----------------------------------------------------------------------------
\* A step that calls nobody and leaves the policy decision alone keeps the invariant.
LEMMA QuietStep ==
    ASSUME AuthInv, UNCHANGED policyVars, reached' = reached, pc' # "authorize"
    PROVE  AuthInv'
  BY DEF AuthInv, policyVars, OnlyAuthorizedCalls, Entitled, resolve, Constrained, AllowedIds

\* A tool resolve allows is one the five sets of policy_resolver.py's docstring allow.
LEMMA ResolvedIsEntitled ==
    ASSUME NEW t \in resolve(disabled)
    PROVE  Entitled(t)
  <1>1. t \in Tools /\ Manifest[t].kind \in {"readonly", "mutation"}
    BY ManifestOK DEF resolve
  <1> QED BY <1>1 DEF resolve, Entitled

\* The two checks of execute_tool_call make a call one the property accepts.
LEMMA ExecutableIsAuthorized ==
    ASSUME AuthInv, Executable
    PROVE  /\ Entitled(Call.name)
           /\ Manifest[Call.name].scope = "self" =>
                 EffectiveId = request.employee_id /\ EffectiveId # NoId
           /\ Manifest[Call.name].scope = "team" =>
                 EffectiveId \in request.team \cup {request.employee_id}
  <1>1. Call.name \in resolve(disabled)
    BY DEF AuthInv, Executable
  <1>2. Entitled(Call.name)
    BY <1>1, ResolvedIsEntitled
  <1>3. Constrained(Call.name) => EffectiveId \in AllowedIds(Call.name)
    BY DEF Executable, check_scope
  <1>4. ASSUME Manifest[Call.name].scope = "self"
        PROVE  EffectiveId = request.employee_id /\ EffectiveId # NoId
    BY <1>3, <1>4, ManifestOK DEF Constrained, AllowedIds
  <1>5. ASSUME Manifest[Call.name].scope = "team"
        PROVE  EffectiveId \in request.team \cup {request.employee_id}
    BY <1>3, <1>5 DEF Constrained, AllowedIds
  <1> QED BY <1>2, <1>4, <1>5

\* A step of act that reaches other services with an executable call.
LEMMA CallStep ==
    ASSUME AuthInv, Executable, NEW effects,
           reached' = reached \cup
              {[tool |-> Call.name, id |-> EffectiveId, effect |-> e] : e \in effects},
           UNCHANGED policyVars, pc' # "authorize"
    PROVE  AuthInv'
  <1>1. ASSUME NEW c \in reached'
        PROVE  /\ Entitled(c.tool)
               /\ Manifest[c.tool].scope = "self" => c.id = request.employee_id /\ c.id # NoId
               /\ Manifest[c.tool].scope = "team" => c.id \in request.team \cup {request.employee_id}
    <2>1. CASE c \in reached
      BY <2>1 DEF AuthInv, OnlyAuthorizedCalls
    <2>2. CASE c \notin reached
      <3>1. c.tool = Call.name /\ c.id = EffectiveId
        BY <2>2
      <3> QED BY <3>1, ExecutableIsAuthorized
    <2> QED BY <2>1, <2>2
  <1>2. OnlyAuthorizedCalls'
    BY <1>1 DEF OnlyAuthorizedCalls, Entitled, policyVars
  <1>3. (allowed_tools \subseteq resolve(disabled))'
    BY DEF AuthInv, policyVars, resolve, Constrained, AllowedIds
  <1> QED BY <1>2, <1>3 DEF AuthInv

\* Outcome, the end of every tool call that does not raise, is such a step.
LEMMA OutcomeStep ==
    ASSUME AuthInv, pc = "act", Executable,
           NEW kind, NEW status, NEW pieces, NEW effects, NEW requests,
           Outcome(kind, status, pieces, effects, requests)
    PROVE  AuthInv'
  <1>1. reached' = reached \cup
           {[tool |-> Call.name, id |-> EffectiveId, effect |-> e] : e \in effects}
    BY DEF Outcome
  <1>2. UNCHANGED policyVars /\ pc' # "authorize"
    BY DEF Outcome
  <1> QED BY <1>1, <1>2, CallStep

\* A run starts without permissions and without calls.
LEMMA AuthInit == Init => AuthInv
  BY DEF Init, AuthInv, OnlyAuthorizedCalls

\* Every node of the graph keeps the invariant.
LEMMA AuthStep == AuthInv /\ [Next]_vars => AuthInv'
  <1> SUFFICES ASSUME AuthInv, [Next]_vars PROVE AuthInv'
    OBVIOUS
  <1>1. CASE authorize
    <2>1. reached = {} /\ reached' = reached
      BY <1>1 DEF authorize, AuthInv, loopVars
    <2>2. (allowed_tools \subseteq resolve(disabled))'
      BY <1>1 DEF authorize, resolve, Constrained, AllowedIds
    <2>3. pc' # "authorize"
      BY <1>1 DEF authorize, Goto
    <2> QED BY <2>1, <2>2, <2>3 DEF AuthInv, OnlyAuthorizedCalls
  <1>2. CASE check_input_size \/ InputBlocked \/ InputAllowed
    BY <1>2, QuietStep DEF check_input_size, InputBlocked, InputAllowed, Refuse, Goto, loopVars
  <1>3. CASE CacheSkipped \/ EmbeddingFails \/ CacheMiss \/ CacheHit \/ retrieve \/ rag_guardrails
    BY <1>3, QuietStep DEF CacheSkipped, EmbeddingFails, CacheMiss, CacheHit, retrieve,
                           rag_guardrails, Goto, loopVars
  <1>4. CASE RespondWithCalls \/ RespondWithText \/ act
    BY <1>4, QuietStep DEF RespondWithCalls, RespondWithText, act, Goto, loopVars
  <1>5. CASE CallRejected
    <2>1. reached' = reached \cup
             {[tool |-> Call.name, id |-> EffectiveId, effect |-> e] : e \in {}}
      BY <1>5 DEF CallRejected, Outcome
    <2>2. reached' = reached
      BY <2>1
    <2>3. UNCHANGED policyVars /\ pc' # "authorize"
      BY <1>5 DEF CallRejected, Outcome
    <2> QED BY <2>2, <2>3, QuietStep
  <1>6. CASE ArgumentsInvalid
    BY <1>6, OutcomeStep DEF ArgumentsInvalid
  <1>7. CASE _execute_search_public_faq
    BY <1>7, OutcomeStep DEF _execute_search_public_faq
  <1>8. CASE _execute_readonly
    BY <1>8, OutcomeStep DEF _execute_readonly
  <1>9. CASE _execute_mutation
    BY <1>9, OutcomeStep DEF _execute_mutation
  <1>10. CASE CallRaises
    <2>1. PICK effects :
             reached' = reached \cup
                {[tool |-> Call.name, id |-> EffectiveId, effect |-> e] : e \in effects}
      BY <1>10 DEF CallRaises
    <2>2. Executable /\ UNCHANGED policyVars /\ pc' # "authorize"
      BY <1>10 DEF CallRaises
    <2> QED BY <2>1, <2>2, CallStep
  <1>11. CASE OutputAllowed \/ OutputBlocked \/ cache_write \/ CacheWriteRaises \/ Persist
    BY <1>11, QuietStep DEF OutputAllowed, OutputBlocked, cache_write, CacheWriteRaises,
                            Persist, Goto, loopVars
  <1>12. CASE GuardrailServiceError \/ RunRaises \/ GraphRecursionError
    BY <1>12, QuietStep DEF GuardrailServiceError, RunRaises, GraphRecursionError, Raise, loopVars
  <1>13. CASE UNCHANGED vars
    <2>1. UNCHANGED policyVars /\ reached' = reached /\ pc' = pc
      BY <1>13 DEF vars, policyVars
    <2> QED BY <2>1 DEF AuthInv, policyVars, OnlyAuthorizedCalls, Entitled, resolve,
                        Constrained, AllowedIds
  <1> QED BY <1>1, <1>2, <1>3, <1>4, <1>5, <1>6, <1>7, <1>8, <1>9, <1>10, <1>11, <1>12, <1>13
          DEF Next

\* For every manifest, request, model and number of calls: a call only leaves harness when
\* the user is entitled to the tool, the killswitch did not report it, and the employee id
\* is within the scope of the tool (execute_tool_call's second check).
THEOREM CallsAreAuthorized == Spec => []OnlyAuthorizedCalls
  <1>1. AuthInv => OnlyAuthorizedCalls
    BY DEF AuthInv
  <1> QED BY <1>1, AuthInit, AuthStep, PTL DEF Spec
-----------------------------------------------------------------------------
(* Types *)

\* A run starts well typed.
LEMMA TypeInit == Init => TypeOK
  <1> SUFFICES ASSUME Init PROVE TypeOK
    OBVIOUS
  <1>1. request.text \subseteq Pieces /\ request \in Requests
    BY RequestsOK DEF Init, Pieces, Named
  <1>2. 0 \in 0 .. RecursionLimit
    BY LimitsOK
  <1>3. output_text \subseteq Pieces /\ embedding \in {"none", "this", "earlier"}
    BY DEF Init, Inherited, Pieces, Named
  <1>4. <<>> \in Seq(Calls)
    OBVIOUS
  <1>5. input_text \subseteq Pieces /\ steps \in 0 .. RecursionLimit
        /\ pending_tool_calls \in Seq(Calls)
    BY <1>1, <1>2, <1>4 DEF Init
  <1>6. pc \in Nodes /\ pii_mapping \in BOOLEAN /\ refused \in BOOLEAN /\ cache_hit \in BOOLEAN
        /\ tool_iterations \in Nat
    BY DEF Init, Nodes
  <1>7. /\ disabled = {} /\ allowed_tools = {} /\ guardrail_events = {} /\ degraded = {}
        /\ retrieved_chunks = {} /\ messages = {} /\ records = {} /\ mutations = {}
        /\ reached = {} /\ citations = {} /\ written = {} /\ persisted = {}
    BY DEF Init
  <1> QED BY <1>1, <1>3, <1>5, <1>6, <1>7 DEF TypeOK

\* A super-step is counted and leads to a node or to the end of the graph.
LEMMA GotoTyped ==
    ASSUME TypeOK, NEW node \in Nodes \cup {"persist"}, Goto(node)
    PROVE  /\ pc' \in Nodes \cup {"persist", "answered"} \cup Failures
           /\ steps' \in 0 .. RecursionLimit
  BY LimitsOK DEF TypeOK, Goto

\* The nodes before the model is asked keep the types.
LEMMA TypeBefore ==
    ASSUME TypeOK,
           authorize \/ check_input_size \/ InputBlocked \/ InputAllowed
           \/ CacheSkipped \/ EmbeddingFails \/ CacheMiss \/ CacheHit
           \/ retrieve \/ rag_guardrails
    PROVE  TypeOK'
  <1>1. CASE authorize
    BY <1>1, GotoTyped DEF authorize, TypeOK, KillswitchReports, resolve, guardVars, contextVars, loopVars,
            answerVars, Nodes
  <1>2. CASE check_input_size
    BY <1>2, GotoTyped DEF check_input_size, Refuse, Event, TypeOK, contextVars, loopVars, policyVars,
            Nodes, Rules, Pieces, Named
  <1>3. CASE InputBlocked
    BY <1>3, GotoTyped DEF InputBlocked, Refuse, Redact, redact_input_pii, InputEvents, RedactionEvents, check_input_injection, check_offtopic, Event, TypeOK, contextVars, loopVars, policyVars,
            Nodes, Rules, Pieces, Named
  <1>4. CASE InputAllowed
    BY <1>4, GotoTyped DEF InputAllowed, Refuse, Redact, redact_input_pii, InputEvents, RedactionEvents, check_input_injection, check_offtopic, Event, TypeOK, contextVars, loopVars, policyVars, answerVars,
            Nodes, Rules, Pieces, Named
  <1>5. CASE CacheSkipped \/ EmbeddingFails \/ CacheMiss \/ CacheHit
    BY <1>5, GotoTyped DEF CacheSkipped, EmbeddingFails, CacheMiss, CacheHit, TypeOK, contextVars, loopVars,
            policyVars, guardVars, answerVars, Nodes, Pieces, Named
  <1>6. CASE retrieve
    BY <1>6, GotoTyped DEF retrieve, TypeOK, loopVars, policyVars, guardVars, answerVars, Nodes
  <1>7. CASE rag_guardrails
    BY <1>7, GotoTyped DEF rag_guardrails, scan_retrieved_chunks, Event, Rules, TypeOK, loopVars, policyVars,
            answerVars, Nodes
  <1> QED BY <1>1, <1>2, <1>3, <1>4, <1>5, <1>6, <1>7

\* A call that is executed is of a tool of the manifest, with an id of the caller's choice.
LEMMA CallTyped ==
    ASSUME TypeOK, pending_tool_calls # <<>>
    PROVE  /\ Call.name \in Tools \cup Hallucinated
           /\ Executable => Call.name \in Tools
           /\ Call.name \in Tools => /\ Manifest[Call.name].kind \in {"readonly", "mutation"}
                                     /\ EffectiveId \in Ids \cup {NoId}
           /\ Tail(pending_tool_calls) \in Seq(Calls)
  <1>1. pending_tool_calls \in Seq(Calls) /\ allowed_tools \subseteq Tools /\ request \in Requests
    BY DEF TypeOK
  <1>2. Call \in Calls
    BY <1>1 DEF Call
  <1>3. Call.name \in Tools \cup Hallucinated /\ Call.id \in Ids \cup {NoId}
    BY <1>2 DEF Calls
  <1>4. request.employee_id \in Ids \cup {NoId}
    BY <1>1, RequestsOK
  <1>5. ASSUME Call.name \in Tools
        PROVE  /\ Manifest[Call.name].kind \in {"readonly", "mutation"}
               /\ EffectiveId \in Ids \cup {NoId}
    BY <1>3, <1>4, <1>5, ManifestOK DEF EffectiveId
  <1> QED BY <1>1, <1>3, <1>5 DEF Executable

\* One call keeps the types.
LEMMA OutcomeTyped ==
    ASSUME TypeOK, pending_tool_calls # <<>>,
           NEW kind \in {"readonly", "mutation", "unknown"}, NEW status \in {"ok", "error"},
           NEW pieces \in SUBSET Pieces,
           NEW effects \in SUBSET {"search", "query", "preview", "execute"},
           NEW requests \in SUBSET {"awaiting_approval", "executed", "failed"},
           Executable \/ (effects = {} /\ requests = {}),
           Outcome(kind, status, pieces, effects, requests)
    PROVE  TypeOK'
  <1>1. /\ records' \subseteq [tool : Tools \cup Hallucinated,
                          kind : {"readonly", "mutation", "unknown"}, status : {"ok", "error"}]
        /\ messages' \subseteq Pieces
        /\ pending_tool_calls' \in Seq(Calls)
    BY CallTyped DEF Outcome, TypeOK
  <1>2. /\ mutations' \subseteq [tool : Tools, status : {"awaiting_approval", "executed", "failed"}]
        /\ reached' \subseteq [tool : Tools, id : Ids \cup {NoId},
                               effect : {"search", "query", "preview", "execute"}]
    <2>1. CASE Executable
      <3>1. Call.name \in Tools /\ EffectiveId \in Ids \cup {NoId}
        BY <2>1, CallTyped
      <3>2. /\ mutations \subseteq [tool : Tools, status : {"awaiting_approval", "executed", "failed"}]
            /\ reached \subseteq [tool : Tools, id : Ids \cup {NoId},
                                  effect : {"search", "query", "preview", "execute"}]
        BY DEF TypeOK
      <3>3. /\ reached' = reached \cup {[tool |-> Call.name, id |-> EffectiveId, effect |-> e]
                                           : e \in effects}
            /\ mutations' = mutations \cup {[tool |-> Call.name, status |-> s] : s \in requests}
        BY DEF Outcome
      <3>4. \A s \in requests : [tool |-> Call.name, status |-> s]
               \in [tool : Tools, status : {"awaiting_approval", "executed", "failed"}]
        BY <3>1
      <3>5. \A e \in effects : [tool |-> Call.name, id |-> EffectiveId, effect |-> e]
               \in [tool : Tools, id : Ids \cup {NoId},
                    effect : {"search", "query", "preview", "execute"}]
        BY <3>1
      <3> QED BY <3>2, <3>3, <3>4, <3>5
    <2>2. CASE effects = {} /\ requests = {}
      <3>1. mutations' = mutations /\ reached' = reached
        BY <2>2 DEF Outcome
      <3> QED BY <3>1 DEF TypeOK
    <2> QED BY <2>1, <2>2
  <1>3. UNCHANGED <<pc, steps, tool_iterations, degraded, retrieved_chunks,
                    policyVars, guardVars, answerVars>>
    BY DEF Outcome
  <1> QED BY <1>1, <1>2, <1>3 DEF TypeOK, policyVars, guardVars, answerVars

\* respond and act keep the types.
LEMMA TypeLoop ==
    ASSUME TypeOK,
           RespondWithCalls \/ RespondWithText
           \/ CallRejected \/ ArgumentsInvalid \/ _execute_search_public_faq \/ _execute_readonly
           \/ _execute_mutation \/ CallRaises \/ act
    PROVE  TypeOK'
  <1>1. CASE RespondWithCalls
    <2>1. pending_tool_calls' \in Seq(Calls)
      <3>1. PICK n \in 1 .. MaxCalls : \E calls \in [1 .. n -> Calls] : pending_tool_calls' = calls
        BY <1>1 DEF RespondWithCalls
      <3>2. n \in Nat
        BY LimitsOK
      <3> QED BY <3>1, <3>2
    <2>2. messages' \subseteq Pieces
      BY <1>1 DEF RespondWithCalls, Prompt, TypeOK, Pieces
    <2>3. Goto("act") /\ "act" \in Nodes
      BY <1>1 DEF RespondWithCalls, Nodes
    <2> QED BY <1>1, <2>1, <2>2, <2>3, GotoTyped
            DEF RespondWithCalls, TypeOK, policyVars, guardVars, answerVars
  <1>2. CASE RespondWithText
    <2>1. messages' \subseteq Pieces /\ output_text' \subseteq Pieces /\ citations' \subseteq Chunks
      BY <1>2 DEF RespondWithText, Prompt, Texts, TypeOK, Pieces, Named
    <2>2. Goto("output_guardrails") /\ "output_guardrails" \in Nodes
      BY <1>2 DEF RespondWithText, Nodes
    <2> QED BY <1>2, <2>1, <2>2, GotoTyped
            DEF RespondWithText, TypeOK, policyVars, guardVars, loopVars
  <1>3. CASE CallRejected
    <2>1. (IF Call.name \in Tools THEN Manifest[Call.name].kind ELSE "unknown")
             \in {"readonly", "mutation", "unknown"}
      BY <1>3, CallTyped DEF CallRejected
    <2> QED BY <1>3, <2>1, OutcomeTyped DEF CallRejected, Pieces, Named
  <1>4. CASE ArgumentsInvalid
    <2>1. Manifest[Call.name].kind \in {"readonly", "mutation", "unknown"}
      BY <1>4, CallTyped DEF ArgumentsInvalid
    <2> QED BY <1>4, <2>1, OutcomeTyped DEF ArgumentsInvalid, Pieces, Named
  <1>5. CASE _execute_search_public_faq
    BY <1>5, OutcomeTyped DEF _execute_search_public_faq, Pieces
  <1>6. CASE _execute_readonly
    <2>1. {Call.name} \in SUBSET Pieces /\ {"tool_error"} \in SUBSET Pieces
      BY <1>6, CallTyped DEF _execute_readonly, Pieces, Named
    <2> QED BY <1>6, <2>1, OutcomeTyped DEF _execute_readonly
  <1>7. CASE _execute_mutation
    <2>1. {Call.name} \in SUBSET Pieces /\ {"tool_error"} \in SUBSET Pieces
      BY <1>7, CallTyped DEF _execute_mutation, Pieces, Named
    <2> QED BY <1>7, <2>1, OutcomeTyped DEF _execute_mutation
  <1>8. CASE CallRaises
    <2>1. PICK effects \in SUBSET {"search", "query", "preview", "execute"} :
             reached' = reached \cup
                {[tool |-> Call.name, id |-> EffectiveId, effect |-> e] : e \in effects}
      BY <1>8 DEF CallRaises
    <2>2. Call.name \in Tools /\ EffectiveId \in Ids \cup {NoId}
      BY <1>8, CallTyped DEF CallRaises
    <2>3. reached' \subseteq [tool : Tools, id : Ids \cup {NoId},
                              effect : {"search", "query", "preview", "execute"}]
      BY <2>1, <2>2 DEF TypeOK
    <2> QED BY <1>8, <2>3 DEF CallRaises, TypeOK, Failures, policyVars, guardVars, contextVars, answerVars
  <1>9. CASE act
    BY <1>9, GotoTyped DEF act, TypeOK, Nodes, policyVars, guardVars, contextVars, answerVars
  <1> QED BY <1>1, <1>2, <1>3, <1>4, <1>5, <1>6, <1>7, <1>8, <1>9

\* The nodes after the model answered, and every way to fail, keep the types.
LEMMA TypeAfter ==
    ASSUME TypeOK,
           OutputAllowed \/ OutputBlocked \/ cache_write \/ CacheWriteRaises \/ Persist
           \/ GuardrailServiceError \/ RunRaises \/ GraphRecursionError
    PROVE  TypeOK'
  <1>1. CASE OutputAllowed \/ OutputBlocked
    <2>1. guardrail_events' \subseteq [rule : Rules, action : {"allow", "redact", "flag", "block"}]
      BY <1>1 DEF OutputAllowed, OutputBlocked, DraftEvents, GroundednessVerdicts, check_policy,
                  Event, Rules, TypeOK
    <2>2. output_text' \subseteq Pieces /\ citations' \subseteq Chunks /\ refused' \in BOOLEAN
      <3>1. {"own_pii", "masked", "invented_pii", "refusal"} \subseteq Pieces
        BY DEF Pieces, Named
      <3>2. output_text \subseteq Pieces /\ messages \subseteq Pieces /\ citations \subseteq Chunks
            /\ refused \in BOOLEAN
        BY DEF TypeOK
      <3>3. ASSUME NEW text \in Drafts
            PROVE  restore_input_pii(scan_output_pii(text)) \subseteq Pieces
        <4>1. text \subseteq Pieces
          BY <3>1, <3>2 DEF Drafts, Texts
        <4>2. scan_output_pii(text) \subseteq Pieces
          BY <3>1, <4>1 DEF scan_output_pii
        <4> QED BY <3>1, <4>2 DEF restore_input_pii
      <3>4. CASE OutputAllowed
        BY <3>2, <3>3, <3>4 DEF OutputAllowed
      <3>5. CASE OutputBlocked
        BY <3>1, <3>2, <3>5 DEF OutputBlocked
      <3> QED BY <1>1, <3>4, <3>5
    <2>3. Goto("cache_write") /\ "cache_write" \in Nodes
      BY <1>1 DEF OutputAllowed, OutputBlocked, Nodes
    <2> QED BY <1>1, <2>1, <2>2, <2>3, GotoTyped
            DEF OutputAllowed, OutputBlocked, TypeOK, policyVars, contextVars, loopVars
  <1>2. CASE cache_write \/ CacheWriteRaises
    <2>1. written' \subseteq [text : SUBSET Pieces, documents : SUBSET Chunks,
                              question : {"this", "earlier"}]
      BY <1>2 DEF cache_write, CacheWriteRaises, CacheEntry, TypeOK
    <2>2. pc' \in Nodes \cup {"persist", "answered"} \cup Failures /\ steps' \in 0 .. RecursionLimit
      BY <1>2, GotoTyped DEF cache_write, CacheWriteRaises, Failures, TypeOK
    <2> QED BY <1>2, <2>1, <2>2 DEF cache_write, CacheWriteRaises, TypeOK, policyVars, guardVars,
                                    contextVars, loopVars
  <1>3. CASE Persist
    <2>1. \A p \in persisted' : p.status \in {"blocked", "succeeded"}
      BY <1>3 DEF Persist, Rows, RunStatus
    <2> QED BY <1>3, <2>1 DEF Persist, TypeOK, policyVars, guardVars, contextVars, loopVars
  <1>4. CASE GuardrailServiceError \/ RunRaises \/ GraphRecursionError
    BY <1>4 DEF GuardrailServiceError, RunRaises, GraphRecursionError, Raise, Failures, TypeOK,
                policyVars, guardVars, contextVars, loopVars, answerVars
  <1> QED BY <1>1, <1>2, <1>3, <1>4

\* Every step keeps the types.
LEMMA TypeStep == TypeOK /\ [Next]_vars => TypeOK'
  <1> SUFFICES ASSUME TypeOK, [Next]_vars PROVE TypeOK'
    OBVIOUS
  <1>1. CASE UNCHANGED vars
    BY <1>1 DEF vars, TypeOK
  <1> QED BY <1>1, TypeBefore, TypeLoop, TypeAfter DEF Next

\* For every deployment, request and model: the state of a run has its types, in particular
\* no run takes more super-steps than LangGraph allows, and only tools of the manifest are
\* allowed, reached or recorded as mutations.
THEOREM RunTyped == Spec => []TypeOK
  BY TypeInit, TypeStep, PTL DEF Spec
-----------------------------------------------------------------------------
(* Rows *)

\* A run starts with no calls and no rows.
LEMMA RecordInit == Init => RecordInv
  BY DEF Init, RecordInv, CallsRecorded, RowsWithAnswer

\* A step that makes no call and does not answer.
LEMMA RecordQuiet ==
    ASSUME RecordInv, UNCHANGED <<allowed_tools, loopVars, persisted>>,
           pc \notin {"answered", "error"}, pc' # "answered"
    PROVE  RecordInv'
  BY DEF RecordInv, CallsRecorded, RowsWithAnswer, loopVars

\* A call that returned: its record is there, and a mutation it executed has its row.
LEMMA RecordOutcome ==
    ASSUME RecordInv, pc = "act",
           NEW kind, NEW status, NEW pieces, NEW effects, NEW requests,
           Outcome(kind, status, pieces, effects, requests),
           effects # {} => Call.name \in allowed_tools,
           "execute" \in effects => requests \cap {"executed", "failed"} # {}
    PROVE  RecordInv'
  <1>1. pc' = pc /\ persisted' = persisted /\ allowed_tools' = allowed_tools
    BY DEF Outcome, policyVars, answerVars
  <1>2. RowsWithAnswer'
    BY <1>1 DEF RecordInv, RowsWithAnswer
  <1>3. ASSUME NEW c \in reached'
        PROVE  /\ c.tool \in allowed_tools
               /\ \E r \in records' : r.tool = c.tool
               /\ c.effect = "execute" =>
                     \E m \in mutations' : m.tool = c.tool /\ m.status \in {"executed", "failed"}
    <2>1. CASE c \in reached
      BY <2>1 DEF RecordInv, CallsRecorded, Outcome
    <2>2. CASE c \notin reached
      <3>1. PICK e \in effects : c = [tool |-> Call.name, id |-> EffectiveId, effect |-> e]
        BY <2>2 DEF Outcome
      <3>2. c.tool = Call.name /\ c.effect = e
        BY <3>1
      <3>3. [tool |-> Call.name, kind |-> kind, status |-> status] \in records'
        BY DEF Outcome
      <3>4. \E r \in records' : r.tool = c.tool
        BY <3>2, <3>3
      <3>5. ASSUME e = "execute"
            PROVE  \E m \in mutations' : m.tool = c.tool /\ m.status \in {"executed", "failed"}
        <4>1. PICK s \in requests : s \in {"executed", "failed"}
          BY <3>5
        <4>2. [tool |-> Call.name, status |-> s] \in mutations'
          BY DEF Outcome
        <4> QED BY <3>2, <4>1, <4>2
      <3> QED BY <3>1, <3>2, <3>4, <3>5
    <2> QED BY <2>1, <2>2
  <1>4. CallsRecorded'
    BY <1>1, <1>3 DEF CallsRecorded
  <1> QED BY <1>2, <1>4 DEF RecordInv

\* Every step keeps the rows complete.
LEMMA RecordStep == AuthInv /\ RecordInv /\ [Next]_vars => RecordInv'
  <1> SUFFICES ASSUME AuthInv, RecordInv, [Next]_vars PROVE RecordInv'
    OBVIOUS
  <1>1. CASE authorize
    <2>1. reached' = {} /\ persisted' = persisted /\ pc # "answered" /\ pc' # "answered"
      BY <1>1 DEF authorize, AuthInv, Goto, loopVars, answerVars
    <2> QED BY <2>1 DEF RecordInv, CallsRecorded, RowsWithAnswer
  <1>2. CASE check_input_size \/ InputBlocked \/ InputAllowed \/ CacheSkipped \/ EmbeddingFails
             \/ CacheMiss \/ CacheHit \/ retrieve \/ rag_guardrails
    BY <1>2, RecordQuiet DEF check_input_size, InputBlocked, InputAllowed, Refuse, Goto,
            CacheSkipped, EmbeddingFails, CacheMiss, CacheHit, retrieve, rag_guardrails,
            policyVars, answerVars
  <1>3. CASE RespondWithCalls \/ act
    BY <1>3 DEF RespondWithCalls, act, Goto, policyVars, answerVars, RecordInv, CallsRecorded,
                RowsWithAnswer
  <1>4. CASE RespondWithText \/ OutputAllowed \/ OutputBlocked \/ cache_write
    BY <1>4, RecordQuiet DEF RespondWithText, OutputAllowed, OutputBlocked, cache_write, Goto,
            policyVars, answerVars
  <1>5. CASE CallRejected
    BY <1>5, RecordOutcome DEF CallRejected
  <1>6. CASE ArgumentsInvalid
    BY <1>6, RecordOutcome DEF ArgumentsInvalid
  <1>7. CASE _execute_search_public_faq
    BY <1>7, RecordOutcome DEF _execute_search_public_faq, Executable
  <1>8. CASE _execute_readonly
    BY <1>8, RecordOutcome DEF _execute_readonly, Executable
  <1>9. CASE _execute_mutation
    BY <1>9, RecordOutcome DEF _execute_mutation, Executable
  <1>10. CASE CallRaises
    <2>1. PICK effects :
             reached' = reached \cup
                {[tool |-> Call.name, id |-> EffectiveId, effect |-> e] : e \in effects}
      BY <1>10 DEF CallRaises
    <2>2. Call.name \in allowed_tools /\ allowed_tools' = allowed_tools /\ pc' = "error"
          /\ persisted' = persisted /\ pc = "act"
      BY <1>10 DEF CallRaises, Executable, policyVars, answerVars
    <2>3. \A c \in reached' : c.tool \in allowed_tools'
      BY <2>1, <2>2 DEF RecordInv, CallsRecorded
    <2> QED BY <2>2, <2>3 DEF RecordInv, CallsRecorded, RowsWithAnswer
  <1>11. CASE Persist
    <2>1. Rows' = Rows
      BY <1>11 DEF Persist, Rows, RunStatus, Decisions, policyVars, guardVars, loopVars
    <2>2. persisted' = {Rows} /\ pc = "persist" /\ pc' = "answered"
          /\ UNCHANGED <<allowed_tools, loopVars>>
      BY <1>11 DEF Persist, policyVars
    <2> QED BY <2>1, <2>2 DEF RecordInv, CallsRecorded, RowsWithAnswer, loopVars
  <1>12. CASE CacheWriteRaises \/ GuardrailServiceError \/ RunRaises \/ GraphRecursionError
    BY <1>12, RecordQuiet DEF CacheWriteRaises, GuardrailServiceError, RunRaises,
            GraphRecursionError, Raise, Nodes, policyVars, answerVars
  <1>13. CASE UNCHANGED vars
    <2>1. Rows' = Rows
      BY <1>13 DEF vars, Rows, RunStatus, Decisions
    <2> QED BY <1>13, <2>1 DEF vars, RecordInv, CallsRecorded, RowsWithAnswer
  <1> QED BY <1>1, <1>2, <1>3, <1>4, <1>5, <1>6, <1>7, <1>8, <1>9, <1>10, <1>11, <1>12, <1>13
          DEF Next
-----------------------------------------------------------------------------
(* Prompts, answers and guardrails *)

Before == authorize \/ CacheSkipped \/ EmbeddingFails \/ CacheMiss \/ retrieve
Returns == CallRejected \/ ArgumentsInvalid \/ _execute_search_public_faq \/ _execute_readonly
           \/ _execute_mutation
Fails == CallRaises \/ CacheWriteRaises \/ GuardrailServiceError \/ RunRaises \/ GraphRecursionError

\* What the steps before the model, the returning calls and the failing steps leave alone.
LEMMA QuietShapes ==
    /\ Before => /\ pc \in {"authorize", "cache_lookup", "retrieve"}
                 /\ pc' = IF pc = "authorize" THEN "input_guardrails"
                          ELSE IF pc = "cache_lookup" THEN "retrieve" ELSE "rag_guardrails"
                 /\ UNCHANGED <<request, guardVars, messages, loopVars, output_text, citations,
                                cache_hit, written>>
    /\ Fails => /\ pc' \in Failures
                /\ UNCHANGED <<request, guardVars, messages, records, output_text, citations,
                               cache_hit, retrieved_chunks>>
    /\ Fails /\ ~CacheWriteRaises => written' = written
    /\ Returns => /\ pc = "act" /\ pc' = pc
                  /\ UNCHANGED <<policyVars, guardVars, answerVars, retrieved_chunks>>
                  /\ records \subseteq records'
    /\ act => /\ pc = "act" /\ pc' = "respond"
              /\ UNCHANGED <<policyVars, guardVars, answerVars, contextVars, records>>
  <1>1. ASSUME Before
        PROVE  /\ pc \in {"authorize", "cache_lookup", "retrieve"}
               /\ pc' = IF pc = "authorize" THEN "input_guardrails"
                        ELSE IF pc = "cache_lookup" THEN "retrieve" ELSE "rag_guardrails"
               /\ UNCHANGED <<request, guardVars, messages, loopVars, output_text, citations,
                              cache_hit, written>>
    BY <1>1 DEF Before, authorize, CacheSkipped, EmbeddingFails, CacheMiss, retrieve, Goto,
                policyVars, contextVars, answerVars
  <1>2. ASSUME Fails
        PROVE  /\ pc' \in Failures
               /\ UNCHANGED <<request, guardVars, messages, records, output_text, citations,
                              cache_hit, retrieved_chunks>>
               /\ ~CacheWriteRaises => written' = written
    BY <1>2 DEF Fails, CallRaises, CacheWriteRaises, GuardrailServiceError, RunRaises,
                GraphRecursionError, Raise, Failures, policyVars, contextVars, loopVars, answerVars
  <1>3. ASSUME Returns
        PROVE  /\ pc = "act" /\ pc' = pc
               /\ UNCHANGED <<policyVars, guardVars, answerVars, retrieved_chunks>>
               /\ records \subseteq records'
    BY <1>3 DEF Returns, CallRejected, ArgumentsInvalid, _execute_search_public_faq,
                _execute_readonly, _execute_mutation, Outcome
  <1>4. ASSUME act
        PROVE  /\ pc = "act" /\ pc' = "respond"
               /\ UNCHANGED <<policyVars, guardVars, answerVars, contextVars, records>>
    BY <1>4 DEF act, Goto
  <1> QED BY <1>1, <1>2, <1>3, <1>4

\* A returning call shows the model an error, chunks of the public faq, or its result,
\* and the record says where it comes from.
LEMMA ReturnedPieces ==
    ASSUME TypeOK, Returns, NEW p \in messages'
    PROVE  \/ p \in messages \/ p = "tool_error"
           \/ p \in PublicChunks /\ \E r \in records' : r.tool \in Tools /\ Manifest[r.tool].faq
           \/ p \in Tools /\ \E r \in records' : r.tool = p
  <1>1. CASE CallRejected \/ ArgumentsInvalid
    BY <1>1 DEF CallRejected, ArgumentsInvalid, Outcome
  <1>2. CASE _execute_search_public_faq
    <2>1. Call.name \in Tools /\ Manifest[Call.name].faq
      BY <1>2, CallTyped DEF _execute_search_public_faq
    <2>2. [tool |-> Call.name, kind |-> "readonly", status |-> "ok"] \in records'
          /\ (p \in messages \/ p \in PublicChunks)
      BY <1>2 DEF _execute_search_public_faq, Outcome
    <2>3. \E r \in records' : r.tool \in Tools /\ Manifest[r.tool].faq
      BY <2>1, <2>2
    <2> QED BY <2>2, <2>3
  <1>3. CASE _execute_readonly \/ _execute_mutation
    <2>1. Call.name \in Tools
      BY <1>3, CallTyped DEF _execute_readonly, _execute_mutation
    <2>2. p \in messages \/ p = "tool_error" \/ p = Call.name
      BY <1>3 DEF _execute_readonly, _execute_mutation, Outcome
    <2>3. \E kind, status : [tool |-> Call.name, kind |-> kind, status |-> status] \in records'
      BY <1>3 DEF _execute_readonly, _execute_mutation, Outcome
    <2>4. \E r \in records' : r.tool = Call.name
      BY <2>3
    <2> QED BY <2>1, <2>2, <2>4
  <1> QED BY <1>1, <1>2, <1>3 DEF Returns

\* Events are only added, and records too.
LEMMA EventsGrow ==
    ASSUME [Next]_vars
    PROVE  guardrail_events \subseteq guardrail_events' /\ request' = request
           /\ records \subseteq records'
  <1>1. CASE Before \/ Returns \/ Fails \/ act
    BY <1>1, QuietShapes DEF guardVars, policyVars, loopVars
  <1>2. CASE check_input_size \/ InputBlocked \/ InputAllowed
    BY <1>2 DEF check_input_size, InputBlocked, InputAllowed, Refuse, policyVars, loopVars
  <1>3. CASE CacheHit \/ rag_guardrails \/ RespondWithCalls \/ RespondWithText
    BY <1>3 DEF CacheHit, rag_guardrails, RespondWithCalls, RespondWithText, policyVars, loopVars,
                guardVars
  <1>4. CASE OutputAllowed \/ OutputBlocked
    BY <1>4 DEF OutputAllowed, OutputBlocked, DraftEvents, policyVars, loopVars
  <1>5. CASE cache_write \/ Persist \/ UNCHANGED vars
    BY <1>5 DEF cache_write, Persist, vars, policyVars, loopVars, guardVars
  <1> QED BY <1>1, <1>2, <1>3, <1>4, <1>5 DEF Next, Before, Returns, Fails

\* No prompt holds what only an answer can hold.
LEMMA PromptClean ==
    ASSUME PromptKnown
    PROVE  \A p \in messages : p \notin {"own_pii", "invented_pii", "masked", "refusal",
                                         "cached_answer", "earlier_answer"}
  BY PiecesOK DEF PromptKnown, Named

\* The prompt of respond, once the question is redacted, is known too.
LEMMA PromptShape ==
    ASSUME TypeOK, AnswerInv, pc = "respond"
    PROVE  /\ \A p \in Prompt :
                 \/ p \in {"question", "placeholder", "tool_error"} \cup Chunks \cup PublicChunks
                 \/ p \in Tools /\ \E r \in records : r.tool = p
           /\ "placeholder" \in Prompt => \E e \in guardrail_events : e.rule = "pii_redaction"
           /\ \A p \in Prompt : p \notin {"own_pii", "invented_pii", "masked", "refusal",
                                          "cached_answer", "earlier_answer"}
  <1>1. ~refused
    BY DEF AnswerInv, RefusalStands, Judged, Failures
  <1>2. input_text \subseteq {"question", "placeholder"}
    BY <1>1 DEF AnswerInv, PromptKnown, Checked
  <1>3. retrieved_chunks \subseteq Chunks
    BY DEF TypeOK
  <1>4. "placeholder" \notin retrieved_chunks
    BY <1>3, PiecesOK DEF Named
  <1>5. \A p \in Prompt :
           \/ p \in {"question", "placeholder", "tool_error"} \cup Chunks \cup PublicChunks
           \/ p \in Tools /\ \E r \in records : r.tool = p
    BY <1>2, <1>3 DEF Prompt, AnswerInv, PromptKnown
  <1>6. "placeholder" \in Prompt => \E e \in guardrail_events : e.rule = "pii_redaction"
    BY <1>4 DEF Prompt, AnswerInv, PromptKnown
  <1>7. \A p \in Prompt : p \notin {"own_pii", "invented_pii", "masked", "refusal",
                                    "cached_answer", "earlier_answer"}
    BY <1>5, PiecesOK DEF Named
  <1> QED BY <1>5, <1>6, <1>7

\* run_input_guardrails takes the user's data out of the text, and says so.
LEMMA Redacted ==
    ASSUME PromptKnown, Redact, guardrail_events \cup InputEvents \subseteq guardrail_events'
    PROVE  /\ input_text' \subseteq {"question", "placeholder"}
           /\ "placeholder" \in input_text' =>
                 \E e \in guardrail_events' : e.rule = "pii_redaction"
  <1>1. input_text \subseteq {"question", "own_pii", "placeholder"}
    BY DEF PromptKnown
  <1>2. CASE "own_pii" \in input_text
    <2>1. input_text' = (input_text \ {"own_pii"}) \cup {"placeholder"}
      BY <1>2 DEF Redact, redact_input_pii, Recognized
    <2>2. Event("pii_redaction", "redact") \in guardrail_events'
      BY <1>2 DEF InputEvents, RedactionEvents, Recognized
    <2>3. Event("pii_redaction", "redact").rule = "pii_redaction"
      BY DEF Event
    <2> QED BY <1>1, <2>1, <2>2, <2>3
  <1>3. CASE "own_pii" \notin input_text
    <2>1. input_text' = input_text
      BY <1>3 DEF Redact, redact_input_pii, Recognized
    <2> QED BY <1>1, <1>3, <2>1 DEF PromptKnown
  <1> QED BY <1>2, <1>3

\* Every step keeps the prompt known.
LEMMA PromptStep ==
    ASSUME TypeOK, AnswerInv, [Next]_vars
    PROVE  PromptKnown'
  <1> USE DEF AnswerInv
  <1>1. CASE Before \/ Fails \/ act
    <2>1. /\ UNCHANGED <<input_text, refused, guardrail_events, messages, records>>
          /\ pc' \in Checked => pc \in Checked
      BY <1>1, QuietShapes DEF Checked, Failures, guardVars, contextVars, loopVars
    <2> QED BY <2>1 DEF PromptKnown
  <1>2. CASE check_input_size
    <2>1. /\ UNCHANGED <<input_text, messages, records>> /\ refused'
          /\ guardrail_events \subseteq guardrail_events'
      BY <1>2, EventsGrow DEF check_input_size, Refuse, contextVars, loopVars
    <2> QED BY <2>1 DEF PromptKnown
  <1>3. CASE InputBlocked \/ InputAllowed
    <2>1. /\ Redact /\ UNCHANGED <<messages, records>>
          /\ guardrail_events \cup InputEvents \subseteq guardrail_events'
      BY <1>3 DEF InputBlocked, InputAllowed, Refuse, contextVars, loopVars
    <2> QED BY <2>1, Redacted DEF PromptKnown
  <1>4. CASE CacheHit \/ rag_guardrails \/ OutputAllowed \/ OutputBlocked \/ cache_write \/ Persist
    <2>1. /\ UNCHANGED <<input_text, messages, records>>
          /\ refused => refused'
          /\ pc \in Checked
      BY <1>4 DEF CacheHit, rag_guardrails, OutputAllowed, OutputBlocked, cache_write, Persist,
                  Checked, contextVars, guardVars, loopVars
    <2> QED BY <2>1, EventsGrow DEF PromptKnown
  <1>5. CASE RespondWithCalls \/ RespondWithText
    <2>1. /\ UNCHANGED <<guardVars, records>> /\ messages' = Prompt /\ pc = "respond"
      BY <1>5 DEF RespondWithCalls, RespondWithText, loopVars
    <2> QED BY <2>1, PromptShape DEF PromptKnown, guardVars, Checked
  <1>6. CASE Returns
    <2>1. UNCHANGED <<guardVars, pc>> /\ records \subseteq records' /\ pc \in Checked
      BY <1>6, QuietShapes DEF Checked
    <2>2. \A p \in messages' :
             \/ p \in {"question", "placeholder", "tool_error"} \cup Chunks \cup PublicChunks
             \/ p \in Tools /\ \E r \in records' : r.tool = p
      BY <1>6, <2>1, ReturnedPieces DEF PromptKnown
    <2>3. "placeholder" \in messages' => "placeholder" \in messages
      BY <1>6, ReturnedPieces, PiecesOK DEF Named
    <2> QED BY <2>1, <2>2, <2>3 DEF PromptKnown, guardVars
  <1>7. CASE UNCHANGED vars
    BY <1>7 DEF vars, PromptKnown
  <1> QED BY <1>1, <1>2, <1>3, <1>4, <1>5, <1>6, <1>7 DEF Next, Before, Returns, Fails

\* The text run_output_guardrails lets through was in the prompt, if no event says that
\* personal data was in it.
LEMMA OutputText ==
    ASSUME AnswerInv, OutputAllowed
    PROVE  /\ output_text' # {}
           /\ PiiEvents' = {} => output_text' \subseteq messages
           /\ output_text' \cap {"refusal", "earlier_answer"} = {}
  <1> USE DEF AnswerInv
  <1>1. PICK text \in Drafts, grounded \in GroundednessVerdicts :
           /\ text # {}
           /\ output_text' = restore_input_pii(scan_output_pii(text))
           /\ guardrail_events' = DraftEvents(text, grounded)
    BY DEF OutputAllowed, is_valid_format
  <1>2. text \subseteq messages \cup {"invented_pii"}
    <2>1. pc = "output_guardrails"
      BY DEF OutputAllowed
    <2> QED BY <2>1 DEF AnswerFromPrompt, Drafts, Texts
  <1>3. output_text' # {}
    BY <1>1 DEF restore_input_pii, scan_output_pii
  <1>4. output_text' \cap {"refusal", "earlier_answer"} = {}
    <2>1. text \cap {"refusal", "earlier_answer"} = {}
      BY <1>2, PromptClean
    <2> QED BY <1>1, <2>1 DEF restore_input_pii, scan_output_pii
  <1>5. ASSUME PiiEvents' = {}
        PROVE  output_text' \subseteq messages
    <2>1. \A e \in guardrail_events' : e.rule \notin {"pii_redaction", "pii_leakage"}
      BY <1>5 DEF PiiEvents
    <2>2. "invented_pii" \notin text
      <3> SUFFICES ASSUME "invented_pii" \in text PROVE FALSE
        OBVIOUS
      <3>1. Event("pii_leakage", "redact") \in guardrail_events'
        BY <1>1 DEF DraftEvents
      <3>2. Event("pii_leakage", "redact").rule = "pii_leakage"
        BY DEF Event
      <3> QED BY <2>1, <3>1, <3>2
    <2>3. guardrail_events \subseteq guardrail_events'
      BY <1>1 DEF DraftEvents
    <2>4. "placeholder" \notin messages
      BY <2>1, <2>3 DEF PromptKnown
    <2>5. scan_output_pii(text) = text
      BY <2>2 DEF scan_output_pii, Recognized
    <2>6. restore_input_pii(text) = text
      BY <1>2, <2>4 DEF restore_input_pii
    <2> QED BY <1>1, <1>2, <2>2, <2>5, <2>6
  <1> QED BY <1>3, <1>4, <1>5

\* Where the other steps lead.
LEMMA Elsewhere ==
    ASSUME TypeOK, Next, ~RespondWithText, ~OutputAllowed, ~OutputBlocked
    PROVE  pc' \notin {"output_guardrails", "cache_write"}
  <1>1. CASE Before \/ Returns \/ Fails \/ act
    BY <1>1, QuietShapes DEF Failures
  <1>2. CASE check_input_size \/ InputBlocked \/ InputAllowed \/ CacheHit \/ rag_guardrails
             \/ RespondWithCalls \/ cache_write \/ Persist
    BY <1>2 DEF check_input_size, InputBlocked, InputAllowed, Refuse, CacheHit, rag_guardrails,
                RespondWithCalls, cache_write, Persist, Goto
  <1> QED BY <1>1, <1>2 DEF Next, Before, Returns, Fails

\* Every step keeps the answer made of what the model was shown.
LEMMA AnswerFromPromptStep ==
    ASSUME TypeOK, AnswerInv, [Next]_vars
    PROVE  AnswerFromPrompt'
  <1>1. CASE RespondWithText
    BY <1>1 DEF RespondWithText, Texts, Goto, AnswerFromPrompt
  <1>2. CASE OutputAllowed
    <2>1. pc' = "cache_write" /\ messages' = messages
      BY <1>2 DEF OutputAllowed, Goto, contextVars
    <2> QED BY <1>2, <2>1, OutputText DEF AnswerFromPrompt
  <1>3. CASE OutputBlocked
    BY <1>3 DEF OutputBlocked, Goto, AnswerFromPrompt
  <1>4. CASE Next /\ ~RespondWithText /\ ~OutputAllowed /\ ~OutputBlocked
    BY <1>4, Elsewhere DEF AnswerFromPrompt
  <1>5. CASE UNCHANGED vars
    BY <1>5 DEF vars, AnswerInv, AnswerFromPrompt, PiiEvents
  <1> QED BY <1>1, <1>2, <1>3, <1>4, <1>5

\* Every step keeps refusals and their reasons together, and answers of this turn.
LEMMA RefusalStep ==
    ASSUME TypeOK, AnswerInv, [Next]_vars
    PROVE  NothingCited' /\ RefusalStands' /\ AnswerIsNew'
  <1> USE DEF AnswerInv
  <1>1. CASE Before \/ Fails \/ act \/ Returns
    BY <1>1, QuietShapes DEF NothingCited, RefusalStands, AnswerIsNew, Judged, Failures, guardVars,
                             answerVars
  <1>2. CASE check_input_size \/ InputBlocked
    <2>1. /\ refused' /\ pc' = "persist" /\ output_text' = {"refusal"} /\ citations' = {}
      BY <1>2 DEF check_input_size, InputBlocked, Refuse, Goto, NothingCited
    <2>2. \E e \in guardrail_events' : e.action = "block"
      <3>1. CASE check_input_size
        <4>1. Event("input_size", "block") \in guardrail_events'
          BY <3>1 DEF check_input_size, Refuse
        <4>2. Event("input_size", "block").action = "block"
          BY DEF Event
        <4> QED BY <4>1, <4>2
      <3>2. CASE InputBlocked
        BY <3>2 DEF InputBlocked, Refuse, Blocks
      <3> QED BY <1>2, <3>1, <3>2
    <2> QED BY <2>1, <2>2 DEF NothingCited, RefusalStands, AnswerIsNew, Judged
  <1>3. CASE InputAllowed \/ CacheHit \/ rag_guardrails \/ RespondWithCalls
    <2>1. pc \notin Judged \cup Failures /\ refused' = refused
          /\ pc' \notin {"authorize", "input_guardrails"}
      BY <1>3 DEF InputAllowed, CacheHit, rag_guardrails, RespondWithCalls, Goto, Judged, Failures,
                  guardVars
    <2>2. ~refused
      BY <2>1 DEF RefusalStands
    <2>3. "refusal" \notin output_text'
          /\ (pc' \in Judged \cup {"output_guardrails"} => output_text' = {"cached_answer"})
      BY <1>3, <2>2 DEF InputAllowed, CacheHit, rag_guardrails, RespondWithCalls, Goto, Judged,
                        RefusalStands, answerVars
    <2> QED BY <2>1, <2>2, <2>3 DEF NothingCited, RefusalStands, AnswerIsNew
  <1>4. CASE RespondWithText
    <2>1. ~refused' /\ pc' = "output_guardrails" /\ pc = "respond"
      BY <1>4 DEF RespondWithText, Goto, RefusalStands, Judged, Failures, guardVars
    <2>2. output_text' \subseteq Prompt \cup {"invented_pii"}
      BY <1>4 DEF RespondWithText, Texts
    <2>3. output_text' \cap {"refusal", "earlier_answer"} = {}
      BY <2>1, <2>2, PromptShape
    <2> QED BY <2>1, <2>3 DEF NothingCited, RefusalStands, AnswerIsNew
  <1>5. CASE OutputAllowed
    <2>1. ~refused' /\ pc' = "cache_write"
      BY <1>5 DEF OutputAllowed, Goto, RefusalStands, Judged, Failures
    <2> QED BY <1>5, <2>1, OutputText DEF NothingCited, RefusalStands, AnswerIsNew
  <1>6. CASE OutputBlocked
    <2>1. /\ refused' /\ pc' = "cache_write" /\ output_text' = {"refusal"} /\ citations' = {}
      BY <1>6 DEF OutputBlocked, Goto
    <2>2. \E e \in guardrail_events' : e.action = "block"
      <3>1. Event("format_validity", "block").action = "block"
        BY DEF Event
      <3>2. \/ \E objection : Blocks(objection) /\ objection \subseteq guardrail_events'
            \/ Event("format_validity", "block") \in guardrail_events'
        BY <1>6 DEF OutputBlocked
      <3> QED BY <3>1, <3>2 DEF Blocks
    <2> QED BY <2>1, <2>2 DEF NothingCited, RefusalStands, AnswerIsNew, Judged
  <1>7. CASE cache_write \/ Persist
    <2>1. /\ UNCHANGED <<refused, output_text, citations, guardrail_events>>
          /\ pc \in Judged /\ pc' \in Judged
      BY <1>7 DEF cache_write, Persist, Goto, Judged, guardVars
    <2> QED BY <2>1 DEF NothingCited, RefusalStands, AnswerIsNew, Judged
  <1>8. CASE UNCHANGED vars
    BY <1>8 DEF vars, NothingCited, RefusalStands, AnswerIsNew
  <1> QED BY <1>1, <1>2, <1>3, <1>4, <1>5, <1>6, <1>7, <1>8 DEF Next, Before, Returns, Fails

\* A run starts with the text of the request, and at most an answer of an earlier turn.
LEMMA AnswerInit == Init => AnswerInv
  <1> SUFFICES ASSUME Init PROVE AnswerInv
    OBVIOUS
  <1>1. input_text \subseteq {"question", "own_pii"} /\ messages = {} /\ ~refused /\ citations = {}
        /\ pc = "authorize" /\ "refusal" \notin output_text
    BY RequestsOK DEF Init, Inherited
  <1> QED BY <1>1 DEF AnswerInv, NothingCited, RefusalStands, AnswerIsNew, PromptKnown,
                      AnswerFromPrompt, Checked, Judged

\* Together: prompts and answers are what the guardrails take them for.
LEMMA AnswerStep == TypeOK /\ AnswerInv /\ [Next]_vars => AnswerInv'
  BY PromptStep, AnswerFromPromptStep, RefusalStep DEF AnswerInv

\* The rows of an answered run are the ones its answer rests on: for every manifest, request,
\* model and number of calls, each call that reached a service and each executed mutation is
\* among the rows of the one transaction of runner.py, a refusal has the event that asked for
\* it, a failed run has no rows, and no answer is left over from an earlier turn.
THEOREM AnswersAreRecorded == Spec => []AnsweredIsRecorded
  <1> DEFINE Inv == TypeOK /\ AuthInv /\ RecordInv /\ AnswerInv
  <1>1. Init => Inv
    BY TypeInit, AuthInit, RecordInit, AnswerInit
  <1>2. Inv /\ [Next]_vars => Inv'
    BY TypeStep, AuthStep, RecordStep, AnswerStep
  <1>3. Inv => AnsweredIsRecorded
    <2> SUFFICES ASSUME Inv PROVE AnsweredIsRecorded
      OBVIOUS
    <2>1. ASSUME pc = "answered"
          PROVE  /\ Rows \in persisted
                 /\ Rows.status = "blocked" <=> output_text = {"refusal"}
                 /\ output_text = {"refusal"} => \E e \in Rows.events : e.action = "block"
                 /\ \A c \in reached :
                       \E d \in Rows.decisions : d.tool = c.tool /\ d.decision = "allow"
                 /\ \A c \in reached :
                       /\ \E r \in Rows.records : r.tool = c.tool
                       /\ c.effect = "execute" =>
                             \E m \in Rows.mutations :
                                m.tool = c.tool /\ m.status \in {"executed", "failed"}
                 /\ "earlier_answer" \notin output_text
      <3>1. Rows.status = RunStatus /\ Rows.events = guardrail_events /\ Rows.records = records
            /\ Rows.mutations = mutations /\ Rows.decisions = Decisions
        BY DEF Rows
      <3>2. Rows \in persisted
        BY <2>1 DEF RecordInv, RowsWithAnswer
      <3>3. refused <=> output_text = {"refusal"}
        BY DEF AnswerInv, RefusalStands
      <3>4. Rows.status = "blocked" <=> output_text = {"refusal"}
        BY <3>1, <3>3 DEF RunStatus
      <3>5. output_text = {"refusal"} => \E e \in Rows.events : e.action = "block"
        BY <3>1, <3>3 DEF AnswerInv, RefusalStands
      <3>6. ASSUME NEW c \in reached
            PROVE  \E d \in Rows.decisions : d.tool = c.tool /\ d.decision = "allow"
        <4>1. c.tool \in allowed_tools
          BY DEF RecordInv, CallsRecorded
        <4>2. c.tool \in request.agent.allowed_tools \cap Tools
          BY <4>1 DEF AuthInv, resolve
        <4>3. [tool |-> c.tool, decision |-> "allow"] \in Decisions
          BY <4>1, <4>2 DEF Decisions
        <4> QED BY <3>1, <4>3
      <3>7. \A c \in reached :
               /\ \E r \in Rows.records : r.tool = c.tool
               /\ c.effect = "execute" =>
                     \E m \in Rows.mutations :
                        m.tool = c.tool /\ m.status \in {"executed", "failed"}
        BY <2>1, <3>1 DEF RecordInv, CallsRecorded
      <3>8. "earlier_answer" \notin output_text
        BY <2>1 DEF AnswerInv, AnswerIsNew, Judged
      <3> QED BY <3>2, <3>4, <3>5, <3>6, <3>7, <3>8
    <2>2. pc \in Failures => persisted = {}
      BY DEF RecordInv, RowsWithAnswer, Failures
    <2> QED BY <2>1, <2>2 DEF AnsweredIsRecorded
  <1> QED BY <1>1, <1>2, <1>3, PTL DEF Spec
-----------------------------------------------------------------------------
(* Guardrails and the cache *)

\* A run starts without events, citations or chunks.
LEMMA GuardInit == Init => GuardInv
  BY DEF Init, GuardInv, ChecksPassed, PoisonKeptOut, Checked, Judged

\* A check that passed stays passed.
LEMMA PassedStays ==
    ASSUME guardrail_events \subseteq guardrail_events', NEW rule, Passed(rule)
    PROVE  Passed(rule)'
  BY DEF Passed

\* The input guardrails let a text through only after all of their checks.
LEMMA InputPassed ==
    ASSUME InputAllowed
    PROVE  /\ Passed("input_size")' /\ Passed("prompt_injection")'
           /\ request.agent.described => Passed("off_topic")'
  <1>1. PICK injection \in check_input_injection, offtopic \in check_offtopic :
           /\ ~Blocks({injection} \cup offtopic)
           /\ guardrail_events' = guardrail_events \cup InputEvents \cup {injection} \cup offtopic
    BY DEF InputAllowed
  <1>2. Passed("input_size")'
    <2>1. Event("input_size", "allow") \in guardrail_events'
      BY <1>1 DEF InputEvents
    <2> QED BY <2>1 DEF Passed, Event
  <1>3. Passed("prompt_injection")'
    <2>1. injection.rule = "prompt_injection"
      BY DEF check_input_injection, Event
    <2>2. injection.action # "block"
      BY <1>1 DEF Blocks
    <2> QED BY <1>1, <2>1, <2>2 DEF Passed
  <1>4. ASSUME request.agent.described
        PROVE  Passed("off_topic")'
    <2>1. PICK a \in {"block", "allow"} :
             offtopic = {Event("off_topic", a) : b \in {request.agent.described} \cap {TRUE}}
      BY DEF check_offtopic
    <2>2. Event("off_topic", a) \in offtopic
      BY <1>4, <2>1
    <2>3. Event("off_topic", a).action # "block" /\ Event("off_topic", a).rule = "off_topic"
      BY <1>1, <2>2 DEF Blocks, Event
    <2> QED BY <1>1, <2>2, <2>3 DEF Passed
  <1> QED BY <1>2, <1>3, <1>4

\* Every step keeps the checks of the nodes behind it.
LEMMA ChecksStep ==
    ASSUME TypeOK, AnswerInv, GuardInv, [Next]_vars
    PROVE  ChecksPassed'
  <1> USE DEF GuardInv
  <1>0. guardrail_events \subseteq guardrail_events' /\ request' = request
    BY EventsGrow
  <1>1. \A rule : Passed(rule) => Passed(rule)'
    BY <1>0, PassedStays
  <1>2. CASE /\ pc' \in Checked /\ ~refused' => pc \in Checked /\ ~refused
             /\ pc' \in Judged /\ ~refused' /\ ~cache_hit' => pc \in Judged /\ ~refused /\ ~cache_hit
    BY <1>0, <1>1, <1>2 DEF ChecksPassed
  <1>3. CASE Before \/ Fails \/ act \/ Returns
    <2>1. refused' = refused /\ cache_hit' = cache_hit
      BY <1>3, QuietShapes DEF guardVars, answerVars
    <2>2. (pc' \in Checked => pc \in Checked) /\ (pc' \in Judged => pc \in Judged)
      BY <1>3, QuietShapes DEF Checked, Judged, Failures
    <2> QED BY <1>2, <2>1, <2>2
  <1>4. CASE check_input_size \/ InputBlocked \/ OutputBlocked
    BY <1>4 DEF check_input_size, InputBlocked, OutputBlocked, Refuse, ChecksPassed
  <1>5. CASE InputAllowed
    <2>1. pc' = "cache_lookup"
      BY <1>5 DEF InputAllowed, Goto
    <2> QED BY <1>0, <1>5, <2>1, InputPassed DEF ChecksPassed, Judged
  <1>6. CASE CacheHit
    <2>1. cache_hit' /\ refused' = refused /\ pc \in Checked
      BY <1>6 DEF CacheHit, guardVars, Checked
    <2> QED BY <1>2, <2>1
  <1>7. CASE rag_guardrails \/ RespondWithCalls \/ RespondWithText
    <2>1. refused' = refused /\ pc \in Checked /\ pc' \notin Judged
      BY <1>7 DEF rag_guardrails, RespondWithCalls, RespondWithText, Goto, guardVars, Checked, Judged
    <2> QED BY <1>2, <2>1
  <1>8. CASE OutputAllowed
    <2>1. pc = "output_guardrails" /\ refused' = refused
      BY <1>8 DEF OutputAllowed
    <2>2. Passed("format_validity")'
      <3>1. Event("format_validity", "allow") \in guardrail_events'
        BY <1>8 DEF OutputAllowed, DraftEvents
      <3> QED BY <3>1 DEF Passed, Event
    <2> QED BY <1>0, <1>1, <2>1, <2>2 DEF ChecksPassed, Checked
  <1>9. CASE cache_write \/ Persist
    <2>1. pc \in Checked /\ pc \in Judged /\ refused' = refused /\ cache_hit' = cache_hit
      BY <1>9 DEF cache_write, Persist, Checked, Judged, guardVars
    <2> QED BY <1>2, <2>1
  <1>10. CASE UNCHANGED vars
    BY <1>2, <1>10 DEF vars
  <1> QED BY <1>3, <1>4, <1>5, <1>6, <1>7, <1>8, <1>9, <1>10 DEF Next, Before, Returns, Fails

\* Every step keeps poisoned chunks out, except the ones search_public_faq finds.
LEMMA PoisonStep ==
    ASSUME TypeOK, AnswerInv, GuardInv, [Next]_vars
    PROVE  PoisonKeptOut'
  <1> USE DEF GuardInv
  <1>1. CASE Before \/ Fails \/ act
    <2>1. UNCHANGED <<citations, messages, records>>
          /\ (pc' \in {"respond", "act", "output_guardrails"} =>
                 pc = "act" /\ retrieved_chunks' = retrieved_chunks)
      BY <1>1, QuietShapes DEF Failures, loopVars, contextVars, answerVars
    <2> QED BY <2>1 DEF PoisonKeptOut
  <1>2. CASE Returns
    <2>1. UNCHANGED <<citations, retrieved_chunks, pc>> /\ records \subseteq records'
      BY <1>2, QuietShapes DEF answerVars
    <2>2. ASSUME NEW p \in messages' \cap Poisoned
          PROVE  \E r \in records' : r.tool \in Tools /\ Manifest[r.tool].faq
      <3>1. p \notin Tools /\ p # "tool_error"
        BY PiecesOK DEF Named
      <3>2. CASE p \in messages
        BY <2>1, <3>2 DEF PoisonKeptOut
      <3>3. CASE p \notin messages
        BY <1>2, <3>1, <3>3, ReturnedPieces
      <3> QED BY <3>2, <3>3
    <2> QED BY <2>1, <2>2 DEF PoisonKeptOut
  <1>3. CASE check_input_size \/ InputBlocked \/ InputAllowed \/ cache_write \/ Persist
    BY <1>3 DEF check_input_size, InputBlocked, InputAllowed, Refuse, cache_write, Persist, Goto,
                PoisonKeptOut, contextVars, loopVars, answerVars
  <1>4. CASE CacheHit
    BY <1>4 DEF CacheHit, Goto, PoisonKeptOut, contextVars, loopVars
  <1>5. CASE rag_guardrails
    BY <1>5 DEF rag_guardrails, Flagged, Goto, PoisonKeptOut, loopVars, answerVars
  <1>6. CASE RespondWithCalls \/ RespondWithText
    <2>1. /\ pc = "respond" /\ messages' = Prompt /\ UNCHANGED <<records, retrieved_chunks>>
          /\ citations' \in {citations, retrieved_chunks}
      BY <1>6 DEF RespondWithCalls, RespondWithText, loopVars, answerVars
    <2>2. input_text \cap Poisoned = {}
      BY PiecesOK DEF AnswerInv, PromptKnown, Named
    <2> QED BY <2>1, <2>2 DEF PoisonKeptOut, Prompt
  <1>7. CASE OutputAllowed \/ OutputBlocked
    BY <1>7 DEF OutputAllowed, OutputBlocked, Goto, PoisonKeptOut, contextVars, loopVars
  <1>8. CASE UNCHANGED vars
    BY <1>8 DEF vars, PoisonKeptOut
  <1> QED BY <1>1, <1>2, <1>3, <1>4, <1>5, <1>6, <1>7, <1>8 DEF Next, Before, Returns, Fails

\* For every deployment, request, model and set of poisoned chunks: no answer without the
\* checks errors.py asks for, no refusal without the event behind it, and no poisoned chunk
\* among the citations or, unless search_public_faq found it, in the prompt.
THEOREM GuardrailsAlwaysRun == Spec => []GuardrailsRan
  <1> DEFINE Inv == TypeOK /\ AnswerInv /\ GuardInv
  <1>1. Init => Inv
    BY TypeInit, AnswerInit, GuardInit
  <1>2. Inv /\ [Next]_vars => Inv'
    BY TypeStep, AnswerStep, ChecksStep, PoisonStep DEF GuardInv
  <1>3. Inv => GuardrailsRan
    BY DEF GuardrailsRan, AnswerInv, RefusalStands, GuardInv, ChecksPassed, PoisonKeptOut,
           Checked, Judged
  <1> QED BY <1>1, <1>2, <1>3, PTL DEF Spec

\* What cache_write stores holds nothing of this user.
LEMMA EntryImpersonal ==
    ASSUME AnswerInv, GuardInv, pc = "cache_write", is_cacheable
    PROVE  /\ CacheEntry.text # {} /\ CacheEntry.text \cap Personal = {}
           /\ CacheEntry.documents \cap Poisoned = {}
  <1>1. /\ output_text # {} /\ output_text \subseteq messages
        /\ PiiEvents = {} /\ RecordsCacheable
    BY DEF AnswerInv, AnswerFromPrompt, is_cacheable
  <1>2. ASSUME NEW p \in messages
        PROVE  p \notin Personal
    <2>1. p # "placeholder"
      BY <1>1 DEF PiiEvents, AnswerInv, PromptKnown
    <2>2. p \notin {"own_pii", "invented_pii", "masked", "refusal"}
      BY PromptClean DEF AnswerInv
    <2>3. ASSUME p \in Tools
          PROVE  Manifest[p].cacheable
      <3>1. \E r \in records : r.tool = p
        BY <2>3, PiecesOK DEF AnswerInv, PromptKnown, Named
      <3> QED BY <1>1, <3>1 DEF RecordsCacheable
    <2> QED BY <2>1, <2>2, <2>3 DEF Personal
  <1> QED BY <1>1, <1>2 DEF CacheEntry, GuardInv, PoisonKeptOut

\* Only cache_write writes, whether or not the run gets to know of it.
LEMMA CacheStep ==
    ASSUME AnswerInv, GuardInv, CacheIsImpersonal, [Next]_vars
    PROVE  CacheIsImpersonal'
  <1>1. CASE written' = written
    BY <1>1 DEF CacheIsImpersonal
  <1>2. CASE cache_write \/ CacheWriteRaises
    <2>1. written' = written \/ (written' = {CacheEntry} /\ is_cacheable /\ pc = "cache_write")
      BY <1>2 DEF cache_write, CacheWriteRaises
    <2> QED BY <1>1, <2>1, EntryImpersonal DEF CacheIsImpersonal
  <1>3. CASE Before \/ Fails \/ act \/ Returns
    BY <1>1, <1>2, <1>3, QuietShapes DEF answerVars
  <1>4. CASE check_input_size \/ InputBlocked \/ InputAllowed \/ CacheHit \/ rag_guardrails
             \/ RespondWithCalls \/ RespondWithText
    BY <1>1, <1>4 DEF check_input_size, InputBlocked, InputAllowed, Refuse, CacheHit,
                      rag_guardrails, RespondWithCalls, RespondWithText, answerVars
  <1>5. CASE OutputAllowed \/ OutputBlocked \/ Persist \/ UNCHANGED vars
    BY <1>1, <1>5 DEF OutputAllowed, OutputBlocked, Persist, vars
  <1> QED BY <1>2, <1>3, <1>4, <1>5 DEF Next, Before, Returns, Fails

\* For every deployment, request and model: an entry of the semantic cache says nothing that
\* belongs to the user whose run wrote it, and cites nothing poisoned (cache/eligibility.py).
THEOREM CacheStaysImpersonal == Spec => []CacheIsImpersonal
  <1> DEFINE Inv == TypeOK /\ AnswerInv /\ GuardInv /\ CacheIsImpersonal
  <1>1. Init => Inv
    <2>1. Init => CacheIsImpersonal
      BY DEF Init, CacheIsImpersonal
    <2> QED BY <2>1, TypeInit, AnswerInit, GuardInit
  <1>2. Inv /\ [Next]_vars => Inv'
    BY TypeStep, AnswerStep, ChecksStep, PoisonStep, CacheStep DEF GuardInv
  <1>3. Inv => CacheIsImpersonal
    OBVIOUS
  <1> QED BY <1>1, <1>2, <1>3, PTL DEF Spec
=============================================================================
