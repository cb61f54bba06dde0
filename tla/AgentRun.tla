------------------------------- MODULE AgentRun -------------------------------
(***************************************************************************)
(* One run of the agent graph (harness/graph/build.py), from the policy    *)
(* decision to the transaction in which run_agent records it.  A node of   *)
(* the graph is one step, except that act takes one step per tool call:    *)
(* each call reaches another service, and one that raises takes the run    *)
(* down after the earlier ones had their effect.  The language model is    *)
(* arbitrary: it answers with any text made of what it was shown, and      *)
(* calls any tools, also ones it was not offered.                          *)
(*                                                                         *)
(* A text is the set of the pieces of information in it: the question, the *)
(* user's own personal data or the placeholder that stands for it, chunks  *)
(* of documents, results of tools (under the name of the tool).  A chunk   *)
(* is also the document it belongs to.                                     *)
(***************************************************************************)
EXTENDS Naturals, Sequences, FiniteSets

CONSTANTS
    Manifest,        \* tool_manifests: tool name -> entry, for this deployment
    Hallucinated,    \* names the model may call that no manifest has
    Ids,             \* employee ids
    Chunks,          \* chunks the user may read
    PublicChunks,    \* chunks grp_public may read
    Poisoned,        \* chunks that match an injection pattern
    Requests,        \* the requests that may arrive, each with the profile of its agent
    MaxCalls,        \* tool calls in one answer of the model (bound)
    MaxPieces,       \* pieces of information in one text of the model (bound)
    RecursionLimit   \* super-steps after which LangGraph gives up

\* load_tool_manifests: the tools this deployment's audience has.
Tools == DOMAIN Manifest
MAX_TOOL_ITERATIONS == 2
NoId == "nobody"
Named == {"question", "own_pii", "placeholder", "invented_pii", "masked", "refusal",
          "cached_answer", "earlier_answer", "tool_error"}
Pieces == Named \cup Chunks \cup PublicChunks \cup Tools
Rules == {"input_size", "pii_redaction", "prompt_injection", "off_topic",
          "rag_content_injection", "format_validity", "groundedness", "pii_leakage", "policy"}
Calls == [name : Tools \cup Hallucinated, id : Ids \cup {NoId}]

ASSUME ManifestOK ==
    /\ Manifest \in [Tools -> [kind : {"readonly", "mutation"}, faq : BOOLEAN,
                               permissions : SUBSET STRING, cacheable : BOOLEAN,
                               scope : {"none", "self", "team", "tenant"}]]
    /\ Hallucinated \cap Tools = {}
    /\ NoId \notin Ids
\* described: the agent has an entry in AGENT_DESCRIPTIONS.
Agents == [allowed_tools : SUBSET STRING, cacheable : BOOLEAN, described : BOOLEAN]
ASSUME RequestsOK ==
    Requests \subseteq [agent : Agents, permissions : SUBSET STRING,
                        employee_id : Ids \cup {NoId}, team : SUBSET Ids,
                        allow_mutations : BOOLEAN, text : SUBSET {"question", "own_pii"}]
\* A piece of information has one origin, and it is texts of documents that are poisoned.
ASSUME PiecesOK ==
    /\ Named \cap (Chunks \cup PublicChunks) = {}
    /\ Tools \cap (Named \cup Chunks \cup PublicChunks) = {}
    /\ Poisoned \subseteq Chunks \cup PublicChunks
ASSUME LimitsOK ==
    /\ MaxCalls \in Nat \ {0} /\ MaxPieces \in Nat
    /\ RecursionLimit \in Nat
    /\ RecursionLimit >= 8 + 2 * MAX_TOOL_ITERATIONS

VARIABLES
    pc,                 \* the node to run next, or how the run ended
    steps,              \* super-steps taken
    request,
    disabled,           \* what the killswitch reported disabled when authorize asked
    allowed_tools,
    input_text,
    pii_mapping,        \* the placeholder stands for something
    guardrail_events,   \* set of [rule, action]
    refused, degraded, retrieved_chunks, messages, pending_tool_calls,
    tool_iterations,
    records,            \* tool_invocation_records
    mutations,          \* mutation_request_records
    reached,            \* history: calls that reached another service
    output_text, citations, cache_hit,
    embedding,          \* cache_query_embedding: of the question of this turn, or an earlier one
    written,            \* history: cache entries this run wrote
    persisted           \* history: the rows of the committed transaction, at most one set

vars == <<pc, steps, request, disabled, allowed_tools, input_text, pii_mapping,
          guardrail_events, refused, degraded, retrieved_chunks, messages,
          pending_tool_calls, tool_iterations, records, mutations, reached,
          output_text, citations, cache_hit, embedding, written, persisted>>

\* What act and its tool calls touch, and what the rest of the graph does.
loopVars == <<pending_tool_calls, tool_iterations, records, mutations, reached>>
guardVars == <<input_text, pii_mapping, guardrail_events, refused>>
contextVars == <<degraded, retrieved_chunks, messages>>
answerVars == <<output_text, citations, cache_hit, embedding, written, persisted>>
policyVars == <<request, disabled, allowed_tools>>

Nodes == {"authorize", "input_guardrails", "cache_lookup", "retrieve", "rag_guardrails",
          "respond", "act", "output_guardrails", "cache_write"}
Failures == {"unavailable", "error", "recursion"}

TypeOK ==
    /\ pc \in Nodes \cup {"persist", "answered"} \cup Failures
    /\ steps \in 0 .. RecursionLimit
    /\ request \in Requests
    /\ disabled \subseteq Tools
    /\ allowed_tools \subseteq Tools
    /\ input_text \subseteq Pieces
    /\ pii_mapping \in BOOLEAN
    /\ guardrail_events \subseteq [rule : Rules, action : {"allow", "redact", "flag", "block"}]
    /\ refused \in BOOLEAN
    /\ degraded \subseteq {"semantic_cache", "retrieval", "rerank"}
    /\ retrieved_chunks \subseteq Chunks
    /\ messages \subseteq Pieces
    /\ pending_tool_calls \in Seq(Calls)
    /\ tool_iterations \in Nat
    /\ records \subseteq [tool : Tools \cup Hallucinated,
                          kind : {"readonly", "mutation", "unknown"}, status : {"ok", "error"}]
    /\ mutations \subseteq [tool : Tools, status : {"awaiting_approval", "executed", "failed"}]
    /\ reached \subseteq [tool : Tools, id : Ids \cup {NoId},
                          effect : {"search", "query", "preview", "execute"}]
    /\ output_text \subseteq Pieces
    /\ citations \subseteq Chunks
    /\ cache_hit \in BOOLEAN
    /\ embedding \in {"none", "this", "earlier"}
    /\ written \subseteq [text : SUBSET Pieces, documents : SUBSET Chunks,
                          question : {"this", "earlier"}]
    /\ \A p \in persisted : p.status \in {"blocked", "succeeded"}
-----------------------------------------------------------------------------
Event(rule, action) == [rule |-> rule, action |-> action]

\* A node ends and the graph goes on to the next one, or to END, where run_agent resumes.
Goto(node) ==
    /\ steps < RecursionLimit
    /\ steps' = steps + 1
    /\ pc' = node

\* An exception leaves the graph; run_agent does not catch it.  api/routes.py answers a
\* GuardrailServiceError with 503 and everything else becomes a 500.
Raise(outcome) ==
    /\ pc' = outcome
    /\ UNCHANGED <<steps, policyVars, guardVars, contextVars, loopVars, answerVars>>

\* A run starts from initial_state, but in a conversation that had a turn before this one the
\* checkpoint keeps the fields run_agent leaves unset and whose default is None: the answer,
\* and the embedding of the question if the agent has a cache.
Inherited ==
    \/ output_text = {} /\ embedding = "none"
    \/ /\ output_text = {"earlier_answer"}
       /\ embedding = IF request.agent.cacheable THEN "earlier" ELSE "none"

Init ==
    /\ pc = "authorize" /\ steps = 0
    /\ request \in Requests
    /\ disabled = {} /\ allowed_tools = {}
    /\ input_text = request.text
    /\ pii_mapping = FALSE /\ guardrail_events = {} /\ refused = FALSE
    /\ degraded = {} /\ retrieved_chunks = {} /\ messages = {}
    /\ pending_tool_calls = <<>> /\ tool_iterations = 0
    /\ records = {} /\ mutations = {} /\ reached = {}
    /\ Inherited /\ citations = {} /\ cache_hit = FALSE
    /\ written = {} /\ persisted = {}
-----------------------------------------------------------------------------
(* authorize: policy_resolver.resolve *)

\* _resolve_scope_constraint: the ids a scoped tool may be called with; the other tools
\* have no constraint, or one whose allowed_ids is None.
Constrained(t) == Manifest[t].scope \in {"self", "team"}
AllowedIds(t) ==
    {i \in Ids : \/ i = request.employee_id
                 \/ Manifest[t].scope = "team" /\ i \in request.team}

resolve(reported) ==
    {t \in request.agent.allowed_tools \cap Tools :
        /\ Manifest[t].permissions \subseteq request.permissions
        /\ Manifest[t].kind = "mutation" => request.allow_mutations
        /\ t \notin reported
        /\ Constrained(t) => AllowedIds(t) # {}}

\* KillswitchChecker: what it may report as disabled, tool by tool (a disabled agent is all
\* of its tools); its answers may be up to 10 s old.
KillswitchReports == SUBSET (request.agent.allowed_tools \cap Tools)

authorize ==
    /\ pc = "authorize"
    /\ \E reported \in KillswitchReports :
          /\ disabled' = reported
          /\ allowed_tools' = resolve(reported)
    /\ Goto("input_guardrails")
    /\ UNCHANGED <<request, guardVars, contextVars, loopVars, answerVars>>
-----------------------------------------------------------------------------
(* input_guardrails: run_input_guardrails *)

\* What the analyzer recognizes as personal data; a placeholder or a mask it does not.
Recognized(text) == text \cap {"own_pii", "invented_pii"}

redact_input_pii(text) ==
    IF "own_pii" \in Recognized(text) THEN (text \ {"own_pii"}) \cup {"placeholder"} ELSE text

RedactionEvents ==
    {Event("pii_redaction", "redact") : p \in Recognized(input_text)}

Refuse(events) ==
    /\ refused' = TRUE
    /\ output_text' = {"refusal"}
    /\ guardrail_events' = guardrail_events \cup events
    /\ Goto("persist")
    /\ UNCHANGED <<citations, cache_hit, embedding, written, persisted>>

check_input_size ==
    /\ pc = "input_guardrails"
    /\ Refuse({Event("input_size", "block")})
    /\ UNCHANGED <<input_text, pii_mapping, policyVars, contextVars, loopVars>>

Redact ==
    /\ input_text' = redact_input_pii(input_text)
    /\ pii_mapping' = ("own_pii" \in input_text)

InputEvents == {Event("input_size", "allow")} \cup RedactionEvents

\* A pattern that matches blocks; otherwise the classifier flags the text, or does not.
check_input_injection == {Event("prompt_injection", a) : a \in {"block", "flag", "allow"}}

\* The agent's description decides what is off topic; without one nothing is checked.
check_offtopic ==
    {{Event("off_topic", a) : b \in {request.agent.described} \cap {TRUE}} : a \in {"block", "allow"}}

Blocks(events) == \E e \in events : e.action = "block"

\* A block by the first classifier ends the checks.
InputBlocked ==
    /\ pc = "input_guardrails"
    /\ Redact
    /\ \E injection \in check_input_injection, offtopic \in check_offtopic \cup {{}} :
          /\ IF Blocks({injection}) THEN offtopic = {} ELSE Blocks(offtopic)
          /\ Refuse(InputEvents \cup {injection} \cup offtopic)
    /\ UNCHANGED <<policyVars, contextVars, loopVars>>

InputAllowed ==
    /\ pc = "input_guardrails"
    /\ Redact
    /\ \E injection \in check_input_injection, offtopic \in check_offtopic :
          /\ ~Blocks({injection} \cup offtopic)
          /\ guardrail_events' = guardrail_events \cup InputEvents \cup {injection} \cup offtopic
    /\ Goto("cache_lookup")
    /\ UNCHANGED <<refused, policyVars, contextVars, loopVars, answerVars>>

\* Mutant of GuardrailServiceError: an unreachable classifier counts as no objection.
GuardrailFailsOpen ==
    /\ pc = "input_guardrails"
    /\ Redact
    /\ Goto("cache_lookup")
    /\ UNCHANGED <<guardrail_events, refused, policyVars, contextVars, loopVars, answerVars>>

\* A classifier that cannot be asked: the check fails closed.
GuardrailServiceError ==
    /\ pc \in {"input_guardrails", "output_guardrails"}
    /\ pc = "output_guardrails" => retrieved_chunks # {}
    /\ Raise("unavailable")
-----------------------------------------------------------------------------
(* cache_lookup, retrieve, rag_guardrails *)

CacheSkipped ==
    /\ pc = "cache_lookup"
    /\ ~request.agent.cacheable
    /\ Goto("retrieve")
    /\ UNCHANGED <<policyVars, guardVars, contextVars, loopVars, answerVars>>

EmbeddingFails ==
    /\ pc = "cache_lookup"
    /\ request.agent.cacheable
    /\ degraded' = degraded \cup {"semantic_cache"}
    /\ Goto("retrieve")
    /\ UNCHANGED <<retrieved_chunks, messages, policyVars, guardVars, loopVars, answerVars>>

CacheMiss ==
    /\ pc = "cache_lookup"
    /\ request.agent.cacheable
    /\ embedding' = "this"
    /\ Goto("retrieve")
    /\ UNCHANGED <<output_text, citations, cache_hit, written, persisted,
                   policyVars, guardVars, contextVars, loopVars>>

CacheHit ==
    /\ pc = "cache_lookup"
    /\ request.agent.cacheable
    /\ cache_hit' = TRUE
    /\ embedding' = "this"
    /\ output_text' = {"cached_answer"}
    /\ \E cited \in SUBSET (Chunks \ Poisoned) : citations' = cited
    /\ Goto("persist")
    /\ UNCHANGED <<written, persisted, policyVars, guardVars, contextVars, loopVars>>

retrieve ==
    /\ pc = "retrieve"
    /\ \/ \E found \in SUBSET Chunks, marks \in SUBSET {"rerank"} :
             /\ retrieved_chunks' = found
             /\ degraded' = marks
       \/ /\ degraded' = {"retrieval"}
          /\ UNCHANGED retrieved_chunks
    /\ Goto("rag_guardrails")
    /\ UNCHANGED <<messages, policyVars, guardVars, loopVars, answerVars>>

\* scan_chunk_for_injection: the patterns only, no classifier.
Flagged == retrieved_chunks \cap Poisoned

scan_retrieved_chunks == {Event("rag_content_injection", "block") : c \in Flagged}

rag_guardrails ==
    /\ pc = "rag_guardrails"
    /\ retrieved_chunks' = retrieved_chunks \ Flagged
    /\ guardrail_events' = guardrail_events \cup scan_retrieved_chunks
    /\ Goto("respond")
    /\ UNCHANGED <<degraded, messages, input_text, pii_mapping, refused,
                   policyVars, loopVars, answerVars>>
-----------------------------------------------------------------------------
(* respond and act *)

\* state.messages or _initial_messages(state)
Prompt == IF messages = {} THEN input_text \cup retrieved_chunks ELSE messages

\* What the model may say after a prompt; it may also make up personal data.
Texts(prompt) ==
    {text \in SUBSET (prompt \cup {"invented_pii"}) : Cardinality(text) <= MaxPieces}

offer_tools == tool_iterations < MAX_TOOL_ITERATIONS

\* The model calls tools: the ones it was offered, others, and ones that do not exist.
RespondWithCalls ==
    /\ pc = "respond"
    /\ messages' = Prompt
    /\ \E n \in 1 .. MaxCalls : \E calls \in [1 .. n -> Calls] :
          pending_tool_calls' = calls
    /\ Goto("act")
    /\ UNCHANGED <<tool_iterations, records, mutations, reached, degraded, retrieved_chunks,
                   policyVars, guardVars, answerVars>>

\* Mutant of RespondWithText: everything in the prompt is cited, results of tools too.
RespondCitesPrompt ==
    /\ pc = "respond"
    /\ messages' = Prompt
    /\ \E text \in Texts(Prompt) : output_text' = text
    /\ citations' = Prompt
    /\ Goto("output_guardrails")
    /\ UNCHANGED <<cache_hit, embedding, written, persisted, degraded, retrieved_chunks,
                   loopVars, policyVars, guardVars>>

\* The model answers with a text, possibly an empty one.
RespondWithText ==
    /\ pc = "respond"
    /\ messages' = Prompt
    /\ \E text \in Texts(Prompt) : output_text' = text
    /\ citations' = retrieved_chunks
    /\ Goto("output_guardrails")
    /\ UNCHANGED <<cache_hit, embedding, written, persisted, degraded, retrieved_chunks,
                   loopVars, policyVars, guardVars>>

Call == Head(pending_tool_calls)

\* apply_scope_default: a missing id becomes the caller's own.  A tool without scope_param
\* has no id to compare.
EffectiveId ==
    CASE Manifest[Call.name].scope = "none" -> NoId
      [] Call.id = NoId -> request.employee_id
      [] OTHER -> Call.id

check_scope == Constrained(Call.name) => EffectiveId \in AllowedIds(Call.name)

\* Mutant of Executable: an explicit id is not compared with the caller's scope.
ExecutableAnyId == Call.name \in allowed_tools

Executable ==
    /\ Call.name \in allowed_tools
    /\ check_scope

\* Mutant of Outcome: a call that ended in an error leaves no record.
OutcomeOkOnly(kind, status, pieces, effects, requests) ==
    /\ records' = records \cup
          {[tool |-> Call.name, kind |-> kind, status |-> s] : s \in {status} \cap {"ok"}}
    /\ messages' = messages \cup pieces
    /\ reached' = reached \cup {[tool |-> Call.name, id |-> EffectiveId, effect |-> e] : e \in effects}
    /\ mutations' = mutations \cup {[tool |-> Call.name, status |-> s] : s \in requests}
    /\ pending_tool_calls' = Tail(pending_tool_calls)
    /\ UNCHANGED <<pc, steps, tool_iterations, degraded, retrieved_chunks,
                   policyVars, guardVars, answerVars>>

\* One call is done: its record, the pieces of its result, the services it reached.
Outcome(kind, status, pieces, effects, requests) ==
    /\ records' = records \cup {[tool |-> Call.name, kind |-> kind, status |-> status]}
    /\ messages' = messages \cup pieces
    /\ reached' = reached \cup {[tool |-> Call.name, id |-> EffectiveId, effect |-> e] : e \in effects}
    /\ mutations' = mutations \cup {[tool |-> Call.name, status |-> s] : s \in requests}
    /\ pending_tool_calls' = Tail(pending_tool_calls)
    /\ UNCHANGED <<pc, steps, tool_iterations, degraded, retrieved_chunks,
                   policyVars, guardVars, answerVars>>

\* Unknown, not authorized for this run or out of the caller's scope: the model is told.
CallRejected ==
    /\ pc = "act" /\ pending_tool_calls # <<>>
    /\ ~Executable
    /\ Outcome(IF Call.name \in Tools THEN Manifest[Call.name].kind ELSE "unknown", "error",
               {"tool_error"}, {}, {})

\* model_validate refuses the arguments.
ArgumentsInvalid ==
    /\ pc = "act" /\ pending_tool_calls # <<>>
    /\ Executable
    /\ Outcome(Manifest[Call.name].kind, "error", {"tool_error"}, {}, {})

_execute_search_public_faq ==
    /\ pc = "act" /\ pending_tool_calls # <<>>
    /\ Executable
    /\ Manifest[Call.name].faq
    /\ \E found \in SUBSET PublicChunks : Outcome("readonly", "ok", found, {"search"}, {})

_execute_readonly ==
    /\ pc = "act" /\ pending_tool_calls # <<>>
    /\ Executable
    /\ ~Manifest[Call.name].faq
    /\ Manifest[Call.name].kind = "readonly"
    /\ \/ Outcome("readonly", "ok", {Call.name}, {"query"}, {})
       \/ Outcome("readonly", "error", {"tool_error"}, {"query"}, {})

\* Refused by the preview, left to an approver, executed, or refused by the execution.
_execute_mutation ==
    /\ pc = "act" /\ pending_tool_calls # <<>>
    /\ Executable
    /\ ~Manifest[Call.name].faq
    /\ Manifest[Call.name].kind = "mutation"
    /\ \/ Outcome("mutation", "error", {"tool_error"}, {"preview"}, {})
       \/ Outcome("mutation", "ok", {Call.name}, {"preview"}, {"awaiting_approval"})
       \/ Outcome("mutation", "ok", {Call.name}, {"preview", "execute"}, {"executed"})
       \/ Outcome("mutation", "error", {"tool_error"}, {"preview", "execute"}, {"failed"})

act ==
    /\ pc = "act" /\ pending_tool_calls = <<>>
    /\ tool_iterations' = tool_iterations + 1
    /\ Goto("respond")
    /\ UNCHANGED <<pending_tool_calls, records, mutations, reached,
                   policyVars, guardVars, contextVars, answerVars>>

\* A call raises after it reached its service: an HTTP error the executor does not catch
\* (a timeout of the business API, retrieval down under search_public_faq).
CallRaises ==
    /\ pc = "act" /\ pending_tool_calls # <<>>
    /\ Executable
    /\ \E effects \in IF Manifest[Call.name].faq THEN {{"search"}}
                      ELSE IF Manifest[Call.name].kind = "readonly" THEN {{"query"}}
                      ELSE {{"preview"}, {"preview", "execute"}} :
          reached' = reached \cup {[tool |-> Call.name, id |-> EffectiveId, effect |-> e]
                                      : e \in effects}
    /\ pc' = "error"
    /\ UNCHANGED <<steps, pending_tool_calls, tool_iterations, records, mutations,
                   policyVars, guardVars, contextVars, answerVars>>
-----------------------------------------------------------------------------
(* output_guardrails: run_output_guardrails *)

\* The judge is only asked when there are chunks; it may also answer nothing usable.
GroundednessVerdicts == IF retrieved_chunks = {} THEN {{}} ELSE {{}, {"allow"}, {"flag"}}

scan_output_pii(text) ==
    IF "invented_pii" \in Recognized(text) THEN (text \ {"invented_pii"}) \cup {"masked"} ELSE text

restore_input_pii(text) ==
    IF pii_mapping /\ "placeholder" \in text
    THEN (text \ {"placeholder"}) \cup {"own_pii"} ELSE text

is_valid_format(text) == text # {}

\* The text that is judged: the draft, or when the draft is empty what regenerate returned.
Drafts == IF is_valid_format(output_text) THEN {output_text} ELSE Texts(messages)

DraftEvents(text, grounded) ==
    guardrail_events \cup {Event("format_validity", "allow")}
        \cup {Event("groundedness", g) : g \in grounded}
        \cup {Event("pii_leakage", "redact") : p \in text \cap {"invented_pii"}}

\* A keyword of output_policy.yaml blocks the answer, or none is there: every rule blocks.
check_policy == {{}, {Event("policy", "block")}}

OutputAllowed ==
    /\ pc = "output_guardrails"
    /\ \E text \in Drafts, grounded \in GroundednessVerdicts, objection \in check_policy :
          /\ is_valid_format(text)
          /\ ~Blocks(objection)
          /\ output_text' = restore_input_pii(scan_output_pii(text))
          /\ guardrail_events' = DraftEvents(text, grounded)
    /\ Goto("cache_write")
    /\ UNCHANGED <<citations, cache_hit, embedding, written, persisted, input_text, pii_mapping,
                   refused, policyVars, contextVars, loopVars>>

\* Still empty after the one retry, or check_policy blocks it.
OutputBlocked ==
    /\ pc = "output_guardrails"
    /\ \E text \in Drafts, grounded \in GroundednessVerdicts, objection \in check_policy :
          IF is_valid_format(text)
          THEN /\ Blocks(objection)
               /\ guardrail_events' = DraftEvents(text, grounded) \cup objection
          ELSE guardrail_events' = guardrail_events \cup {Event("format_validity", "block")}
    /\ refused' = TRUE
    /\ output_text' = {"refusal"}
    /\ citations' = {}
    /\ Goto("cache_write")
    /\ UNCHANGED <<cache_hit, embedding, written, persisted, input_text, pii_mapping,
                   policyVars, contextVars, loopVars>>
-----------------------------------------------------------------------------
(* cache_write, and run_agent after the graph *)

\* Mutant of PiiEvents: only data the model produced by itself counts.
PiiLeakedEvents == {e \in guardrail_events : e.rule = "pii_leakage"}

PiiEvents == {e \in guardrail_events : e.rule \in {"pii_redaction", "pii_leakage"}}

RecordsCacheable ==
    \A r \in records : r.tool \in Tools /\ Manifest[r.tool].cacheable

is_cacheable ==
    /\ request.agent.cacheable
    /\ ~refused
    /\ "retrieval" \notin degraded
    /\ \A e \in guardrail_events : e.action # "flag"
    /\ PiiEvents = {}
    /\ RecordsCacheable

CacheEntry == [text |-> output_text, documents |-> citations, question |-> embedding]

cache_write ==
    /\ pc = "cache_write"
    /\ written' = IF embedding # "none" /\ ~cache_hit /\ is_cacheable
                  THEN {CacheEntry} ELSE written
    /\ Goto("persist")
    /\ UNCHANGED <<output_text, citations, cache_hit, embedding, persisted,
                   policyVars, guardVars, contextVars, loopVars>>

\* audit.authz_decisions: every candidate of resolve, whether allowed or denied.
Decisions == {[tool |-> t, decision |-> IF t \in allowed_tools THEN "allow" ELSE "deny"]
                 : t \in request.agent.allowed_tools \cap Tools}

RunStatus == IF refused THEN "blocked" ELSE "succeeded"

\* The rows of the run's one transaction; each record of the state is one INSERT.
Rows == [status |-> RunStatus, events |-> guardrail_events, records |-> records,
         mutations |-> mutations, decisions |-> Decisions]

\* The CHECK on audit.tool_invocations.tool_kind refuses the record of an unknown tool.
Insertable == \A r \in records : r.kind # "unknown"

Persist ==
    /\ pc = "persist"
    /\ Insertable
    /\ persisted' = {Rows}
    /\ pc' = "answered"
    /\ UNCHANGED <<steps, output_text, citations, cache_hit, embedding, written,
                   policyVars, guardVars, contextVars, loopVars>>

\* Redis, the model router or Postgres is down, or Postgres refuses a row: the run fails
\* and its transaction, if it was open, is rolled back.
RunRaises ==
    /\ pc \in {"authorize", "cache_lookup", "respond", "output_guardrails", "cache_write",
               "persist"}
    /\ Raise("error")

\* A write of the cache entry whose answer is lost: the entry is there, the run fails.
CacheWriteRaises ==
    /\ pc = "cache_write"
    /\ embedding # "none" /\ ~cache_hit /\ is_cacheable
    /\ written' = {CacheEntry}
    /\ pc' = "error"
    /\ UNCHANGED <<steps, output_text, citations, cache_hit, embedding, persisted,
                   policyVars, guardVars, contextVars, loopVars>>

GraphRecursionError ==
    /\ pc \in Nodes
    /\ steps = RecursionLimit
    /\ Raise("recursion")

Next ==
    \/ authorize
    \/ check_input_size \/ InputBlocked \/ InputAllowed
    \/ CacheSkipped \/ EmbeddingFails \/ CacheMiss \/ CacheHit
    \/ retrieve \/ rag_guardrails
    \/ RespondWithCalls \/ RespondWithText
    \/ CallRejected \/ ArgumentsInvalid \/ _execute_search_public_faq \/ _execute_readonly
    \/ _execute_mutation \/ CallRaises \/ act
    \/ OutputAllowed \/ OutputBlocked
    \/ cache_write \/ CacheWriteRaises \/ Persist
    \/ GuardrailServiceError \/ RunRaises \/ GraphRecursionError

Spec == Init /\ [][Next]_vars
-----------------------------------------------------------------------------
(* Properties *)

\* The five sets of policy_resolver.py's docstring.
Entitled(t) ==
    /\ t \in request.agent.allowed_tools \cap Tools
    /\ Manifest[t].permissions \subseteq request.permissions
    /\ Manifest[t].kind = "readonly" \/ request.allow_mutations
    /\ t \notin disabled

\* Whatever the model asks for and however often, a call only leaves harness when the user
\* is entitled to the tool, the request allows mutations, the killswitch did not report it,
\* and its employee id is the caller's own (or one of the team, for a team scope):
\* executor.py's "second check".
OnlyAuthorizedCalls ==
    \A c \in reached :
       /\ Entitled(c.tool)
       /\ Manifest[c.tool].scope = "self" => c.id = request.employee_id /\ c.id # NoId
       /\ Manifest[c.tool].scope = "team" => c.id \in request.team \cup {request.employee_id}

\* Pieces that belong to one user: the personal data of the question, personal data the
\* model made up, and the results of tools that are not cacheable.
Personal == {"own_pii", "placeholder", "invented_pii", "masked", "refusal"}
               \cup {t \in Tools : ~Manifest[t].cacheable}

\* An answer that enters the semantic cache, where other users get it, says nothing that
\* belongs to this user and does not rest on a text a guardrail objected to: the promise of
\* cache/eligibility.py, over every way the pieces can get into the answer.
CacheIsImpersonal ==
    \A entry \in written :
       /\ entry.text # {}
       /\ entry.text \cap Personal = {}
       /\ entry.documents \cap Poisoned = {}

\* Every call of an answered run that reached another service, and every mutation it
\* executed, is among the rows the answer was committed with, whatever mixture of errors
\* and successes the loop went through; a run that fails leaves no rows (runner.py's single
\* transaction).  The answer is of this turn, whatever the checkpoint of the conversation held.
AnsweredIsRecorded ==
    /\ pc = "answered" =>
         \E p \in persisted :
            /\ p.status = "blocked" <=> output_text = {"refusal"}
            /\ output_text = {"refusal"} => \E e \in p.events : e.action = "block"
            /\ \A c \in reached : \E d \in p.decisions : d.tool = c.tool /\ d.decision = "allow"
            /\ \A c \in reached :
                  /\ \E r \in p.records : r.tool = c.tool
                  /\ c.effect = "execute" =>
                        \E m \in p.mutations : m.tool = c.tool /\ m.status \in {"executed", "failed"}
    /\ pc = "answered" => "earlier_answer" \notin output_text
    /\ pc \in Failures => persisted = {}

Passed(rule) == \E e \in guardrail_events : e.rule = rule /\ e.action # "block"

\* Guardrails do not fail open: an answer was let through by the input checks and, unless
\* it comes from the cache, by the output checks, or it is a refusal one of them asked for,
\* without citations (errors.py's hard rule).  A chunk that matches an injection pattern
\* reaches neither the prompt nor the citations (build.py's rag_guardrails); the chunks
\* search_public_faq finds are not scanned, so a run that called it is excepted for the prompt.
GuardrailsRan ==
    /\ pc = "answered" =>
         IF refused THEN citations = {} /\ \E e \in guardrail_events : e.action = "block"
         ELSE /\ Passed("input_size") /\ Passed("prompt_injection")
              /\ request.agent.described => Passed("off_topic")
              /\ ~cache_hit => Passed("format_validity")
    /\ citations \cap Poisoned = {}
    /\ messages \cap Poisoned # {} => \E r \in records : r.tool \in Tools /\ Manifest[r.tool].faq
=============================================================================
