# TLA+ models of the agent platform

This directory holds TLA+ models of the reference agent platform under `src/`: the
parts whose correctness depends on interleavings, crashes, retries and timeouts, with
TLC configurations that check them on small instances and TLAPS proofs of their most
important invariants for every instance.

## 1. The system

A tenant's request enters through Kong and **gateway** (FastAPI, several instances).
Gateway verifies the JWT, claims the request's Idempotency-Key in Postgres, reserves
tokens in Redis and then either calls **harness** (sync: `invoke`) or inserts a job row
and publishes it to RabbitMQ (async: `submit_job`). **async-worker** consumes the jobs,
claims each row, calls harness, settles the reservation, records the outcome, sends the
tenant a signed webhook, retries failures with a backoff and dead-letters the rest.
Harness runs the agent graph (LangGraph): authorization, input guardrails, semantic
cache, **retrieval**, the model/tool loop, output guardrails, cache write; afterwards one
transaction records the run and its audit rows. A mutating tool call goes to the
**business API** as preview then execute; a high-risk one waits for a human decision
(`decide_approval`). **ingestion** keeps the document catalogue in step with its source
and tells harness which cached answers to drop. **eval** runs the golden set against gateway and gates releases against a baseline;
**mock-idp** logs users in and exchanges their tokens for mutations.

### Inventory

| Component | State | Operations | Hard behaviour | What makes it correct |
|---|---|---|---|---|
| Async jobs (`async-worker`) | `jobs.async_jobs` rows, queue / retry queue / DLQ, unacknowledged deliveries, harness runs nobody waits for | receive, `try_claim_job`, harness call, reconcile, `mark_*`, webhook, retry, DLQ, ack | redelivery and duplicates, crash between any two awaits, lost connection, timeout of a call that goes on, exceptions | one attempt at a time; success only for a persisted run; no waiting job without message; bounded attempts; every job ends |
| Gateway endpoints | `jobs.idempotency_keys`, reservation, job row, message | `try_begin`, `get_existing`, reserve, call / insert+publish, reconcile, `complete` | retries racing on several instances, deaths between steps | one piece of work per key; all successes under a key agree; keys complete |
| Token quota | Redis window counter, reservation entries with TTL | reserve, reconcile, sweep (Lua), key expiry | several sweepers with stale clocks, late settlement, window change | counter equals what is owed; budget bounded; live reservations stay; nothing leaks |
| Mutations and approvals, business API | audit rows, row locks, preview tokens, idempotency records, balances | preview, execute, persist, decide (claim, execute, record), restart, reset | concurrent deciders, HTTP call inside a transaction, timeouts, restart of an in-memory service | at most one effect; only after a legitimate approval; the row tells the truth; decisions final and answered |
| Agent graph | `AgentState`, checkpoint of the conversation, run and audit rows | nine nodes, `run_agent` | model output is arbitrary, each dependency may fail, fields inherited from an earlier turn | only authorized tools run; nothing personal is cached; what is answered is recorded and passed every guardrail |
| Authorization, killswitch | manifests, profiles, Redis flags, 10 s in-process caches, `authz.tool_overrides` | `resolve`, `_is_disabled`, admin endpoints | answers stored after an await, concurrent flips, two stores | a killed tool stops within the cache TTL; table and Redis agree after a clean flip |
| Identity provider, token checks | user directory, tokens | login, impersonation, `authenticate`, token exchange, the business API's `authorize` | long waits between the checks, reloaded directories | nobody acts on authority older than an exchanged token |
| Guardrails | none | input, chunk and output checks | classifier outage | fail closed |
| Semantic cache | RediSearch entries with TTL | lookup, write, invalidate | write after invalidation, paging | no stale answers; no sharing across ACLs |
| Ingestion, retrieval | `catalog.documents`, `catalog.chunks` | load, per-document transaction, tombstone, invalidate; search | concurrent runs, failed documents | chunks match their document; a failed document keeps its old version |
| Evaluation | golden set, `eval.runs`, baseline flag, `eval.baseline_changes`, report files | `sync_golden_set`, run, verdict, promotion, nightly sample | concurrent gates, items that fail, shared tags | a baseline is clean and was not regressed to; the sample keeps its quotas |
| Contracts, migrations, configuration | static | | | |

`PROJECT.json` lists every component with the files it consists of, and the hazards with
the line at which each bites.

## 2. The modules

| Module | Models | Composed with |
|---|---|---|
| `JobContract` | what an async job promises its tenant: status, attempts, runs and webhook | the abstract specification `AsyncJobs` implements |
| `AsyncJobs` | gateway's `submit_job`, RabbitMQ, the worker's `_handle`/`process_job`, harness as seen by the worker | instantiates `JobContract` |
| `Gateway` | `invoke` and `submit_job` under an Idempotency-Key, over several instances | |
| `Quota` | the three Lua scripts, the sweepers, key expiry | |
| `Mutations` | preview/execute in a run, `decide_approval`, the business API | |
| `AgentRun` | the nine nodes of the agent graph and the transaction of `run_agent` | |
| `Catalog` | ingestion runs, hybrid search, the semantic cache and its invalidation | |
| `Access` | mock-idp, gateway's `authenticate` and admin endpoints, the killswitch and its cache, token exchange, the business API's checks | |
| `EvalGate` | the golden set and its sampling, evaluation runs, the verdict, promotion of baselines | |

`MC*` modules give the constants values; `*Proofs` modules hold the theorems. An
operator whose comment starts with "Mutant of" is a plausible wrong version of the
definition named there; `PROJECT.json` pairs it with the property that notices.

### AsyncJobs

State: the job row (`status`, `attempts`, `callback`), the reservation, the broker
(`queue` and `holding`, bags of messages; `dlq`), one record per delivery a handler
holds (`pc` is the statement `process_job` or `_handle` runs next, `owned` says whether
the broker still counts the delivery as unacknowledged), the agent run as harness
committed it, and harness calls whose caller has gone (`abandoned`). Every await of the
worker is a step of its own: `Receive`, `try_claim_job`, the harness call with its four
outcomes (`HarnessSucceeds`, `HarnessRunsAgain`, `HarnessFails`, `HarnessTimesOut`),
`reconcile`, `mark_job_*`, `SendWebhook`, `update_job_callback_status`,
`_schedule_retry`, `_publish_to_dlq`, `Ack`. `ProcessJobRaises` is the `except
Exception` of `_handle`. `WorkerCrash` and `ConnectionLost` return the message to the
queue; after a lost connection the old handler runs on with a delivery it no longer
owns. A run whose caller timed out ends later (`AbandonedRunEnds`) and may then commit.

`JobContract` says: a job is claimed by one attempt at a time and at most `MaxAttempts`
times, its agent runs at most once per attempt (a run may end long after its caller gave
up), a failed attempt may be tried again or given up, `succeeded` and `dead_lettered` are
final, and a webhook only reports the terminal status the row has. The refinement maps
`runs` to the completed runs (`effects`) and `MaxAttempts` to `MAX_ATTEMPTS` retries after
the first attempt plus one per crash: the redelivery of a message whose worker crashed
between `mark_job_failed_will_retry` and the publication of the retry claims once more.

### Gateway

One record per HTTP request, a row per key. `BeginWon` and `BeginLost` are the two
outcomes of `try_begin`'s INSERT; `ExistingVerdict` is `get_existing` with the replay,
the 409 (for a key in use and for another body alike); then `Reserve`, `CallHarness`, `Reconcile` or `InsertJob`,
`PublishJob`, and `Complete`, `Reply`. `RequestDies` stops a request between any two.

### Quota

One window counter with its end (`key`, `keyEnd`, `counter`), one reservation per run
(`est`, `deadline`, `fate`), a snapshot of the clock per sweeper, a clock. Each Lua script
is one step, because Redis runs it as one. The counter survives or expires as Redis keys
do: a settlement after the end of the window creates a counter without expiry. An estimate
is any integer: it contains the client's `max_output_tokens`, which nothing bounds, so it may
be negative or above the limit. A negative one lowers the counter; `TokenBudget` refuses it
only after the reservation (`BudgetAccepted`), so its caller never settles it and a sweeper
charges it back later.

### Mutations

The run that previews and, for medium risk, executes; the audit row; a record per
decision request, whose transaction holds the row lock during its HTTP call
(`HoldsRow`); the business API with single-use preview tokens, idempotency records and
the balance, all in memory (`Restart`, `reset`). A timed-out call is carried out later or
never. The history variable `basis` records which effects a preview had seen, because
`execute` never looks at the balance again.

### AgentRun

One run, a node per step (`authorize`, the outcomes of `input_guardrails`, of
`cache_lookup`, `retrieve`, `rag_guardrails`, `respond`, of `act`, of
`output_guardrails`, `cache_write`, `Persist`). `act` is one step per tool call. A text is
the set of pieces of information in it, so redaction, restoration, masking and caching
can be followed without strings: `redact_input_pii` exchanges `"own_pii"` for
`"placeholder"`, `restore_input_pii` the reverse, `scan_output_pii` masks what the model
invented, the result of a tool is a piece with the tool's name. The model may say any
subset of its prompt, call any tool of the deployment or one that does not exist, with
any employee id. What a classifier decides is arbitrary: `check_input_injection`,
`check_offtopic`, `check_policy` and `GroundednessVerdicts` are the sets of the verdicts
each may return. `KillswitchReports` is any set of tools. `Rows` is what the run's one
transaction inserts: the run, its guardrail events, tool calls, mutation requests and
authorization decisions. Exceptions end the run at the nodes that can raise them. A run
may be the first turn of a conversation or a later one: `Inherited` gives it the answer and
the question's embedding that the checkpoint of an earlier turn left, the two fields
`run_agent` does not set and whose default is None.

### Catalog

Files, `catalog.documents`, `catalog.chunks` as committed, the row lock of each
document, ingestion runs (`ReadHash`, `upsert_document`, `CommitDocument`,
`SelectMissing`, `TombstoneOne`, `CommitRun`, then the invalidation as `FindEntries` and
`DeleteEntries`), agent runs that look up, search, and write (`WriteEntry` is HSET,
`SetExpiry` is EXPIRE), and the cache entries. Postgres runs at READ COMMITTED: steps
read what is committed, row locks last to the end of the transaction, and two
transactions that wait for each other's rows are resolved by `DeadlockDetected`. A document
that fails ends its run (`DocumentFails`): the handler's `insert_ingestion_error` names a run
whose row is not there yet, and the foreign key refuses it. An invalidation looks at
`PageSize` entries (1000 in the code) of those that cite a changed document, in no particular
order (`Pages`). History variables (`missed`, `raced`, `beyond`, `fresh`) record why an entry
is stale and whether a run was disturbed.

### Access

The authority of one tool call, followed from `Login` over `authenticate`, `resolve` and
`token_exchange` to the business API's `preview`. Time may pass between any two steps: a
job waits in its queue, a model takes its time. The check of a killswitch is `CacheAnswers`,
or `AskRedis`, `RedisGet` and `Resume`: the code reads the time, awaits Redis and stores the
answer under the time it began, and runs of one process share the cache. A flip is
`WriteFlag` (Redis), then for a tool `upsert_tool_override` (Postgres); `FlipDies`,
`RedisLosesFlip`, `ProcessRestarts` and `EditSeed` are the mishaps. `IdpLoads` and `ApiLoads`
are the two services reading the seed file again. A token is its expiry and its claim.
History: `offAt` and `knownAt` say when a key was last off and a user last known,
`disturbed` which tools' last flip did not run alone.

### EvalGate

Sessions share the golden set, `eval.runs`, the report files and the baseline. A session is
a pipeline (`sync_golden_set`, `run_item` for each item in any order, `Gathered`,
`insert_run`, `WriteRunId`, then the gate) or a gate by hand. What running an item may come to
is `Outcomes`; aggregates, medians and verdict are operators over the results, with scores in
percent. `bootstrap_ci` is a sampled interval: its upper bound lies between the least and the
greatest delta, so the verdict may or must be a regression (`MayHaveRegressed`,
`MustHaveRegressed`), and `compute_verdict` takes any answer between. The promotion is three statements
of a READ COMMITTED transaction: `ClearBaseline` (or `ClearWaits` and `ClearResumes`, when
another gate holds the row), `SetBaseline` against the partial unique index, and
`RecordChange`. `stratified_sample` is a fold over the tags (`TagByTag`), checked against its
docstring on every small golden set, and proved for all.

## 3. The runs

All runs finish within five minutes on two cores. Deadlock checking is off: in every
module a system whose bounded work is done may stop.

| Run | Instance | Distinct states | Properties |
|---|---|---|---|
| `jobs_faults` | 1 job, 3 deliveries, every fault once, anywhere | 3.5 M | `TypeOK`, `AttemptsExclusive`, `SuccessIsCommitted`, `WaitingJobHasMessage` |
| `jobs_contract` | 1 job, 2 deliveries, `MAX_ATTEMPTS` 2, a crash, fair | 74 k | `FollowsContract`, `JobResolves` |
| `jobs_lost` | one crash | | violates `NothingLost` |
| `quota_ledger` | 3 runs with estimates 3 or -3, limit 5, 2 sweepers, clock to 4 | 2.3 M | `TypeOK`, `LedgerBalanced`, `SpendBounded`, `LiveReservationHeld`, `NothingLeaks` |
| `gateway_race` | 5 requests with one key, two bodies, both endpoints, 2 deaths, fair | 2.5 k | `TypeOK`, `OneWorkPerKey`, `RepliesAgree`, `KeyCompletes` |
| `gateway_retry` | 4 requests, no deaths | | violates `CleanReattempt` |
| `mutations_race` | 2 mutations, several deciders, 1 restart or reset, fair | 567 k | `TypeOK`, `ExecutedAtMostOnce`, `EffectNeedsApproval`, `RowTellsTruth`, `OverdraftNeedsRace`, `DecidedIsFinal`, `DecisionAnswered` |
| `mutations_audit` | no restart | | violates `AuditComplete` |
| `agent_run` | 3 requests to agents with 2 or 3 of 3 tools, first or later turn, an unknown tool, 2 employees, a poisoned chunk | 4.0 M | `TypeOK`, `OnlyAuthorizedCalls`, `CacheIsImpersonal`, `AnsweredIsRecorded`, `GuardrailsRan` |
| `catalog_race` | 2 documents of different groups, 2 ingestion runs, 2 users, 1 edit, 1 fault, 2 questions, pages of 1 entry | 3.3 M | `TypeOK`, `CatalogConsistent`, `RunConverges`, `StaleIsExcused`, `AclRespected` |
| `access` | 2 runs of one process, 2 flips (a tool off and on, or an agent off and one forbidden), 1 mishap, clock to 2 | 4.9 M | `TypeOK`, `LastCleanFlipWins`, `KillTakesEffect`, `TokensAreBrief` |
| `eval_gate` | full and smoke pipeline and a gate by hand, all promoting, 2 items, 7 outcomes, 1 edit; golden sets to 4 items | 628 k | `TypeOK`, `BaselineRatchets`, `BaselineIsClean`, `SampleKeepsQuota` |

Why the bounds are enough. Jobs do not share state except the broker, so one job with
three deliveries (an original, a redelivery and a retry) holds every overlap of
handlers; two attempts reach both the retry and the dead-letter branch. In Quota two
estimates of 3 do not fit a limit of 5 unless an estimate of -3 was granted before them, a
run may use 4, more than its estimate, or nothing; windows of 2 ticks within a clock of 4 let
a reservation outlive its window, and two sweepers race on one entry. Five
requests under one key are an original, a concurrent retry with the same body, one with
another body, a late retry, and one that goes to the other endpoint; two deaths let the
winner and a retry die. The agent run has one call per answer and one piece per text:
calls accumulate over the iterations, and no guard looks at more than one call or piece.
`RecursionLimit` is 12 instead of LangGraph's 25: the smallest value with which a run
with `MAX_TOOL_ITERATIONS` can finish, and enough for a model that ignores the bound to
be stopped. The catalogue starts with both documents ingested and both files there or both
missing (`Sources`), so that both runs may tombstone both rows (the deadlock), and with
one edit a document can change, vanish or return; two questions make two cached answers,
one more than a page holds. In Access the two runs share a process
and an agent key, so that one's late answer meets the other's fresh one; the TTLs (2 for
cache and login, 1 for an exchanged token) and a clock to 2 let each of them expire between
two steps. The proofs cover longer clocks and more runs. Three sessions are enough for one
gate to promote while a second waits for its row and for a third to have been the baseline
before; two items make a median of two and a regression on one item of two; the outcomes are an
error, a leak, an unsafe mutation, a failed judge, and scores that are good, worse and below
the floor.

### What the violating runs show

* `jobs_lost` - a worker that dies after `try_claim_job` leaves the row `running`;
  the redelivered message is acknowledged as claimed by somebody else, and the job is
  never run again.
* `gateway_retry` - a retry of a request that failed replays the stored error body
  through the success model and ends in a 500.
* `mutations_audit` - a run or decision that is lost after the business API executed
  leaves an effect that no audit row records as executed.

The findings in `PROJECT.json` quote the lines of the repository they disagree with.

### Observations without a run

Met while translating the code, visible in the models, and not stated as a property:

* `act` never refuses: when no tools are offered any more, a model that calls tools
  nevertheless is served until LangGraph's own limit ends the run with an error, although
  `build.py` calls `MAX_TOOL_ITERATIONS` "a hard ceiling" (line 59) and says `act` "would
  just refuse" (line 270).
* The record of a call to an unknown tool has `tool_kind = "unknown"`, which the CHECK of
  migration 0003 refuses: the run recovers from the call and then fails to be recorded.
* `search_public_faq` does not catch HTTP errors, so retrieval being down fails the run.
  The chunks it returns are neither scanned for injections nor among the cited documents.
* `retrieve` replaces `degraded`, which drops the mark `semantic_cache` set before.
* A changed `acl_group_ids` in a document's front matter does not change its
  `content_hash`, so ingestion skips it.
* The graph is compiled with a Postgres checkpointer keyed by the conversation, so the
  whole state, `pii_mapping` included, is stored after each node; `state.py` says the
  mapping "never leaves this process".
* When the embedding call of a turn fails, `cache_query_embedding` keeps the value of an
  earlier turn of the conversation, and `cache_write` stores this turn's answer under the
  earlier question.
* A reservation settled after its window expired applies its delta to the next window's
  counter, which can then be below zero and admit more than the limit, and which has no
  expiry until a reservation is accepted on it (`SpendBounded` counts what was carried over).
* `RunOptions.max_output_tokens` is an unbounded integer (`contracts/agent.py` line 25) and
  `estimate_tokens` adds it unchecked (`quota.py` lines 113-114). A negative estimate passes
  the limit test and lowers the counter; the `TokenBudget` that refuses it is built after the
  reservation (`routes.py` lines 155 and 312). Until the sweeper charges it back, other runs
  of the tenant are admitted beyond the limit. `SpendBounded` says by how much at most;
  without its term `Lowered` the run `quota_ledger` violates it in a few steps.
* `invalidate_by_documents` "Deletes every entry whose citations included any of the given
  document_ids" (`store.py` lines 159-161), but reads one page of 1000 (line 168) and does not
  look again: the entries beyond it stay until their TTL. `StaleIsExcused` has the full page
  among its excuses; without it the run `catalog_race` violates it.
* One document that fails stops the ingestion run. `SPEC.md` line 388, `pipeline.py` lines 1-2
  and 98 and migration 0010 say it must not, and have the error recorded. But the row of
  `ingestion_errors` refers to the row of its run (migration 0010, line 37), which is inserted
  at the end (`pipeline.py` line 117): recording the error raises out of the handler. The
  status `completed_with_errors` is never reached, and what the run had committed is never
  announced to the cache.
* HSET and EXPIRE of a cache entry are two commands; a process that dies between them leaves
  an entry that never expires, although the TTL is the backstop for a missed invalidation.
* `authz.tool_overrides` is written and never read: a Redis that lost its keys enables every
  tool again while the table says disabled.
* Two gates that promote at once are serialised by the row lock and the unique index, but
  the second was compared with, and records as `from_run_id`, a baseline that is no longer
  one; or it fails on the index. Gating the same run twice may give different verdicts.
* A run whose judge failed throughout has no medians, passes the judged part of the gate
  vacuously, and becomes a baseline with which nothing can be compared. An empty golden set
  passes too.
* Only the first of the k responses of an item is scored deterministically. An httpx error
  while running an item is no `GatewayError` and aborts the whole run.
* `sync_golden_set` upserts and never deletes: an item that left the file is still run.
* The evaluation client repeats a 503 under the same Idempotency-Key, so gateway replays the
  stored error instead of trying again (the case of `gateway_retry`).

## 4. Fairness

* `AsyncJobs`: weak fairness of the steps of a handler, of the submitting request, of
  abandoned runs and of message expiry. The event loop runs every task, HTTP clients have
  timeouts, RabbitMQ delivers and expires messages. Faults are never forced. A harness
  call always ends, in one of four ways.
* `Gateway`: weak fairness of a live request's handler, for the same reasons.
* `Mutations`: weak fairness of a decision's handler; nothing is assumed of the business
  API, the client timeout is what ends its calls.
* `Quota`, `AgentRun`, `Catalog`, `Access` and `EvalGate` are checked for safety only. That a sweeper keeps its
  schedule is not fairness but a case of the model (`sweeping = "on_schedule"`).

Liveness properties excuse what the code has no answer to: `KeyCompletes` a request that
died, `JobResolves` a crash.

## 5. The proofs

Every safety property a passing run checks is also a theorem, for all constants that satisfy
the named assumptions of its module (`SomeJob`, `MaxAttemptsNat`, `CallbackJobs`,
`CrashPointsOK`, `BudgetOK`; `RequestsOK`, `BodiesOK`; `QuotaConstants`; `MutationConstants`;
`ManifestOK`, `PiecesOK`, `LimitsOK`; `CatalogConstants`; `AccessConstants`; `EvalConstants`).
The assumptions are typing of the constants (an estimate is any integer, a page of the
invalidation any natural number), that there is a job, that the runs of the quota
and the tags of the golden set are finitely many, that the recursion limit lets a run finish,
and that names which stand for nothing, or for two kinds of things, are not used as ids.

Two theorems have a hypothesis of their own:

* `JobsFollowContract` assumes that nothing duplicates a message (`Undisturbed`: no lost
  connection, no crash between the publication of a retry and the ack). With a duplicate the
  refinement is false: a handler about to write `dead_lettered` may write it over the row
  that a second handler, with the duplicate, has claimed and is running. TLC finds this in a
  dozen steps when either part of the hypothesis is dropped; the run `jobs_contract` has the
  same restriction. The other theorems about jobs hold with duplicates.
* `ScheduledSweepsLeakNothing` assumes `SweepPeriod < Grace` (30 s and 60 s in the
  configuration). With a longer period an entry can expire between two sweeps, and its
  estimate stays in the counter.

| Theorem | States | Inductive invariant and why it is needed |
|---|---|---|
| `AsyncJobsProofs!TypeCorrect` | `[]TypeOK` | `TypeOK`; the placeholder of an idle handler must be a message |
| `AsyncJobsProofs!AttemptsAreExclusive` | `[]AttemptsExclusive` | `AttemptInv`: a handler inside an attempt holds its row in `running` (`AttemptHoldsRow`), so a second one cannot pass `try_claim_job`; and messages only exist for inserted rows (`OnlyPublished`), so no insert resets such a row |
| `AsyncJobsProofs!SuccessMeansCommitted` | `[]SuccessIsCommitted` | `CommitInv`: a handler between the 200 of harness and the terminal write already has a committed run (`SuccessPath`) |
| `AsyncJobsProofs!WaitingJobsHaveMessages` | `[]WaitingJobHasMessage` | `WaitingInv`: the broker still has the message of every busy handler (`BrokerKeeps`), who reports a success leaves nobody in an attempt who could make the row wait again (`SuccessSettles`), and retries are scheduled only while attempts are left |
| `AsyncJobsProofs!JobsFollowContract` | `FollowsContract` | `ContractInv`: a job has at most one message or handler that can still act on it, so the row's status is a function of where that handler is, and attempts are counted by the retries and crashes so far. Every step is then a step of `JobContract` or a stutter |
| `GatewayProofs!KeyedWorkIsUnique` | `[]OneWorkPerKey` | `OwnsKey`: whoever is past `try_begin`, or has started work, is the winner of its key |
| `GatewayProofs!RepliesAlwaysAgree` | `[]RepliesAgree` | `GatewayInv`: adds that a stored or pending success is backed by work of its winner, and that answers come from the winner of the key with the same body |
| `GatewayProofs!GatewayTyped`, `QuotaProofs!QuotaTyped`, `MutationsProofs!MutationsTyped`, `AccessProofs!AccessTyped` | `[]TypeOK` | `TypeOK` is inductive |
| `QuotaProofs!ReservationsOutliveCallers` | `[]LiveReservationHeld` | `DeadlineInv`: a sweeper's snapshot is never ahead of the clock |
| `QuotaProofs!ScheduledSweepsLeakNothing` | `[]NothingLeaks` | `LeakInv`: a pass leaves behind only what was not overdue when it began (`PassIsThorough`); with a pass in every period nothing overdue then reaches its TTL |
| `QuotaProofs!CounterIsSumOfRuns` | `[]LedgerBalanced` | `LedgerInv`: the balance together with the windows each run was granted and settled in (`WindowInv`), without which a late settlement could not be attributed |
| `QuotaProofs!WindowSpendIsBounded` | `[]SpendBounded` | `SpendInv`: what was spent, the counter, what was credited (`Credit`: negative estimates of the window and late settlements) and what was charged without letting anything through (`Repaid`) are four sums, related by the balance; the limit test bounds the counter only at a grant |
| `MutationsProofs!MutationsHappenOnce` | `[]ExecutedAtMostOnce` | `TokenInv`: a token is live only after a preview and while there has been no effect |
| `MutationsProofs!DecisionsAreFinal` | `DecidedIsFinal` | `DecisionInv`: who holds the row's lock has an undecided row, and rows appear when the run ends |
| `MutationsProofs!OverdraftsAreRaces` | `[]OverdraftNeedsRace` | `BalanceInv`: every mutation that passed its preview and has not taken effect is covered by the balance or was overtaken by an effect it did not see; only such mutations are ever sent to `execute`, which needs where the run, the row and the call of each are |
| `MutationsProofs!EffectsAreApproved` | `[]EffectNeedsApproval` | `ApprovalInv`: the run defers what is of high risk, a decision claims only a row it may decide, and only an approving claimant sends; calls that outlive their caller carry this with them |
| `MutationsProofs!RowsTellTruth` | `[]RowTellsTruth` | `TruthInv`: wherever "executed" is on its way - the idempotency store, an HTTP answer, a run's memory - the effect came first, and a final status that was read is still the row's |
| `AccessProofs!KillsTakeEffect` | `KillTakesEffect` | `KillInv`: an answer "enabled", on its way or in the cache, was true at or after the time it is stored under. That time is read before the await, which is what makes it true |
| `AccessProofs!MutationsAreCurrent` | `TokensAreBrief` | `TokenInv`: an exchanged token outlives neither the identity provider's knowledge of the user nor the login token by more than its TTL |
| `AccessProofs!RecordFollowsRedis` | `[]LastCleanFlipWins` | `FlipInv`: a flip between its writes that nobody disturbed is alone and finds its own value in Redis |
| `AgentRunProofs!CallsAreAuthorized` | `[]OnlyAuthorizedCalls` | `AuthInv`: `act` compares with `allowed_tools` only, so that set must stay within what `resolve` answered, and nothing is called before `authorize` |
| `AgentRunProofs!RunTyped` | `[]TypeOK` | inductive once the pieces of a text are known to be of one kind each |
| `AgentRunProofs!AnswersAreRecorded` | `[]AnsweredIsRecorded` | `RecordInv` and `AnswerInv`: at every node the state already holds a record of each call that left, and an inherited answer is replaced before a node can return it |
| `AgentRunProofs!GuardrailsAlwaysRun` | `[]GuardrailsRan` | `GuardInv`: which checks lie behind each node, and that chunks in the state are scanned ones from `rag_guardrails` on |
| `AgentRunProofs!CacheStaysImpersonal` | `[]CacheIsImpersonal` | the same, and that `cache_write` refuses an answer with a record of anything personal in the prompt |
| `CatalogProofs!CatalogTyped` | `[]TypeOK` | `Typed`: with what a run has loaded at each of its stages |
| `CatalogProofs!CatalogStaysConsistent` | `[]CatalogConsistent` | `StoreInv`: a run inside a document's transaction holds its lock, and the chunks it will delete are all the document has; so no other run can change either |
| `CatalogProofs!AclIsRespected` | `[]AclRespected` | `NamespaceKeepsAcl`: an entry's namespace is the groups of who searched, and what was found is visible to them |
| `CatalogProofs!StaleAnswersAreExcused` | `[]StaleIsExcused` | `ExcuseInv`: the same excuse for the answer of a run that has searched and not yet written, which is where stale entries come from; and a run that has found its page is an excuse for the entries on it only |
| `CatalogProofs!FreshRunsConverge` | `[]RunConverges` | `ConvergeInv`: a fresh run's files are the source, what it has finished is stored as they say, and what it has not is still to do; a failed document ends the run, so a run that came to its end did them all |
| `EvalGateProofs!EvalTyped` | `[]TypeOK` | `SessionInv`: how far a session has come says what it selected, ran, stored and judged |
| `EvalGateProofs!BaselineNeverFalls`, `EvalGateProofs!BaselinesAreClean` | `[]BaselineRatchets`, `[]BaselineIsClean` | `GateInv`: a stored run's results are final, a gate that is promoting has judged its run by them, and by the present baseline unless it was raced |
| `EvalGateProofs!SampleIsStratified`, `EvalGateProofs!SamplesKeepQuota` | the docstring of `stratified_sample` for every finite golden set, tagging, quota and size; `[]SampleKeepsQuota` | `Kept`, by induction over the tags: what a tag takes is new and all of its quota unless its items run out, so the quotas of unfinished tags add up |

Every proof that a step keeps an invariant has one step per action of `Next`, or per shape of
actions that change the same state (the `...Shape` lemmas say what an action does to the state
its neighbours look at). The strengthened invariants that are defined in the components'
modules were checked with TLC on the instances of section 3 before they were proved.

**Sums and folds.** The library's induction theorems take the property as an operator, which
the provers cannot instantiate. The proofs go around that in two ways. A sum over the runs or
items (`SumFunction` of the community modules) is counted: `f[r]` is a pile of `f[r]` tokens,
the sum is the number of tokens, or a difference of two such numbers when there are negative
summands, and what a step does to a sum follows from facts about cardinalities. The function
behind the sum is shown to be that count by a least subset of the index set at which the two
differ. For the sampler, induction is stated about a *set* of good sets (`SubsetInduction`),
which can be instantiated; the recursive function behind `TagByTag` is shown to exist by
extending one for the tags before the last.

Only model-checked: the liveness properties `JobResolves`, `KeyCompletes` and
`DecisionAnswered` (fairness is out of the prover's reach) and what the three violating runs
show. `TwiceMedian` is opaque to the proofs: that a baseline's medians are above the floor is
proved, that they are medians is by definition (a sort).

## 6. Not modelled

Signatures and key sets of tokens (a token is taken for genuine), the six deterministic
metrics and the judge of the evaluation (what they return is data; the bootstrap is any bound
its deltas allow), the nightly sample, the reports and the cache of judge answers, ranking,
chunking and embeddings (data), tracing and metrics, start-up of the services, contracts,
configuration and migrations except for the constraints the actions use. A change of
`acl_group_ids` alone: groups are fixed per document. Several tenants appear nowhere: every
table and key is qualified by the tenant, and row-level security is Postgres's.

## 7. Plan

Done first because failures there lose or duplicate work: jobs, gateway, quota,
mutations; then the agent graph and the catalogue; then the authority of a call and the
evaluation gate; then the proofs of all their safety properties. Next, in this order:

1. A composition of gateway, quota and jobs, so that the reservation of a job is the
   same entry in all three.
2. Groups of a document that change with its front matter.
3. Proofs: what remains of `JobContract` with duplicated messages (a weaker contract, whose
   attempts are not counted), and the steps on which the liveness properties rest: what each
   fair action leads to, and that it stays possible until then.
