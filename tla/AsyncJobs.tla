------------------------------ MODULE AsyncJobs ------------------------------
(***************************************************************************)
(* The asynchronous job path: the tail of gateway's submit_job, the        *)
(* RabbitMQ queues of topology.py, and async-worker's consumer.py and      *)
(* processor.py acting on the jobs.async_jobs table.                       *)
(*                                                                         *)
(* A handler is one running _handle coroutine (worker processes times      *)
(* their prefetch count).  Every await of _handle and process_job that     *)
(* reads or writes shared state is one step, so two handlers interleave    *)
(* wherever the coroutines, or two worker processes, can.                  *)
(*                                                                         *)
(* Faults are budgeted by the constant Budget:                             *)
(*   crash    a worker dies (or a publish in _handle raises) and its       *)
(*            unacknowledged message is delivered again; only at the       *)
(*            program points in CrashPoints;                               *)
(*   loss     the broker connection drops while the coroutine lives on:    *)
(*            the message is delivered again and the later ack is void;    *)
(*   error    process_job raises something other than HarnessError;        *)
(*   timeout  the call to harness times out while the run goes on there.   *)
(***************************************************************************)
EXTENDS Naturals, FiniteSets

CONSTANTS
    Jobs,          \* job ids
    Handlers,      \* concurrent deliveries the worker fleet can hold
    WithCallback,  \* the jobs submitted with a callback_url
    MAX_ATTEMPTS,  \* contracts.jobs.MAX_ATTEMPTS
    CrashPoints,   \* program points at which a handler may die
    Budget         \* [FaultKinds -> Nat], how often each fault may happen

FaultKinds == {"crash", "loss", "error", "timeout"}

PCs == {"idle", "claim", "call", "reconcile", "mark_succeeded", "mark_failed",
        "mark_dead", "webhook", "callback", "retry", "dlq", "ack"}

ASSUME SomeJob == Jobs # {}
ASSUME MaxAttemptsNat == MAX_ATTEMPTS \in Nat
ASSUME CallbackJobs == WithCallback \subseteq Jobs
ASSUME CrashPointsOK == CrashPoints \subseteq PCs \ {"idle"}
ASSUME BudgetOK == Budget \in [FaultKinds -> Nat]

VARIABLES
    submit,       \* progress of submit_job for the job
    status,       \* jobs.async_jobs.status ("absent": no row)
    attempts,     \* jobs.async_jobs.attempts
    callback,     \* jobs.async_jobs.callback_status
    reservation,  \* the async-pool reservation of the job
    queue,        \* messages ready in agent.jobs.standard / agent.jobs.bulk
    holding,      \* messages waiting out their backoff in the retry queue
    dlq,          \* jobs with a message in agent.jobs.dlq
    pc, msg, result,     \* one _handle coroutine: program point, message, verdict,
    delivered, owned,    \* webhook result, whether the broker awaits its ack
    committed,    \* jobs whose run has its conversation.agent_runs row
    effects,      \* how often the job's agent graph ran to its end
    abandoned,    \* harness runs of the job whose caller has gone
    notified,     \* the terminal statuses the tenant's webhook was sent
    faults        \* how often each fault has happened

jobVars == <<status, attempts, callback>>
brokerVars == <<queue, holding, dlq>>
handlerVars == <<pc, msg, result, delivered, owned>>
harnessVars == <<committed, effects, abandoned>>
vars == <<submit, jobVars, reservation, brokerVars, handlerVars, harnessVars,
          notified, faults>>

Messages == [job : Jobs, attempts : 0..MAX_ATTEMPTS]
Placeholder == CHOOSE m \in Messages : TRUE
NoMessages == [m \in Messages |-> 0]
Statuses == {"absent", "queued", "running", "failed", "succeeded", "dead_lettered"}
Terminal == {"succeeded", "dead_lettered"}
Results == {"none", "fatal", "retriable", "succeeded", "dead_lettered", "error"}

TypeOK ==
    /\ submit \in [Jobs -> {"idle", "reserved", "inserted", "published", "lost"}]
    /\ status \in [Jobs -> Statuses]
    /\ attempts \in [Jobs -> Nat]
    /\ callback \in [Jobs -> {"none", "delivered", "webhook_failed"}]
    /\ reservation \in [Jobs -> {"none", "held", "reconciled", "swept"}]
    /\ queue \in [Messages -> Nat]
    /\ holding \in [Messages -> Nat]
    /\ dlq \subseteq Jobs
    /\ pc \in [Handlers -> PCs]
    /\ msg \in [Handlers -> Messages]
    /\ result \in [Handlers -> Results]
    /\ \A h \in Handlers : pc[h] \in {"webhook", "callback"} => result[h] \in Terminal
    /\ delivered \in [Handlers -> BOOLEAN]
    /\ owned \in [Handlers -> BOOLEAN]
    /\ committed \subseteq Jobs
    /\ effects \in [Jobs -> Nat]
    /\ abandoned \in [Jobs -> Nat]
    /\ notified \in [Jobs -> SUBSET Terminal]
    /\ faults \in [FaultKinds -> Nat]

\* No coroutine is running, nothing has been submitted.  The message of an idle
\* handler is a placeholder.
Init ==
    /\ submit = [j \in Jobs |-> "idle"]
    /\ status = [j \in Jobs |-> "absent"]
    /\ attempts = [j \in Jobs |-> 0]
    /\ callback = [j \in Jobs |-> "none"]
    /\ reservation = [j \in Jobs |-> "none"]
    /\ queue = NoMessages
    /\ holding = NoMessages
    /\ dlq = {}
    /\ pc = [h \in Handlers |-> "idle"]
    /\ msg = [h \in Handlers |-> Placeholder]
    /\ result = [h \in Handlers |-> "none"]
    /\ delivered = [h \in Handlers |-> FALSE]
    /\ owned = [h \in Handlers |-> FALSE]
    /\ committed = {}
    /\ effects = [j \in Jobs |-> 0]
    /\ abandoned = [j \in Jobs |-> 0]
    /\ notified = [j \in Jobs |-> {}]
    /\ faults = [f \in FaultKinds |-> 0]

-----------------------------------------------------------------------------
Fault(f) == /\ faults[f] < Budget[f]
            /\ faults' = [faults EXCEPT ![f] = @ + 1]

Goto(h, point, verdict) ==
    /\ pc' = [pc EXCEPT ![h] = point]
    /\ result' = [result EXCEPT ![h] = verdict]
    /\ UNCHANGED <<msg, delivered, owned>>

Release(h) ==
    /\ pc' = [pc EXCEPT ![h] = "idle"]
    /\ msg' = [msg EXCEPT ![h] = Placeholder]
    /\ result' = [result EXCEPT ![h] = "none"]
    /\ delivered' = [delivered EXCEPT ![h] = FALSE]
    /\ owned' = [owned EXCEPT ![h] = FALSE]

(***************************************************************************)
(* gateway: submit_job once it has won its Idempotency-Key.                *)
(***************************************************************************)
SubmitReserve(j) ==
    /\ submit[j] = "idle"
    /\ submit' = [submit EXCEPT ![j] = "reserved"]
    /\ reservation' = [reservation EXCEPT ![j] = "held"]
    /\ UNCHANGED <<jobVars, brokerVars, handlerVars, harnessVars, notified, faults>>

insert_async_job(j) ==
    /\ submit[j] = "reserved"
    /\ submit' = [submit EXCEPT ![j] = "inserted"]
    /\ status' = [status EXCEPT ![j] = "queued"]
    /\ UNCHANGED <<attempts, callback, reservation, brokerVars, handlerVars,
                   harnessVars, notified, faults>>

publish_job(j) ==
    /\ submit[j] = "inserted"
    /\ submit' = [submit EXCEPT ![j] = "published"]
    /\ queue' = [queue EXCEPT ![[job |-> j, attempts |-> 0]] = @ + 1]
    /\ UNCHANGED <<jobVars, reservation, holding, dlq, handlerVars, harnessVars,
                   notified, faults>>

\* The gateway dies, or insert_async_job / publish_job raises, between the steps.
SubmitLost(j) ==
    /\ submit[j] \in {"reserved", "inserted"}
    /\ Fault("error")
    /\ submit' = [submit EXCEPT ![j] = "lost"]
    /\ UNCHANGED <<jobVars, reservation, brokerVars, handlerVars, harnessVars, notified>>

\* The gateway's sweeper returns a reservation past its deadline (module Quota).
SweepReservation(j) ==
    /\ reservation[j] = "held"
    /\ reservation' = [reservation EXCEPT ![j] = "swept"]
    /\ UNCHANGED <<submit, jobVars, brokerVars, handlerVars, harnessVars, notified, faults>>

(***************************************************************************)
(* async-worker: _handle and process_job.                                  *)
(***************************************************************************)
\* Mutant of Receive: the message counts as acknowledged once it is delivered.
ReceiveAutoAck(h) ==
    /\ pc[h] = "idle"
    /\ \E m \in Messages :
         /\ queue[m] > 0
         /\ queue' = [queue EXCEPT ![m] = @ - 1]
         /\ msg' = [msg EXCEPT ![h] = m]
    /\ pc' = [pc EXCEPT ![h] = "claim"]
    /\ UNCHANGED <<submit, jobVars, reservation, holding, dlq, result, delivered, owned,
                   harnessVars, notified, faults>>

Receive(h) ==
    /\ pc[h] = "idle"
    /\ \E m \in Messages :
         /\ queue[m] > 0
         /\ queue' = [queue EXCEPT ![m] = @ - 1]
         /\ msg' = [msg EXCEPT ![h] = m]
    /\ pc' = [pc EXCEPT ![h] = "claim"]
    /\ owned' = [owned EXCEPT ![h] = TRUE]
    /\ UNCHANGED <<submit, jobVars, reservation, holding, dlq, result, delivered,
                   harnessVars, notified, faults>>

\* Mutant of Claimable: a row that is running may be claimed again.
ClaimableRunning(j) == status[j] \in {"queued", "failed", "running"}

Claimable(j) == status[j] \in {"queued", "failed"}

try_claim_job(h) ==
    LET j == msg[h].job IN
    /\ pc[h] = "claim"
    /\ \/ /\ Claimable(j)
          /\ status' = [status EXCEPT ![j] = "running"]
          /\ attempts' = [attempts EXCEPT ![j] = @ + 1]
          /\ Goto(h, "call", "none")
       \/ /\ ~Claimable(j)      \* JobOutcome.ALREADY_CLAIMED
          /\ Goto(h, "ack", "none")
          /\ UNCHANGED <<status, attempts>>
    /\ UNCHANGED <<submit, callback, reservation, brokerVars, harnessVars, notified, faults>>

\* harness.run: the run completes and is persisted, the answer arrives.
HarnessSucceeds(h) ==
    LET j == msg[h].job IN
    /\ pc[h] = "call"
    /\ j \notin committed
    /\ committed' = committed \cup {j}
    /\ effects' = [effects EXCEPT ![j] = @ + 1]
    /\ Goto(h, "reconcile", "none")
    /\ UNCHANGED <<submit, jobVars, reservation, brokerVars, abandoned, notified, faults>>

\* harness.run again for a run_id that is already persisted: the graph runs to its
\* end, then insert_agent_run meets the primary key and the answer is a 500.
HarnessRunsAgain(h) ==
    LET j == msg[h].job IN
    /\ pc[h] = "call"
    /\ j \in committed
    /\ effects' = [effects EXCEPT ![j] = @ + 1]
    /\ Goto(h, "mark_failed", "retriable")
    /\ UNCHANGED <<submit, jobVars, reservation, brokerVars, committed, abandoned,
                   notified, faults>>

\* 5xx or connection error before the run did anything / a 4xx refusal.
HarnessFails(h) ==
    /\ pc[h] = "call"
    /\ \E kind \in {"retriable", "fatal"} : Goto(h, "mark_failed", kind)
    /\ UNCHANGED <<submit, jobVars, reservation, brokerVars, harnessVars, notified, faults>>

\* Mutant of HarnessTimesOut: the timeout is swallowed.
TimeoutSwallowed(h) ==
    LET j == msg[h].job IN
    /\ pc[h] = "call"
    /\ Fault("timeout")
    /\ abandoned' = [abandoned EXCEPT ![j] = @ + 1]
    /\ Goto(h, "reconcile", "none")
    /\ UNCHANGED <<submit, jobVars, reservation, brokerVars, committed, effects, notified>>

\* httpx.TimeoutException: the worker gives up, the run goes on in harness.
HarnessTimesOut(h) ==
    LET j == msg[h].job IN
    /\ pc[h] = "call"
    /\ Fault("timeout")
    /\ abandoned' = [abandoned EXCEPT ![j] = @ + 1]
    /\ Goto(h, "mark_failed", "retriable")
    /\ UNCHANGED <<submit, jobVars, reservation, brokerVars, committed, effects, notified>>

\* A run nobody waits for any more ends: it persists, meets the primary key, or dies.
AbandonedRunEnds(j) ==
    /\ abandoned[j] > 0
    /\ abandoned' = [abandoned EXCEPT ![j] = @ - 1]
    /\ \/ /\ effects' = [effects EXCEPT ![j] = @ + 1]
          /\ committed' = committed \cup {j}
       \/ UNCHANGED <<effects, committed>>
    /\ UNCHANGED <<submit, jobVars, reservation, brokerVars, handlerVars, notified, faults>>

reconcile(h) ==
    LET j == msg[h].job IN
    /\ pc[h] = "reconcile"
    /\ reservation' = IF reservation[j] = "held"
                      THEN [reservation EXCEPT ![j] = "reconciled"]
                      ELSE reservation
    /\ Goto(h, "mark_succeeded", "none")
    /\ UNCHANGED <<submit, jobVars, brokerVars, harnessVars, notified, faults>>

\* Where process_job goes once a terminal status is recorded: the webhook, if any.
AfterTerminal(h) ==
    IF msg[h].job \in WithCallback THEN "webhook"
    ELSE IF pc[h] = "mark_dead" THEN "dlq" ELSE "ack"

mark_job_succeeded(h) ==
    /\ pc[h] = "mark_succeeded"
    /\ status' = [status EXCEPT ![msg[h].job] = "succeeded"]
    /\ Goto(h, AfterTerminal(h), "succeeded")
    /\ UNCHANGED <<submit, attempts, callback, reservation, brokerVars, harnessVars,
                   notified, faults>>

\* Mutant of mark_job_failed_will_retry: an attempt that will not be retried is not marked.
MarkFailedIfRetried(h) ==
    LET final == result[h] = "fatal" \/ msg[h].attempts >= MAX_ATTEMPTS IN
    /\ pc[h] = "mark_failed"
    /\ status' = IF final THEN status ELSE [status EXCEPT ![msg[h].job] = "failed"]
    /\ Goto(h, IF final THEN "mark_dead" ELSE "retry", result[h])
    /\ UNCHANGED <<submit, attempts, callback, reservation, brokerVars, harnessVars,
                   notified, faults>>

mark_job_failed_will_retry(h) ==
    /\ pc[h] = "mark_failed"
    /\ status' = [status EXCEPT ![msg[h].job] = "failed"]
    /\ IF result[h] = "fatal" \/ msg[h].attempts >= MAX_ATTEMPTS
       THEN Goto(h, "mark_dead", result[h])
       ELSE Goto(h, "retry", result[h])
    /\ UNCHANGED <<submit, attempts, callback, reservation, brokerVars, harnessVars,
                   notified, faults>>

\* Mutant of mark_job_dead_lettered: the verdict of the attempt is reported as the status.
MarkDeadKeepsVerdict(h) ==
    /\ pc[h] = "mark_dead"
    /\ status' = [status EXCEPT ![msg[h].job] = "dead_lettered"]
    /\ Goto(h, AfterTerminal(h), result[h])
    /\ UNCHANGED <<submit, attempts, callback, reservation, brokerVars, harnessVars,
                   notified, faults>>

mark_job_dead_lettered(h) ==
    /\ pc[h] = "mark_dead"
    /\ status' = [status EXCEPT ![msg[h].job] = "dead_lettered"]
    /\ Goto(h, AfterTerminal(h), "dead_lettered")
    /\ UNCHANGED <<submit, attempts, callback, reservation, brokerVars, harnessVars,
                   notified, faults>>

\* WebhookSender.send over its whole backoff schedule: it returns TRUE once the
\* tenant answered 2xx; the tenant may have got the payload without that.
SendWebhook(h) ==
    LET j == msg[h].job IN
    /\ pc[h] = "webhook"
    /\ \E received \in BOOLEAN, ok \in BOOLEAN :
         /\ ok => received
         /\ notified' = [notified EXCEPT ![j] = IF received THEN @ \cup {result[h]} ELSE @]
         /\ delivered' = [delivered EXCEPT ![h] = ok]
    /\ pc' = [pc EXCEPT ![h] = "callback"]
    /\ UNCHANGED <<submit, jobVars, reservation, brokerVars, msg, result, owned,
                   harnessVars, faults>>

\* Mutant of CallbackStatus: only a delivery is recorded.
DeliveredOnly(h) == IF delivered[h] THEN "delivered" ELSE callback[msg[h].job]

CallbackStatus(h) == IF delivered[h] THEN "delivered" ELSE "webhook_failed"

update_job_callback_status(h) ==
    /\ pc[h] = "callback"
    /\ callback' = [callback EXCEPT ![msg[h].job] = CallbackStatus(h)]
    /\ Goto(h, IF result[h] = "dead_lettered" THEN "dlq" ELSE "ack", result[h])
    /\ UNCHANGED <<submit, status, attempts, reservation, brokerVars, harnessVars,
                   notified, faults>>

NextAttempt(m) == [m EXCEPT !.attempts = @ + 1]

_schedule_retry(h) ==
    /\ pc[h] = "retry"
    /\ holding' = [holding EXCEPT ![NextAttempt(msg[h])] = @ + 1]
    /\ Goto(h, "ack", "none")
    /\ UNCHANGED <<submit, jobVars, reservation, queue, dlq, harnessVars, notified, faults>>

_publish_to_dlq(h) ==
    /\ pc[h] = "dlq"
    /\ dlq' = dlq \cup {msg[h].job}
    /\ Goto(h, "ack", "none")
    /\ UNCHANGED <<submit, jobVars, reservation, queue, holding, harnessVars, notified, faults>>

\* message.ack(): on a channel that was lost meanwhile it has no effect.
Ack(h) ==
    /\ pc[h] = "ack"
    /\ Release(h)
    /\ UNCHANGED <<submit, jobVars, reservation, brokerVars, harnessVars, notified, faults>>

\* process_job raises (database, Redis, an answer that does not parse): the except
\* branch of _handle sends the message to the DLQ, whatever the row says.
RaisePoints == {"claim", "call", "reconcile", "mark_succeeded", "mark_failed",
                "mark_dead", "webhook", "callback"}
ProcessJobRaises(h) ==
    /\ pc[h] \in RaisePoints
    /\ Fault("error")
    /\ Goto(h, "dlq", "error")
    /\ UNCHANGED <<submit, jobVars, reservation, brokerVars, harnessVars, notified>>

\* The holding queue's per-message TTL dead-letters the message back to agent.jobs.
BackoffExpires ==
    /\ \E m \in Messages :
         /\ holding[m] > 0
         /\ holding' = [holding EXCEPT ![m] = @ - 1]
         /\ queue' = [queue EXCEPT ![m] = @ + 1]
    /\ UNCHANGED <<submit, jobVars, reservation, dlq, handlerVars, harnessVars,
                   notified, faults>>

(***************************************************************************)
(* Faults of the worker and of its broker connection.                      *)
(***************************************************************************)
Requeue(h) == IF owned[h] THEN [queue EXCEPT ![msg[h]] = @ + 1] ELSE queue

WorkerCrash(h) ==
    LET j == msg[h].job IN
    /\ pc[h] \in CrashPoints
    /\ Fault("crash")
    /\ queue' = Requeue(h)
    /\ \/ /\ pc[h] = "call"
          /\ abandoned' = [abandoned EXCEPT ![j] = @ + 1]
       \/ UNCHANGED abandoned
    /\ Release(h)
    /\ UNCHANGED <<submit, jobVars, reservation, holding, dlq, committed, effects, notified>>

ConnectionLost(h) ==
    /\ pc[h] # "idle"
    /\ owned[h]
    /\ Fault("loss")
    /\ queue' = Requeue(h)
    /\ owned' = [owned EXCEPT ![h] = FALSE]
    /\ UNCHANGED <<submit, jobVars, reservation, holding, dlq, pc, msg, result,
                   delivered, harnessVars, notified>>
-----------------------------------------------------------------------------
Submit(j) == SubmitReserve(j) \/ insert_async_job(j) \/ publish_job(j)

HarnessAnswers(h) ==
    HarnessSucceeds(h) \/ HarnessRunsAgain(h) \/ HarnessFails(h)

HandlerStep(h) ==
    \/ Receive(h) \/ try_claim_job(h) \/ HarnessAnswers(h) \/ reconcile(h)
    \/ mark_job_succeeded(h) \/ mark_job_failed_will_retry(h) \/ mark_job_dead_lettered(h)
    \/ SendWebhook(h) \/ update_job_callback_status(h)
    \/ _schedule_retry(h) \/ _publish_to_dlq(h) \/ Ack(h)

HandlerFault(h) ==
    HarnessTimesOut(h) \/ ProcessJobRaises(h) \/ WorkerCrash(h) \/ ConnectionLost(h)

Next ==
    \/ \E j \in Jobs : Submit(j) \/ SubmitLost(j) \/ SweepReservation(j) \/ AbandonedRunEnds(j)
    \/ \E h \in Handlers : HandlerStep(h) \/ HandlerFault(h)
    \/ BackoffExpires

Spec == Init /\ [][Next]_vars

\* The gateway finishes the requests it serves, the worker coroutines run, the harness
\* answers or its client times out, message TTLs expire.  Faults are never forced.
Fairness ==
    /\ \A j \in Jobs : WF_vars(Submit(j)) /\ WF_vars(AbandonedRunEnds(j))
    /\ \A h \in Handlers : WF_vars(HandlerStep(h))
    /\ WF_vars(BackoffExpires)

FairSpec == Spec /\ Fairness
-----------------------------------------------------------------------------
(***************************************************************************)
(* Properties.                                                             *)
(***************************************************************************)
\* The points of process_job between winning try_claim_job and recording how the
\* attempt ended.
Attempting == {"call", "reconcile", "mark_succeeded", "mark_failed"}

\* try_claim_job lets one delivery of a job through at a time: however often the
\* message is redelivered or duplicated, no two handlers run an attempt of one job
\* at once.
AttemptsExclusive ==
    \A g, h \in Handlers :
        /\ pc[g] \in Attempting /\ pc[h] \in Attempting
        /\ msg[g].job = msg[h].job
        => g = h

\* While an attempt is going on the row cannot be claimed (the part of the inductive
\* invariant that AttemptsExclusive rests on).
AttemptHoldsRow ==
    \A h \in Handlers : pc[h] \in Attempting => ~Claimable(msg[h].job)

\* Messages and handlers belong to jobs whose row exists: submit_job publishes after
\* insert_async_job has committed.
OnlyPublished ==
    /\ \A m \in Messages : queue[m] > 0 \/ holding[m] > 0 => submit[m.job] = "published"
    /\ \A h \in Handlers : pc[h] # "idle" => submit[msg[h].job] = "published"

AttemptInv == TypeOK /\ OnlyPublished /\ AttemptHoldsRow /\ AttemptsExclusive

\* The tenant is told "succeeded", and the row says so, only for a job whose run is
\* persisted in conversation.agent_runs: mark_job_succeeded and the webhook come after
\* the harness answered.
SuccessIsCommitted ==
    \A j \in Jobs : (status[j] = "succeeded" \/ "succeeded" \in notified[j]) => j \in committed

\* A handler on its way to report success has a committed run (with SuccessIsCommitted,
\* the inductive invariant).
SuccessPath ==
    \A h \in Handlers :
        \/ pc[h] \in {"reconcile", "mark_succeeded"}
        \/ pc[h] \in {"webhook", "callback"} /\ result[h] = "succeeded"
        => msg[h].job \in committed

CommitInv == TypeOK /\ SuccessPath /\ SuccessIsCommitted

\* Some delivery of the job's message will still be acted on, or an operator finds it
\* in the dead letter queue.
MessageExists(j) ==
    \/ \E m \in Messages : m.job = j /\ (queue[m] > 0 \/ holding[m] > 0)
    \/ \E h \in Handlers : msg[h].job = j /\ pc[h] \notin {"idle", "ack"}
    \/ j \in dlq

\* A published job that waits for an attempt (queued, or failed and to be retried) still
\* has a message: consumer.py publishes the retry before it acks, so a crash between
\* the steps duplicates the message but does not lose it.  (A lost connection is another
\* matter: the redelivery is acked as already claimed while the attempt it duplicates
\* may still die.)
WaitingJobHasMessage ==
    faults["loss"] = 0 =>
        \A j \in Jobs : submit[j] = "published" /\ Claimable(j) => MessageExists(j)

\* A published job is finished, has a message, or is in the dead letter queue: nothing
\* is dropped silently.
NothingLost ==
    \A j \in Jobs : submit[j] = "published" /\ status[j] \notin Terminal => MessageExists(j)

\* The rows, the agent's runs and the webhooks implement JobContract; messages, handlers and
\* the runs under way are hidden.  The backoff schedule bounds the attempts of a job:
\* MAX_ATTEMPTS retries after the first one, and one more for every crash.
Contract == INSTANCE JobContract WITH
                MaxAttempts <- MAX_ATTEMPTS + 1 + Budget["crash"], runs <- effects
FollowsContract == Contract!Spec

Crashed == faults["crash"] > 0

\* Unless a worker crashes, every published job is finished, with the outcome of the webhook
\* recorded in callback_status if the tenant asked for one (whether or not its server
\* answered), or handed to an operator: process_job or the except branch of _handle settles
\* every delivery.
JobResolves ==
    \A j \in Jobs :
        submit[j] = "published"
          ~> \/ status[j] \in Terminal /\ (j \in WithCallback => callback[j] # "none")
             \/ j \in dlq
             \/ Crashed
=============================================================================
