--------------------------- MODULE AsyncJobsProofs ---------------------------
(***************************************************************************)
(* Proofs about AsyncJobs for every set of jobs and handlers, every        *)
(* MAX_ATTEMPTS, every crash point and any fault budget.                   *)
(***************************************************************************)
EXTENDS AsyncJobs, TLAPS

(***************************************************************************)
(* The placeholder message of an idle handler is a message.                *)
(***************************************************************************)
LEMMA PlaceholderIsMessage == Placeholder \in Messages
  <1>1. PICK j \in Jobs : TRUE
    BY SomeJob
  <1>2. [job |-> j, attempts |-> 0] \in Messages
    BY <1>1, MaxAttemptsNat DEF Messages
  <1> QED
    BY <1>2 DEF Placeholder

(***************************************************************************)
(* Adding one message to a queue gives a queue.                            *)
(***************************************************************************)
LEMMA CountUp ==
  ASSUME NEW q \in [Messages -> Nat], NEW m
  PROVE  [q EXCEPT ![m] = @ + 1] \in [Messages -> Nat]
  <1>1. CASE m \in Messages
    BY <1>1
  <1>2. CASE m \notin Messages
    BY <1>2
  <1> QED
    BY <1>1, <1>2

(***************************************************************************)
(* Every step of the program and every fault keeps the variables in their  *)
(* types.                                                                  *)
(***************************************************************************)
LEMMA TypeStep == TypeOK /\ [Next]_vars => TypeOK'
  <1> SUFFICES ASSUME TypeOK, [Next]_vars PROVE TypeOK'
    OBVIOUS
  <1> USE DEF TypeOK, jobVars, brokerVars, handlerVars, harnessVars, Statuses,
              Terminal, Results, PCs
  <1>1. ASSUME NEW j \in Jobs, Submit(j) PROVE TypeOK'
    <2>1. CASE SubmitReserve(j)
      BY <2>1 DEF SubmitReserve
    <2>2. CASE insert_async_job(j)
      BY <2>2 DEF insert_async_job
    <2>3. CASE publish_job(j)
      <3>1. [job |-> j, attempts |-> 0] \in Messages
        BY MaxAttemptsNat DEF Messages
      <3>2. queue' \in [Messages -> Nat]
        BY <2>3, <3>1, CountUp DEF publish_job
      <3> QED
        BY <2>3, <3>2 DEF publish_job
    <2> QED
      BY <1>1, <2>1, <2>2, <2>3 DEF Submit
  <1>2. ASSUME NEW j \in Jobs,
               SubmitLost(j) \/ SweepReservation(j) \/ AbandonedRunEnds(j)
        PROVE TypeOK'
    <2>1. CASE SubmitLost(j)
      BY <2>1 DEF SubmitLost, Fault, FaultKinds
    <2>2. CASE SweepReservation(j)
      BY <2>2 DEF SweepReservation
    <2>3. CASE AbandonedRunEnds(j)
      BY <2>3 DEF AbandonedRunEnds
    <2> QED
      BY <1>2, <2>1, <2>2, <2>3
  <1>3. ASSUME NEW h \in Handlers, HandlerStep(h) PROVE TypeOK'
    <2>0. msg[h] \in Messages /\ msg[h].job \in Jobs
      BY DEF Messages
    <2>1. CASE Receive(h)
      BY <2>1 DEF Receive
    <2>2. CASE try_claim_job(h)
      BY <2>0, <2>2 DEF try_claim_job, Goto
    <2>3. CASE HarnessAnswers(h)
      <3>1. CASE HarnessSucceeds(h)
        BY <2>0, <3>1 DEF HarnessSucceeds, Goto
      <3>2. CASE HarnessRunsAgain(h)
        BY <2>0, <3>2 DEF HarnessRunsAgain, Goto
      <3>3. CASE HarnessFails(h)
        BY <2>0, <3>3 DEF HarnessFails, Goto
      <3> QED
        BY <2>3, <3>1, <3>2, <3>3 DEF HarnessAnswers
    <2>4. CASE reconcile(h)
      BY <2>0, <2>4 DEF reconcile, Goto
    <2>5. CASE mark_job_succeeded(h)
      BY <2>0, <2>5 DEF mark_job_succeeded, Goto, AfterTerminal
    <2>6. CASE mark_job_failed_will_retry(h)
      BY <2>0, <2>6 DEF mark_job_failed_will_retry, Goto
    <2>7. CASE mark_job_dead_lettered(h)
      BY <2>0, <2>7 DEF mark_job_dead_lettered, Goto, AfterTerminal
    <2>8. CASE SendWebhook(h)
      <3>1. notified' \in [Jobs -> SUBSET Terminal]
        BY <2>0, <2>8 DEF SendWebhook
      <3> QED
        BY <2>0, <2>8, <3>1 DEF SendWebhook
    <2>9. CASE update_job_callback_status(h)
      BY <2>0, <2>9 DEF update_job_callback_status, CallbackStatus, Goto
    <2>10. CASE _schedule_retry(h)
      <3>1. holding' \in [Messages -> Nat]
        BY <2>0, <2>10, CountUp DEF _schedule_retry, NextAttempt
      <3> QED
        BY <2>0, <2>10, <3>1 DEF _schedule_retry, Goto
    <2>11. CASE _publish_to_dlq(h)
      BY <2>0, <2>11 DEF _publish_to_dlq, Goto
    <2>12. CASE Ack(h)
      BY <2>0, <2>12, PlaceholderIsMessage DEF Ack, Release
    <2> QED
      BY <1>3, <2>1, <2>2, <2>3, <2>4, <2>5, <2>6, <2>7, <2>8, <2>9, <2>10, <2>11,
         <2>12 DEF HandlerStep
  <1>4. ASSUME NEW h \in Handlers, HandlerFault(h) PROVE TypeOK'
    <2>0. msg[h] \in Messages /\ msg[h].job \in Jobs
      BY DEF Messages
    <2>1. CASE HarnessTimesOut(h)
      BY <2>0, <2>1 DEF HarnessTimesOut, Goto, Fault, FaultKinds
    <2>2. CASE ProcessJobRaises(h)
      BY <2>0, <2>2 DEF ProcessJobRaises, Goto, Fault, FaultKinds
    <2>3. CASE WorkerCrash(h)
      BY <2>0, <2>3, PlaceholderIsMessage
      DEF WorkerCrash, Release, Requeue, Fault, FaultKinds
    <2>4. CASE ConnectionLost(h)
      BY <2>0, <2>4 DEF ConnectionLost, Requeue, Fault, FaultKinds
    <2> QED
      BY <1>4, <2>1, <2>2, <2>3, <2>4 DEF HandlerFault
  <1>5. CASE BackoffExpires
    BY <1>5 DEF BackoffExpires
  <1>6. CASE UNCHANGED vars
    BY <1>6 DEF vars
  <1> QED
    BY <1>1, <1>2, <1>3, <1>4, <1>5, <1>6 DEF Next

(***************************************************************************)
(* The variables keep their types in every behaviour: in particular a      *)
(* handler that reports to the tenant reports a final status, and no count *)
(* of messages goes below zero.                                            *)
(***************************************************************************)
THEOREM TypeCorrect == Spec => []TypeOK
  <1>1. Init => TypeOK
    BY PlaceholderIsMessage
    DEF Init, TypeOK, Statuses, Terminal, Results, PCs, NoMessages
  <1> QED
    BY <1>1, TypeStep, PTL DEF Spec

(***************************************************************************)
(* Messages exist, and handlers run, only for jobs submit_job has          *)
(* published; so insert_async_job never resets the row of a job that an    *)
(* attempt is working on.                                                  *)
(***************************************************************************)
LEMMA OnlyPublishedStep == TypeOK /\ OnlyPublished /\ [Next]_vars => OnlyPublished'
  <1> SUFFICES ASSUME TypeOK, OnlyPublished, [Next]_vars PROVE OnlyPublished'
    OBVIOUS
  <1> USE DEF OnlyPublished, jobVars, brokerVars, handlerVars
  <1>a. /\ queue \in [Messages -> Nat] /\ holding \in [Messages -> Nat]
        /\ submit \in [Jobs -> {"idle", "reserved", "inserted", "published", "lost"}]
        /\ msg \in [Handlers -> Messages] /\ pc \in [Handlers -> PCs]
        /\ \A m \in Messages : m.job \in Jobs
    BY DEF TypeOK, Messages
  <1>1. ASSUME NEW j \in Jobs,
               SubmitReserve(j) \/ insert_async_job(j) \/ SubmitLost(j)
        PROVE  OnlyPublished'
    BY <1>1, <1>a DEF SubmitReserve, insert_async_job, SubmitLost
  <1>2. ASSUME NEW j \in Jobs, publish_job(j) PROVE OnlyPublished'
    BY <1>2, <1>a DEF publish_job, Messages
  <1>3. ASSUME NEW j \in Jobs, SweepReservation(j) \/ AbandonedRunEnds(j)
        PROVE  OnlyPublished'
    BY <1>3 DEF SweepReservation, AbandonedRunEnds
  <1>4. ASSUME NEW h \in Handlers, Receive(h) PROVE OnlyPublished'
    <2>1. PICK m \in Messages : /\ queue[m] > 0
                                /\ queue' = [queue EXCEPT ![m] = @ - 1]
                                /\ msg' = [msg EXCEPT ![h] = m]
      BY <1>4 DEF Receive
    <2> QED
      BY <1>4, <2>1, <1>a DEF Receive
  <1>5. ASSUME NEW h \in Handlers, pc[h] # "idle", NEW p, NEW v, Goto(h, p, v),
               UNCHANGED <<submit, queue, holding>>
        PROVE  OnlyPublished'
    BY <1>5, <1>a DEF Goto
  <1>6. ASSUME NEW h \in Handlers, SendWebhook(h) PROVE OnlyPublished'
    BY <1>6, <1>a DEF SendWebhook
  <1>7. ASSUME NEW h \in Handlers, _schedule_retry(h) PROVE OnlyPublished'
    <2>1. \A m \in Messages : holding'[m] > 0 => holding[m] > 0 \/ m.job = msg[h].job
      BY <1>7, <1>a DEF _schedule_retry, NextAttempt, Messages
    <2> QED
      BY <1>7, <2>1, <1>a DEF _schedule_retry, Goto
  <1>8. ASSUME NEW h \in Handlers, Ack(h) PROVE OnlyPublished'
    BY <1>8, <1>a DEF Ack, Release
  <1>9. ASSUME NEW h \in Handlers, WorkerCrash(h) PROVE OnlyPublished'
    BY <1>9, <1>a, CrashPointsOK DEF WorkerCrash, Release, Requeue
  <1>10. ASSUME NEW h \in Handlers, ConnectionLost(h) PROVE OnlyPublished'
    BY <1>10, <1>a DEF ConnectionLost, Requeue
  <1>11. ASSUME NEW h \in Handlers, HandlerStep(h) PROVE OnlyPublished'
    <2>1. CASE try_claim_job(h)
      BY <2>1, <1>5 DEF try_claim_job
    <2>2. CASE HarnessAnswers(h)
      BY <2>2, <1>5 DEF HarnessAnswers, HarnessSucceeds, HarnessRunsAgain, HarnessFails
    <2>3. CASE reconcile(h) \/ mark_job_succeeded(h) \/ mark_job_dead_lettered(h)
      BY <2>3, <1>5 DEF reconcile, mark_job_succeeded, mark_job_dead_lettered
    <2>4. CASE mark_job_failed_will_retry(h)
      BY <2>4, <1>5 DEF mark_job_failed_will_retry
    <2>5. CASE update_job_callback_status(h) \/ _publish_to_dlq(h)
      BY <2>5, <1>5 DEF update_job_callback_status, _publish_to_dlq
    <2> QED
      BY <1>11, <1>4, <1>6, <1>7, <1>8, <2>1, <2>2, <2>3, <2>4, <2>5 DEF HandlerStep
  <1>12. ASSUME NEW h \in Handlers, HandlerFault(h) PROVE OnlyPublished'
    <2>1. CASE HarnessTimesOut(h)
      BY <2>1, <1>5 DEF HarnessTimesOut
    <2>2. CASE ProcessJobRaises(h)
      BY <2>2, <1>5 DEF ProcessJobRaises, RaisePoints
    <2> QED
      BY <1>12, <1>9, <1>10, <2>1, <2>2 DEF HandlerFault
  <1>13. CASE BackoffExpires
    BY <1>13, <1>a DEF BackoffExpires
  <1>14. CASE UNCHANGED vars
    BY <1>14 DEF vars
  <1> QED
    BY <1>1, <1>2, <1>3, <1>11, <1>12, <1>13, <1>14 DEF Next, Submit

(***************************************************************************)
(* A handler enters the attempt through a claim that finds the row         *)
(* claimable, when by AttemptHoldsRow nobody is in it; the only steps that *)
(* make a row claimable again are insert_async_job, on a job without       *)
(* messages, and mark_job_failed_will_retry, which leaves the attempt.     *)
(***************************************************************************)
LEMMA AttemptStep ==
  TypeOK /\ OnlyPublished /\ AttemptHoldsRow /\ AttemptsExclusive /\ [Next]_vars
    => AttemptHoldsRow' /\ AttemptsExclusive'
  <1> SUFFICES ASSUME TypeOK, OnlyPublished, AttemptHoldsRow, AttemptsExclusive,
                      [Next]_vars
               PROVE  AttemptHoldsRow' /\ AttemptsExclusive'
    OBVIOUS
  <1> USE DEF AttemptHoldsRow, AttemptsExclusive, Claimable, Attempting,
              jobVars, brokerVars, handlerVars
  <1>a. /\ status \in [Jobs -> Statuses]
        /\ submit \in [Jobs -> {"idle", "reserved", "inserted", "published", "lost"}]
        /\ msg \in [Handlers -> Messages] /\ pc \in [Handlers -> PCs]
        /\ \A m \in Messages : m.job \in Jobs
    BY DEF TypeOK, Messages
  \* Steps that leave the rows alone and take no handler into the attempt.
  <1>b. ASSUME UNCHANGED status,
               \A h \in Handlers : pc'[h] \in Attempting =>
                                     pc[h] \in Attempting /\ msg'[h] = msg[h]
        PROVE  AttemptHoldsRow' /\ AttemptsExclusive'
    BY <1>b
  <1>1. ASSUME NEW j \in Jobs, insert_async_job(j)
        PROVE  AttemptHoldsRow' /\ AttemptsExclusive'
    BY <1>1, <1>a DEF insert_async_job, OnlyPublished
  <1>2. ASSUME NEW j \in Jobs,
               \/ SubmitReserve(j) \/ publish_job(j) \/ SubmitLost(j)
               \/ SweepReservation(j) \/ AbandonedRunEnds(j)
        PROVE  AttemptHoldsRow' /\ AttemptsExclusive'
    BY <1>2, <1>b DEF SubmitReserve, publish_job, SubmitLost, SweepReservation,
                      AbandonedRunEnds
  <1>3. ASSUME NEW h \in Handlers, HandlerStep(h)
        PROVE  AttemptHoldsRow' /\ AttemptsExclusive'
    <2>1. CASE Receive(h)
      BY <2>1, <1>a, <1>b DEF Receive
    <2>2. CASE try_claim_job(h)
      <3>1. CASE Claimable(msg[h].job)
        BY <2>2, <3>1, <1>a DEF try_claim_job, Goto
      <3>2. CASE ~Claimable(msg[h].job)
        BY <2>2, <3>2, <1>a, <1>b DEF try_claim_job, Goto
      <3> QED
        BY <3>1, <3>2
    <2>3. CASE HarnessAnswers(h) \/ reconcile(h)
      BY <2>3, <1>a, <1>b
      DEF HarnessAnswers, HarnessSucceeds, HarnessRunsAgain, HarnessFails, reconcile, Goto
    <2>4. CASE mark_job_succeeded(h)
      BY <2>4, <1>a DEF mark_job_succeeded, AfterTerminal, Goto
    <2>5. CASE mark_job_failed_will_retry(h)
      <3>1. /\ status' = [status EXCEPT ![msg[h].job] = "failed"]
            /\ msg' = msg
            /\ pc[h] = "mark_failed"
            /\ \E p \in {"mark_dead", "retry"} : pc' = [pc EXCEPT ![h] = p]
        BY <2>5 DEF mark_job_failed_will_retry, Goto
      <3> QED
        BY <3>1, <1>a
    <2>6. CASE mark_job_dead_lettered(h)
      BY <2>6, <1>a DEF mark_job_dead_lettered, AfterTerminal, Goto
    <2>7. CASE SendWebhook(h)
      BY <2>7, <1>a, <1>b DEF SendWebhook
    <2>8. CASE update_job_callback_status(h) \/ _schedule_retry(h) \/ _publish_to_dlq(h)
      BY <2>8, <1>a, <1>b
      DEF update_job_callback_status, _schedule_retry, _publish_to_dlq, Goto
    <2>9. CASE Ack(h)
      BY <2>9, <1>a, <1>b DEF Ack, Release
    <2> QED
      BY <1>3, <2>1, <2>2, <2>3, <2>4, <2>5, <2>6, <2>7, <2>8, <2>9 DEF HandlerStep
  <1>4. ASSUME NEW h \in Handlers, HandlerFault(h)
        PROVE  AttemptHoldsRow' /\ AttemptsExclusive'
    <2>1. CASE HarnessTimesOut(h) \/ ProcessJobRaises(h)
      BY <2>1, <1>a, <1>b DEF HarnessTimesOut, ProcessJobRaises, Goto
    <2>2. CASE WorkerCrash(h)
      BY <2>2, <1>a, <1>b DEF WorkerCrash, Release
    <2>3. CASE ConnectionLost(h)
      BY <2>3, <1>b DEF ConnectionLost
    <2> QED
      BY <1>4, <2>1, <2>2, <2>3 DEF HandlerFault
  <1>5. CASE BackoffExpires
    BY <1>5, <1>b DEF BackoffExpires
  <1>6. CASE UNCHANGED vars
    BY <1>6, <1>b DEF vars
  <1> QED
    BY <1>1, <1>2, <1>3, <1>4, <1>5, <1>6 DEF Next, Submit

(***************************************************************************)
(* try_claim_job excludes concurrent attempts of one job, for any number   *)
(* of worker coroutines, redeliveries, duplicated messages, crashes and    *)
(* stale dead-letter writes.                                               *)
(***************************************************************************)
THEOREM AttemptsAreExclusive == Spec => []AttemptsExclusive
  <1>1. Init => AttemptInv
    BY PlaceholderIsMessage
    DEF Init, AttemptInv, TypeOK, OnlyPublished, AttemptHoldsRow, AttemptsExclusive,
        Statuses, Terminal, Results, PCs, NoMessages, Attempting
  <1>2. AttemptInv /\ [Next]_vars => AttemptInv'
    BY TypeStep, OnlyPublishedStep, AttemptStep DEF AttemptInv
  <1>3. AttemptInv => AttemptsExclusive
    BY DEF AttemptInv
  <1> QED
    BY <1>1, <1>2, <1>3, PTL DEF Spec

(***************************************************************************)
(* Every step keeps success reports behind the commit of the run: the      *)
(* set of committed runs only grows, and only HarnessSucceeds starts the   *)
(* path to "succeeded".                                                    *)
(***************************************************************************)
LEMMA CommitStep ==
  CommitInv /\ [Next]_vars => SuccessPath' /\ SuccessIsCommitted'
  <1> SUFFICES ASSUME CommitInv, [Next]_vars
               PROVE  SuccessPath' /\ SuccessIsCommitted'
    OBVIOUS
  <1> USE DEF CommitInv, SuccessPath, SuccessIsCommitted, jobVars, brokerVars,
              handlerVars, harnessVars
  <1>a. /\ \A h \in Handlers : msg[h].job \in Jobs
        /\ pc \in [Handlers -> PCs] /\ msg \in [Handlers -> Messages]
        /\ result \in [Handlers -> Results]
        /\ status \in [Jobs -> Statuses] /\ notified \in [Jobs -> SUBSET Terminal]
        /\ committed \subseteq Jobs
    BY DEF TypeOK, Messages
  \* Steps that report nothing and start no success path.
  <1>b. ASSUME UNCHANGED <<status, notified>>, committed \subseteq committed',
               \A h \in Handlers :
                 \/ pc'[h] = pc[h] /\ msg'[h] = msg[h] /\ result'[h] = result[h]
                 \/ pc'[h] \notin {"reconcile", "mark_succeeded", "webhook", "callback"}
        PROVE  SuccessPath' /\ SuccessIsCommitted'
    BY <1>b
  <1>1. ASSUME NEW j \in Jobs, insert_async_job(j)
        PROVE  SuccessPath' /\ SuccessIsCommitted'
    BY <1>1, <1>a DEF insert_async_job
  <1>2. ASSUME NEW j \in Jobs,
               \/ SubmitReserve(j) \/ publish_job(j) \/ SubmitLost(j)
               \/ SweepReservation(j) \/ AbandonedRunEnds(j)
        PROVE  SuccessPath' /\ SuccessIsCommitted'
    BY <1>2, <1>b DEF SubmitReserve, publish_job, SubmitLost, SweepReservation,
                      AbandonedRunEnds
  <1>3. ASSUME NEW h \in Handlers, HandlerStep(h)
        PROVE  SuccessPath' /\ SuccessIsCommitted'
    <2>1. CASE Receive(h)
      BY <2>1, <1>a, <1>b DEF Receive
    <2>2. CASE try_claim_job(h)
      BY <2>2, <1>a DEF try_claim_job, Goto
    <2>3. CASE HarnessSucceeds(h)
      BY <2>3, <1>a DEF HarnessSucceeds, Goto
    <2>4. CASE HarnessRunsAgain(h) \/ HarnessFails(h)
      BY <2>4, <1>a, <1>b DEF HarnessRunsAgain, HarnessFails, Goto
    <2>5. CASE reconcile(h)
      BY <2>5, <1>a DEF reconcile, Goto
    <2>6. CASE mark_job_succeeded(h)
      BY <2>6, <1>a DEF mark_job_succeeded, AfterTerminal, Goto
    <2>7. CASE mark_job_failed_will_retry(h)
      <3>1. /\ status' = [status EXCEPT ![msg[h].job] = "failed"]
            /\ UNCHANGED <<msg, committed, notified>>
            /\ result' = [result EXCEPT ![h] = result[h]]
            /\ \E p \in {"mark_dead", "retry"} : pc' = [pc EXCEPT ![h] = p]
        BY <2>7 DEF mark_job_failed_will_retry, Goto
      <3> QED
        BY <3>1, <1>a
    <2>8. CASE mark_job_dead_lettered(h)
      BY <2>8, <1>a DEF mark_job_dead_lettered, AfterTerminal, Goto
    <2>9. CASE SendWebhook(h)
      <3>1. /\ UNCHANGED <<status, committed, msg, result>>
            /\ pc[h] = "webhook"
            /\ pc' = [pc EXCEPT ![h] = "callback"]
            /\ \A j \in Jobs : notified'[j] \subseteq
                               notified[j] \cup (IF j = msg[h].job THEN {result[h]} ELSE {})
        BY <2>9, <1>a DEF SendWebhook
      <3> QED
        BY <3>1, <1>a
    <2>10. CASE update_job_callback_status(h) \/ _schedule_retry(h) \/ _publish_to_dlq(h)
      BY <2>10, <1>a, <1>b
      DEF update_job_callback_status, _schedule_retry, _publish_to_dlq, Goto
    <2>11. CASE Ack(h)
      BY <2>11, <1>a, <1>b DEF Ack, Release
    <2> QED
      BY <1>3, <2>1, <2>2, <2>3, <2>4, <2>5, <2>6, <2>7, <2>8, <2>9, <2>10, <2>11
      DEF HandlerStep, HarnessAnswers
  <1>4. ASSUME NEW h \in Handlers, HandlerFault(h)
        PROVE  SuccessPath' /\ SuccessIsCommitted'
    <2>1. CASE HarnessTimesOut(h) \/ ProcessJobRaises(h)
      BY <2>1, <1>a, <1>b DEF HarnessTimesOut, ProcessJobRaises, Goto
    <2>2. CASE WorkerCrash(h)
      BY <2>2, <1>a, <1>b DEF WorkerCrash, Release
    <2>3. CASE ConnectionLost(h)
      BY <2>3, <1>b DEF ConnectionLost
    <2> QED
      BY <1>4, <2>1, <2>2, <2>3 DEF HandlerFault
  <1>5. CASE BackoffExpires
    BY <1>5, <1>b DEF BackoffExpires
  <1>6. CASE UNCHANGED vars
    BY <1>6, <1>b DEF vars
  <1> QED
    BY <1>1, <1>2, <1>3, <1>4, <1>5, <1>6 DEF Next, Submit

(***************************************************************************)
(* Neither the row nor a webhook says "succeeded" for a job whose run is   *)
(* not persisted, whatever times out, crashes or is redelivered.           *)
(***************************************************************************)
THEOREM SuccessMeansCommitted == Spec => []SuccessIsCommitted
  <1>1. Init => CommitInv
    BY PlaceholderIsMessage
    DEF Init, CommitInv, TypeOK, SuccessPath, SuccessIsCommitted,
        Statuses, Terminal, Results, PCs, NoMessages
  <1>2. CommitInv /\ [Next]_vars => CommitInv'
    BY TypeStep, CommitStep DEF CommitInv
  <1>3. CommitInv => SuccessIsCommitted
    BY DEF CommitInv
  <1> QED
    BY <1>1, <1>2, <1>3, PTL DEF Spec
-----------------------------------------------------------------------------
(***************************************************************************)
(* Where the message of a waiting job is.  While no connection is lost,    *)
(* the broker still has the message of every running handler and delivers  *)
(* it again when the worker dies; a handler that reported success leaves   *)
(* nobody behind who could make the row wait again; and a retry is only    *)
(* scheduled while there are attempts left.                                *)
(***************************************************************************)
BrokerKeeps == faults["loss"] = 0 => \A h \in Handlers : pc[h] # "idle" => owned[h]

Reporting(h) == pc[h] \in {"webhook", "callback"} /\ result[h] = "succeeded"

SuccessSettles ==
    \A h \in Handlers : Reporting(h) =>
        /\ status[msg[h].job] \in Terminal
        /\ \A g \in Handlers : pc[g] \in Attempting => msg[g].job # msg[h].job

RetriesLeft == \A h \in Handlers : pc[h] = "retry" => msg[h].attempts < MAX_ATTEMPTS

WaitingInv == AttemptInv /\ BrokerKeeps /\ SuccessSettles /\ RetriesLeft /\ WaitingJobHasMessage

(***************************************************************************)
(* A handler that is not idle holds its message until a step of its own.   *)
(***************************************************************************)
LEMMA BrokerStep == TypeOK /\ BrokerKeeps /\ [Next]_vars => BrokerKeeps'
  <1> SUFFICES ASSUME TypeOK, BrokerKeeps, [Next]_vars PROVE BrokerKeeps'
    OBVIOUS
  <1> USE DEF BrokerKeeps, handlerVars
  <1>a. /\ pc \in [Handlers -> PCs] /\ owned \in [Handlers -> BOOLEAN]
        /\ faults \in [FaultKinds -> Nat]
    BY DEF TypeOK
  <1>b. ASSUME faults'["loss"] = faults["loss"],
               \A h \in Handlers : pc'[h] # "idle" => owned'[h] \/ (pc[h] # "idle" /\ owned'[h] = owned[h])
        PROVE  BrokerKeeps'
    BY <1>b
  <1>1. ASSUME NEW f \in {"crash", "error", "timeout"}, Fault(f)
        PROVE  faults'["loss"] = faults["loss"]
    BY <1>1, <1>a DEF Fault, FaultKinds
  <1>2. ASSUME NEW j \in Jobs,
               \/ Submit(j) \/ SubmitLost(j) \/ SweepReservation(j) \/ AbandonedRunEnds(j)
        PROVE  BrokerKeeps'
    BY <1>2, <1>1, <1>b DEF Submit, SubmitReserve, insert_async_job, publish_job, SubmitLost,
                            SweepReservation, AbandonedRunEnds
  <1>3. ASSUME NEW h \in Handlers, pc[h] # "idle", NEW p, NEW v, Goto(h, p, v),
               faults'["loss"] = faults["loss"]
        PROVE  BrokerKeeps'
    BY <1>3, <1>a, <1>b DEF Goto
  <1>4. ASSUME NEW h \in Handlers, Release(h), faults'["loss"] = faults["loss"]
        PROVE  BrokerKeeps'
    BY <1>4, <1>a, <1>b DEF Release
  <1>5. ASSUME NEW h \in Handlers, HandlerStep(h) PROVE BrokerKeeps'
    <2>1. CASE Receive(h)
      BY <2>1, <1>a, <1>b DEF Receive
    <2>2. CASE try_claim_job(h)
      BY <2>2, <1>3 DEF try_claim_job
    <2>3. CASE HarnessAnswers(h)
      BY <2>3, <1>3 DEF HarnessAnswers, HarnessSucceeds, HarnessRunsAgain, HarnessFails
    <2>4. CASE reconcile(h) \/ mark_job_succeeded(h) \/ mark_job_dead_lettered(h)
      BY <2>4, <1>3 DEF reconcile, mark_job_succeeded, mark_job_dead_lettered
    <2>5. CASE mark_job_failed_will_retry(h)
      BY <2>5, <1>3 DEF mark_job_failed_will_retry
    <2>6. CASE SendWebhook(h)
      BY <2>6, <1>a, <1>b DEF SendWebhook
    <2>7. CASE update_job_callback_status(h) \/ _schedule_retry(h) \/ _publish_to_dlq(h)
      BY <2>7, <1>3 DEF update_job_callback_status, _schedule_retry, _publish_to_dlq
    <2>8. CASE Ack(h)
      BY <2>8, <1>4 DEF Ack
    <2> QED
      BY <1>5, <2>1, <2>2, <2>3, <2>4, <2>5, <2>6, <2>7, <2>8 DEF HandlerStep
  <1>6. ASSUME NEW h \in Handlers, HandlerFault(h) PROVE BrokerKeeps'
    <2>1. CASE HarnessTimesOut(h) \/ ProcessJobRaises(h)
      BY <2>1, <1>1, <1>3 DEF HarnessTimesOut, ProcessJobRaises, RaisePoints
    <2>2. CASE WorkerCrash(h)
      BY <2>2, <1>1, <1>4 DEF WorkerCrash
    <2>3. CASE ConnectionLost(h)
      BY <2>3, <1>a DEF ConnectionLost, Fault, FaultKinds
    <2> QED
      BY <1>6, <2>1, <2>2, <2>3 DEF HandlerFault
  <1>7. CASE BackoffExpires \/ UNCHANGED vars
    BY <1>7, <1>b DEF BackoffExpires, vars
  <1> QED
    BY <1>2, <1>5, <1>6, <1>7 DEF Next

(***************************************************************************)
(* Once an attempt has succeeded and while its webhook is under way, no    *)
(* attempt of the job starts, and the row keeps a final status: at worst a *)
(* handler that gave the job up earlier still writes dead_lettered.        *)
(***************************************************************************)
LEMMA SettlesStep == AttemptInv /\ SuccessSettles /\ [Next]_vars => SuccessSettles'
  <1> SUFFICES ASSUME AttemptInv, SuccessSettles, [Next]_vars PROVE SuccessSettles'
    OBVIOUS
  <1> USE DEF AttemptInv, jobVars, handlerVars
  <1>a. /\ status \in [Jobs -> Statuses] /\ result \in [Handlers -> Results]
        /\ submit \in [Jobs -> {"idle", "reserved", "inserted", "published", "lost"}]
        /\ msg \in [Handlers -> Messages] /\ pc \in [Handlers -> PCs]
        /\ \A h \in Handlers : msg[h].job \in Jobs
    BY DEF TypeOK, Messages
  \* Steps that leave the rows alone, report nothing new and start no attempt.
  <1>b. ASSUME UNCHANGED status,
               \A h \in Handlers : Reporting(h)' => Reporting(h) /\ msg'[h] = msg[h],
               \A h \in Handlers : pc'[h] \in Attempting =>
                                     pc[h] \in Attempting /\ msg'[h] = msg[h]
        PROVE  SuccessSettles'
    BY <1>b DEF SuccessSettles
  <1>1. ASSUME NEW j \in Jobs, insert_async_job(j) PROVE SuccessSettles'
    <2>1. \A h \in Handlers : pc[h] # "idle" => msg[h].job # j
      BY <1>1, <1>a DEF insert_async_job, OnlyPublished
    <2>2. UNCHANGED <<pc, msg, result>> /\ status' = [status EXCEPT ![j] = "queued"]
      BY <1>1 DEF insert_async_job
    <2> QED
      BY <2>1, <2>2, <1>a DEF SuccessSettles, Reporting
  <1>2. ASSUME NEW j \in Jobs,
               \/ SubmitReserve(j) \/ publish_job(j) \/ SubmitLost(j)
               \/ SweepReservation(j) \/ AbandonedRunEnds(j)
        PROVE  SuccessSettles'
    BY <1>2, <1>b DEF SubmitReserve, publish_job, SubmitLost, SweepReservation,
                      AbandonedRunEnds, Reporting
  \* A handler moves on outside the attempt, without a report of its own.
  <1>3. ASSUME NEW h \in Handlers, UNCHANGED status,
               \A g \in Handlers : g # h =>
                  pc'[g] = pc[g] /\ msg'[g] = msg[g] /\ result'[g] = result[g],
               pc'[h] \in {"webhook", "callback"} =>
                  pc[h] \in {"webhook", "callback"} /\ msg'[h] = msg[h] /\ result'[h] = result[h],
               pc'[h] \in Attempting => pc[h] \in Attempting /\ msg'[h] = msg[h]
        PROVE  SuccessSettles'
    BY <1>3, <1>b DEF Reporting
  <1>4. ASSUME NEW h \in Handlers, HandlerStep(h) PROVE SuccessSettles'
    <2>1. CASE Receive(h)
      BY <2>1, <1>a, <1>3 DEF Receive, Attempting
    <2>2. CASE try_claim_job(h)
      <3>1. CASE Claimable(msg[h].job)
        <4>1. /\ status' = [status EXCEPT ![msg[h].job] = "running"] /\ UNCHANGED msg
              /\ pc' = [pc EXCEPT ![h] = "call"] /\ result' = [result EXCEPT ![h] = "none"]
          BY <2>2, <3>1 DEF try_claim_job, Goto
        <4>2. \A g \in Handlers : Reporting(g) => msg[g].job # msg[h].job
          BY <3>1 DEF SuccessSettles, Claimable, Terminal
        <4> QED
          BY <4>1, <4>2, <1>a DEF SuccessSettles, Reporting, Attempting
      <3>2. CASE ~Claimable(msg[h].job)
        BY <2>2, <3>2, <1>a, <1>3 DEF try_claim_job, Goto, Attempting
      <3> QED
        BY <3>1, <3>2
    <2>3. CASE HarnessAnswers(h) \/ reconcile(h)
      BY <2>3, <1>a, <1>3 DEF HarnessAnswers, HarnessSucceeds, HarnessRunsAgain, HarnessFails,
                              reconcile, Goto, Attempting
    <2>4. CASE mark_job_succeeded(h)
      <3>1. /\ status' = [status EXCEPT ![msg[h].job] = "succeeded"] /\ UNCHANGED msg
            /\ pc[h] = "mark_succeeded"
            /\ \E p \in {"webhook", "ack", "dlq"} : pc' = [pc EXCEPT ![h] = p]
            /\ result' = [result EXCEPT ![h] = "succeeded"]
        BY <2>4 DEF mark_job_succeeded, Goto, AfterTerminal
      <3>2. \A g \in Handlers : pc'[g] \in Attempting => g # h /\ msg[g].job # msg[h].job
        BY <3>1, <1>a DEF AttemptsExclusive, Attempting
      <3> QED
        BY <3>1, <3>2, <1>a DEF SuccessSettles, Reporting, Terminal
    <2>5. CASE mark_job_failed_will_retry(h)
      <3>1. /\ status' = [status EXCEPT ![msg[h].job] = "failed"] /\ UNCHANGED msg
            /\ pc[h] = "mark_failed" /\ \E p \in {"mark_dead", "retry"} : pc' = [pc EXCEPT ![h] = p]
            /\ result' = [result EXCEPT ![h] = result[h]]
        BY <2>5 DEF mark_job_failed_will_retry, Goto
      <3>2. \A g \in Handlers : Reporting(g) => msg[g].job # msg[h].job
        BY <3>1 DEF SuccessSettles, Attempting
      <3> QED
        BY <3>1, <3>2, <1>a DEF SuccessSettles, Reporting, Attempting
    <2>6. CASE mark_job_dead_lettered(h)
      <3>1. /\ status' = [status EXCEPT ![msg[h].job] = "dead_lettered"] /\ UNCHANGED msg
            /\ \E p \in {"webhook", "ack", "dlq"} : pc' = [pc EXCEPT ![h] = p]
            /\ result' = [result EXCEPT ![h] = "dead_lettered"]
        BY <2>6 DEF mark_job_dead_lettered, Goto, AfterTerminal
      <3> QED
        BY <3>1, <1>a DEF SuccessSettles, Reporting, Attempting, Terminal
    <2>7. CASE SendWebhook(h)
      BY <2>7, <1>a, <1>3 DEF SendWebhook, Attempting
    <2>8. CASE update_job_callback_status(h) \/ _schedule_retry(h) \/ _publish_to_dlq(h)
      BY <2>8, <1>a, <1>3
      DEF update_job_callback_status, _schedule_retry, _publish_to_dlq, Goto, Attempting
    <2>9. CASE Ack(h)
      BY <2>9, <1>a, <1>3 DEF Ack, Release, Attempting
    <2> QED
      BY <1>4, <2>1, <2>2, <2>3, <2>4, <2>5, <2>6, <2>7, <2>8, <2>9 DEF HandlerStep
  <1>5. ASSUME NEW h \in Handlers, HandlerFault(h) PROVE SuccessSettles'
    <2>1. CASE HarnessTimesOut(h) \/ ProcessJobRaises(h)
      BY <2>1, <1>a, <1>3 DEF HarnessTimesOut, ProcessJobRaises, Goto, Attempting
    <2>2. CASE WorkerCrash(h)
      BY <2>2, <1>a, <1>3 DEF WorkerCrash, Release, Attempting
    <2>3. CASE ConnectionLost(h)
      BY <2>3, <1>b DEF ConnectionLost, Reporting
    <2> QED
      BY <1>5, <2>1, <2>2, <2>3 DEF HandlerFault
  <1>6. CASE BackoffExpires
    BY <1>6, <1>b DEF BackoffExpires, Reporting
  <1>7. CASE UNCHANGED vars
    BY <1>7, <1>b DEF vars, Reporting
  <1> QED
    BY <1>1, <1>2, <1>4, <1>5, <1>6, <1>7 DEF Next, Submit

(***************************************************************************)
(* A retry is scheduled for an attempt number the backoff schedule has.    *)
(***************************************************************************)
LEMMA RetriesStep == TypeOK /\ RetriesLeft /\ [Next]_vars => RetriesLeft'
  <1> SUFFICES ASSUME TypeOK, RetriesLeft, [Next]_vars PROVE RetriesLeft'
    OBVIOUS
  <1> USE DEF RetriesLeft, handlerVars
  <1>a. /\ msg \in [Handlers -> Messages] /\ pc \in [Handlers -> PCs]
        /\ \A h \in Handlers : msg[h].attempts \in Nat
    BY MaxAttemptsNat DEF TypeOK, Messages
  <1>b. ASSUME \A h \in Handlers : pc'[h] = "retry" => pc[h] = "retry" /\ msg'[h] = msg[h]
        PROVE  RetriesLeft'
    BY <1>b
  <1>1. ASSUME NEW j \in Jobs,
               \/ Submit(j) \/ SubmitLost(j) \/ SweepReservation(j) \/ AbandonedRunEnds(j)
        PROVE  RetriesLeft'
    BY <1>1, <1>b DEF Submit, SubmitReserve, insert_async_job, publish_job, SubmitLost,
                      SweepReservation, AbandonedRunEnds
  <1>2. ASSUME NEW h \in Handlers, HandlerStep(h) PROVE RetriesLeft'
    <2>1. CASE Receive(h)
      BY <2>1, <1>a, <1>b DEF Receive
    <2>2. CASE try_claim_job(h) \/ HarnessAnswers(h) \/ reconcile(h)
      BY <2>2, <1>a, <1>b DEF try_claim_job, HarnessAnswers, HarnessSucceeds, HarnessRunsAgain,
                              HarnessFails, reconcile, Goto
    <2>3. CASE mark_job_succeeded(h) \/ mark_job_dead_lettered(h)
      BY <2>3, <1>a, <1>b DEF mark_job_succeeded, mark_job_dead_lettered, AfterTerminal, Goto
    <2>4. CASE mark_job_failed_will_retry(h)
      BY <2>4, <1>a, MaxAttemptsNat DEF mark_job_failed_will_retry, Goto
    <2>5. CASE SendWebhook(h)
      BY <2>5, <1>a, <1>b DEF SendWebhook
    <2>6. CASE update_job_callback_status(h) \/ _schedule_retry(h) \/ _publish_to_dlq(h)
      BY <2>6, <1>a, <1>b DEF update_job_callback_status, _schedule_retry, _publish_to_dlq, Goto
    <2>7. CASE Ack(h)
      BY <2>7, <1>a, <1>b DEF Ack, Release
    <2> QED
      BY <1>2, <2>1, <2>2, <2>3, <2>4, <2>5, <2>6, <2>7 DEF HandlerStep
  <1>3. ASSUME NEW h \in Handlers, HandlerFault(h) PROVE RetriesLeft'
    BY <1>3, <1>a, <1>b DEF HandlerFault, HarnessTimesOut, ProcessJobRaises, WorkerCrash,
                            ConnectionLost, Goto, Release
  <1>4. CASE BackoffExpires \/ UNCHANGED vars
    BY <1>4, <1>b DEF BackoffExpires, vars
  <1> QED
    BY <1>1, <1>2, <1>3, <1>4 DEF Next

(***************************************************************************)
(* The message of a job survives a step that takes no message away, except *)
(* perhaps the one a single handler holds.                                 *)
(***************************************************************************)
LEMMA MessageKept ==
  ASSUME NEW j \in Jobs, MessageExists(j), NEW h \in Handlers,
         \A m \in Messages : queue[m] > 0 => queue'[m] > 0,
         \A m \in Messages : holding[m] > 0 => holding'[m] > 0,
         dlq \subseteq dlq',
         \A g \in Handlers : g # h => pc'[g] = pc[g] /\ msg'[g] = msg[g],
         msg[h].job = j /\ pc[h] \notin {"idle", "ack"} => MessageExists(j)'
  PROVE  MessageExists(j)'
  BY DEF MessageExists

(***************************************************************************)
(* A handler that goes on with its message keeps it.                       *)
(***************************************************************************)
LEMMA MessageHeld ==
  ASSUME TypeOK, WaitingJobHasMessage, NEW h \in Handlers, NEW p \in PCs \ {"idle", "ack"},
         pc[h] # "idle", pc' = [pc EXCEPT ![h] = p],
         UNCHANGED <<submit, msg, queue, holding, dlq>>, faults'["loss"] = faults["loss"],
         \A j \in Jobs : Claimable(j)' => Claimable(j) \/ j = msg[h].job
  PROVE  WaitingJobHasMessage'
  <1>a. pc \in [Handlers -> PCs]
    BY DEF TypeOK
  <1>1. ASSUME NEW j \in Jobs, faults["loss"] = 0, submit[j] = "published", Claimable(j)'
        PROVE  MessageExists(j)'
    <2>1. CASE j = msg[h].job
      <3>1. msg'[h].job = j /\ pc'[h] \notin {"idle", "ack"}
        BY <2>1, <1>a
      <3> QED
        BY <3>1 DEF MessageExists
    <2>2. CASE j # msg[h].job
      <3>1. MessageExists(j)
        BY <1>1, <2>2 DEF WaitingJobHasMessage
      <3> QED
        BY <3>1, <2>2, <1>a, MessageKept
    <2> QED
      BY <2>1, <2>2
  <1> QED
    BY <1>1 DEF WaitingJobHasMessage

(***************************************************************************)
(* A handler may let go of a message that no row waits for, or once there  *)
(* is another one.                                                         *)
(***************************************************************************)
LEMMA MessageDropped ==
  ASSUME TypeOK, WaitingJobHasMessage, NEW h \in Handlers,
         \A g \in Handlers : g # h => pc'[g] = pc[g] /\ msg'[g] = msg[g],
         \A m \in Messages : queue[m] > 0 => queue'[m] > 0,
         \A m \in Messages : holding[m] > 0 => holding'[m] > 0,
         dlq \subseteq dlq',
         UNCHANGED submit, faults'["loss"] = faults["loss"],
         \A j \in Jobs : Claimable(j)' => Claimable(j),
         \A j \in Jobs : msg[h].job = j /\ pc[h] \notin {"idle", "ack"} /\ faults["loss"] = 0 =>
            ~Claimable(j)' \/ MessageExists(j)'
  PROVE  WaitingJobHasMessage'
  <1>1. ASSUME NEW j \in Jobs, faults["loss"] = 0, submit[j] = "published", Claimable(j)'
        PROVE  MessageExists(j)'
    <2>1. MessageExists(j)
      BY <1>1 DEF WaitingJobHasMessage
    <2>2. msg[h].job = j /\ pc[h] \notin {"idle", "ack"} => MessageExists(j)'
      BY <1>1
    <2> QED
      BY <2>1, <2>2, MessageKept
  <1> QED
    BY <1>1 DEF WaitingJobHasMessage

(***************************************************************************)
(* Every step leaves a waiting job a message.                              *)
(***************************************************************************)
LEMMA WaitingStep == WaitingInv /\ [Next]_vars => WaitingJobHasMessage'
  <1> SUFFICES ASSUME WaitingInv, [Next]_vars PROVE WaitingJobHasMessage'
    OBVIOUS
  <1> USE DEF WaitingInv, AttemptInv
  <1>a. /\ queue \in [Messages -> Nat] /\ holding \in [Messages -> Nat]
        /\ status \in [Jobs -> Statuses]
        /\ submit \in [Jobs -> {"idle", "reserved", "inserted", "published", "lost"}]
        /\ msg \in [Handlers -> Messages] /\ pc \in [Handlers -> PCs]
        /\ faults \in [FaultKinds -> Nat]
        /\ \A h \in Handlers : msg[h].job \in Jobs /\ msg[h].attempts \in 0 .. MAX_ATTEMPTS
    BY DEF TypeOK, Messages
  <1>b. ASSUME NEW f \in {"crash", "error", "timeout"}, Fault(f)
        PROVE  faults'["loss"] = faults["loss"]
    BY <1>b, <1>a DEF Fault, FaultKinds
  \* Steps that touch neither messages nor handlers.
  <1>c. ASSUME UNCHANGED <<queue, holding, dlq, pc, msg>>, faults'["loss"] = faults["loss"],
               \A j \in Jobs : submit'[j] = "published" /\ Claimable(j)' =>
                                  submit[j] = "published" /\ Claimable(j)
        PROVE  WaitingJobHasMessage'
    BY <1>c DEF WaitingJobHasMessage, MessageExists
  <1>1. ASSUME NEW j \in Jobs, SubmitReserve(j) \/ insert_async_job(j) \/ SubmitLost(j)
        PROVE  WaitingJobHasMessage'
    BY <1>1, <1>a, <1>b, <1>c
    DEF SubmitReserve, insert_async_job, SubmitLost, Claimable, jobVars, brokerVars, handlerVars
  <1>2. ASSUME NEW j \in Jobs, SweepReservation(j) \/ AbandonedRunEnds(j)
        PROVE  WaitingJobHasMessage'
    BY <1>2, <1>c DEF SweepReservation, AbandonedRunEnds, Claimable, jobVars, brokerVars, handlerVars
  <1>3. ASSUME NEW j \in Jobs, publish_job(j) PROVE WaitingJobHasMessage'
    <2> DEFINE m0 == [job |-> j, attempts |-> 0]
    <2>1. m0 \in Messages /\ m0.job = j
      BY MaxAttemptsNat DEF Messages
    <2>2. /\ queue' = [queue EXCEPT ![m0] = @ + 1] /\ submit' = [submit EXCEPT ![j] = "published"]
          /\ UNCHANGED <<status, holding, dlq, pc, msg, faults>>
      BY <1>3 DEF publish_job, jobVars, handlerVars
    <2> HIDE DEF m0
    <2>3. \A m \in Messages : queue[m] > 0 => queue'[m] > 0
      BY <2>1, <2>2, <1>a
    <2>4. queue'[m0] > 0
      BY <2>1, <2>2, <1>a
    <2>5. ASSUME NEW i \in Jobs, faults["loss"] = 0, submit'[i] = "published", Claimable(i)'
          PROVE  MessageExists(i)'
      <3>1. CASE i = j
        BY <2>1, <2>4, <3>1 DEF MessageExists
      <3>2. CASE i # j
        <4>1. MessageExists(i)
          BY <2>2, <2>5, <3>2, <1>a DEF WaitingJobHasMessage, Claimable
        <4> QED
          BY <4>1, <2>2, <2>3 DEF MessageExists
      <3> QED
        BY <3>1, <3>2
    <2> QED
      BY <2>2, <2>5 DEF WaitingJobHasMessage
  <1>4. ASSUME NEW h \in Handlers, Receive(h) PROVE WaitingJobHasMessage'
    <2>1. PICK m \in Messages : /\ queue[m] > 0
                                /\ queue' = [queue EXCEPT ![m] = @ - 1]
                                /\ msg' = [msg EXCEPT ![h] = m]
      BY <1>4 DEF Receive
    <2>2. /\ pc[h] = "idle" /\ pc' = [pc EXCEPT ![h] = "claim"]
          /\ UNCHANGED <<submit, status, holding, dlq, faults>>
      BY <1>4 DEF Receive, jobVars
    <2>3. ASSUME NEW j \in Jobs, MessageExists(j)
          PROVE  MessageExists(j)'
      <3>1. CASE m.job = j
        <4>1. msg'[h].job = j /\ pc'[h] \notin {"idle", "ack"}
          BY <2>1, <2>2, <3>1, <1>a
        <4> QED
          BY <4>1 DEF MessageExists
      <3>2. CASE m.job # j
        <4>1. \A n \in Messages : n.job = j => queue'[n] = queue[n]
          BY <2>1, <3>2, <1>a
        <4>2. \A g \in Handlers : pc[g] # "idle" => pc'[g] = pc[g] /\ msg'[g] = msg[g]
          BY <2>1, <2>2, <1>a
        <4> QED
          BY <2>2, <2>3, <4>1, <4>2 DEF MessageExists
      <3> QED
        BY <3>1, <3>2
    <2> QED
      BY <2>2, <2>3 DEF WaitingJobHasMessage, Claimable
  <1>5. ASSUME NEW h \in Handlers, try_claim_job(h) PROVE WaitingJobHasMessage'
    <2>1. CASE Claimable(msg[h].job)
      <3>1. /\ pc[h] = "claim" /\ pc' = [pc EXCEPT ![h] = "call"]
            /\ UNCHANGED <<submit, msg, queue, holding, dlq, faults>>
            /\ status' = [status EXCEPT ![msg[h].job] = "running"]
        BY <1>5, <2>1 DEF try_claim_job, Goto, brokerVars
      <3>2. \A j \in Jobs : Claimable(j)' => Claimable(j)
        BY <3>1, <1>a DEF Claimable
      <3> QED
        BY <3>1, <3>2, MessageHeld DEF PCs
    <2>2. CASE ~Claimable(msg[h].job)
      <3>1. /\ pc' = [pc EXCEPT ![h] = "ack"]
            /\ UNCHANGED <<submit, status, msg, queue, holding, dlq, faults>>
        BY <1>5, <2>2 DEF try_claim_job, Goto, brokerVars
      <3>2. /\ \A j \in Jobs : msg[h].job = j => ~Claimable(j)'
            /\ \A j \in Jobs : Claimable(j)' => Claimable(j)
        BY <2>2, <3>1 DEF Claimable
      <3> QED
        BY <3>1, <3>2, <1>a, MessageDropped
    <2> QED
      BY <2>1, <2>2
  \* Steps of a handler that keeps its message and does not touch the row.
  <1>6. ASSUME NEW h \in Handlers, NEW p \in PCs \ {"idle", "ack"}, NEW v, Goto(h, p, v),
               pc[h] # "idle", UNCHANGED <<submit, status, queue, holding, dlq>>,
               faults'["loss"] = faults["loss"]
        PROVE  WaitingJobHasMessage'
    BY <1>6, MessageHeld DEF Goto, Claimable
  <1>7. ASSUME NEW h \in Handlers, HarnessAnswers(h) \/ reconcile(h) PROVE WaitingJobHasMessage'
    BY <1>7, <1>6 DEF HarnessAnswers, HarnessSucceeds, HarnessRunsAgain, HarnessFails, reconcile,
                      PCs, jobVars, brokerVars
  <1>8. ASSUME NEW h \in Handlers, mark_job_succeeded(h) \/ mark_job_dead_lettered(h)
        PROVE  WaitingJobHasMessage'
    <2>1. /\ UNCHANGED <<submit, msg, queue, holding, dlq, faults>>
          /\ \A g \in Handlers : g # h => pc'[g] = pc[g]
          /\ \E s \in Terminal : status' = [status EXCEPT ![msg[h].job] = s]
      BY <1>8, <1>a DEF mark_job_succeeded, mark_job_dead_lettered, Goto, Terminal, brokerVars
    <2>2. /\ \A j \in Jobs : msg[h].job = j => ~Claimable(j)'
          /\ \A j \in Jobs : Claimable(j)' => Claimable(j)
      BY <2>1, <1>a DEF Claimable, Terminal
    <2> QED
      BY <2>1, <2>2, MessageDropped
  <1>9. ASSUME NEW h \in Handlers, mark_job_failed_will_retry(h) PROVE WaitingJobHasMessage'
    <2>1. PICK p \in {"mark_dead", "retry"} : pc' = [pc EXCEPT ![h] = p]
      BY <1>9 DEF mark_job_failed_will_retry, Goto
    <2>2. /\ pc[h] # "idle" /\ UNCHANGED <<submit, msg, queue, holding, dlq, faults>>
          /\ status' = [status EXCEPT ![msg[h].job] = "failed"]
      BY <1>9 DEF mark_job_failed_will_retry, Goto, brokerVars
    <2>3. \A j \in Jobs : Claimable(j)' => Claimable(j) \/ j = msg[h].job
      BY <2>2, <1>a DEF Claimable
    <2> QED
      BY <2>1, <2>2, <2>3, MessageHeld DEF PCs
  <1>10. ASSUME NEW h \in Handlers, SendWebhook(h) PROVE WaitingJobHasMessage'
    BY <1>10, MessageHeld DEF SendWebhook, PCs, Claimable, jobVars, brokerVars
  <1>11. ASSUME NEW h \in Handlers, update_job_callback_status(h) PROVE WaitingJobHasMessage'
    <2>1. /\ pc[h] = "callback" /\ UNCHANGED <<submit, status, msg, queue, holding, dlq, faults>>
          /\ pc' = [pc EXCEPT ![h] = IF result[h] = "dead_lettered" THEN "dlq" ELSE "ack"]
      BY <1>11 DEF update_job_callback_status, Goto, brokerVars
    <2>2. CASE result[h] = "dead_lettered"
      BY <2>1, <2>2, MessageHeld DEF PCs, Claimable
    <2>3. CASE result[h] # "dead_lettered"
      <3>1. Reporting(h)
        BY <2>1, <2>3 DEF TypeOK, Terminal, Reporting
      <3>2. \A j \in Jobs : msg[h].job = j => ~Claimable(j)'
        BY <2>1, <3>1 DEF SuccessSettles, Claimable, Terminal
      <3> QED
        BY <2>1, <3>2, <1>a, MessageDropped DEF Claimable
    <2> QED
      BY <2>2, <2>3
  <1>12. ASSUME NEW h \in Handlers, _schedule_retry(h) PROVE WaitingJobHasMessage'
    <2>1. /\ pc[h] = "retry" /\ UNCHANGED <<submit, status, msg, queue, dlq, faults>>
          /\ pc' = [pc EXCEPT ![h] = "ack"]
          /\ holding' = [holding EXCEPT ![NextAttempt(msg[h])] = @ + 1]
      BY <1>12 DEF _schedule_retry, Goto, jobVars
    <2>2. NextAttempt(msg[h]) \in Messages /\ NextAttempt(msg[h]).job = msg[h].job
      <3>1. msg[h] \in Messages /\ msg[h].attempts < MAX_ATTEMPTS
        BY <2>1, <1>a DEF RetriesLeft
      <3> QED
        BY <3>1, MaxAttemptsNat DEF NextAttempt, Messages
    <2>3. \A m \in Messages : holding[m] > 0 => holding'[m] > 0
      BY <2>1, <1>a
    <2>4. holding'[NextAttempt(msg[h])] > 0
      BY <2>1, <2>2, <1>a
    <2>5. \A j \in Jobs : msg[h].job = j => MessageExists(j)'
      BY <2>1, <2>2, <2>4 DEF MessageExists
    <2> QED
      BY <2>1, <2>3, <2>5, <1>a, MessageDropped DEF Claimable
  <1>13. ASSUME NEW h \in Handlers, _publish_to_dlq(h) PROVE WaitingJobHasMessage'
    <2>1. /\ UNCHANGED <<submit, status, msg, queue, holding, faults>>
          /\ pc' = [pc EXCEPT ![h] = "ack"] /\ dlq' = dlq \cup {msg[h].job}
      BY <1>13 DEF _publish_to_dlq, Goto, jobVars
    <2>2. \A j \in Jobs : msg[h].job = j => MessageExists(j)'
      BY <2>1 DEF MessageExists
    <2> QED
      BY <2>1, <2>2, <1>a, MessageDropped DEF Claimable
  <1>14. ASSUME NEW h \in Handlers, Ack(h) PROVE WaitingJobHasMessage'
    <2>1. /\ pc[h] = "ack" /\ UNCHANGED <<submit, status, queue, holding, dlq, faults>>
          /\ \A g \in Handlers : g # h => pc'[g] = pc[g] /\ msg'[g] = msg[g]
      BY <1>14, <1>a DEF Ack, Release, jobVars, brokerVars
    <2> QED
      BY <2>1, MessageDropped DEF Claimable
  <1>15. ASSUME NEW h \in Handlers, HarnessTimesOut(h) \/ ProcessJobRaises(h)
         PROVE  WaitingJobHasMessage'
    BY <1>15, <1>6, <1>b DEF HarnessTimesOut, ProcessJobRaises, RaisePoints, PCs, jobVars, brokerVars
  <1>16. ASSUME NEW h \in Handlers, WorkerCrash(h) PROVE WaitingJobHasMessage'
    <2>1. /\ pc[h] # "idle" /\ UNCHANGED <<submit, status, holding, dlq>>
          /\ queue' = Requeue(h) /\ faults'["loss"] = faults["loss"]
          /\ \A g \in Handlers : g # h => pc'[g] = pc[g] /\ msg'[g] = msg[g]
      BY <1>16, <1>a, <1>b, CrashPointsOK DEF WorkerCrash, Release, jobVars
    <2>2. \A m \in Messages : queue[m] > 0 => queue'[m] > 0
      BY <2>1, <1>a DEF Requeue
    <2>3. ASSUME NEW j \in Jobs, msg[h].job = j, faults["loss"] = 0
          PROVE  MessageExists(j)'
      <3>1. owned[h]
        BY <2>1, <2>3 DEF BrokerKeeps
      <3>2. msg[h] \in Messages /\ queue'[msg[h]] > 0
        BY <2>1, <3>1, <1>a DEF Requeue
      <3> QED
        BY <2>3, <3>2 DEF MessageExists
    <2> QED
      BY <2>1, <2>2, <2>3, MessageDropped DEF Claimable
  <1>17. ASSUME NEW h \in Handlers, ConnectionLost(h) PROVE WaitingJobHasMessage'
    <2>1. faults'["loss"] # 0
      BY <1>17, <1>a DEF ConnectionLost, Fault, FaultKinds
    <2> QED
      BY <2>1 DEF WaitingJobHasMessage
  <1>18. CASE BackoffExpires
    <2>1. PICK m \in Messages : /\ holding[m] > 0
                                /\ holding' = [holding EXCEPT ![m] = @ - 1]
                                /\ queue' = [queue EXCEPT ![m] = @ + 1]
      BY <1>18 DEF BackoffExpires
    <2>2. UNCHANGED <<submit, status, dlq, pc, msg, faults>>
      BY <1>18 DEF BackoffExpires, jobVars, handlerVars
    <2>3. \A n \in Messages : queue[n] > 0 \/ holding[n] > 0 => queue'[n] > 0 \/ holding'[n] > 0
      BY <2>1, <1>a
    <2>4. \A j \in Jobs : MessageExists(j) => MessageExists(j)'
      BY <2>2, <2>3 DEF MessageExists
    <2> QED
      BY <2>2, <2>4 DEF WaitingJobHasMessage, Claimable
  <1>19. CASE UNCHANGED vars
    BY <1>19, <1>c DEF vars, Claimable, jobVars, brokerVars, handlerVars
  <1> QED
    BY <1>1, <1>2, <1>3, <1>4, <1>5, <1>7, <1>8, <1>9, <1>10, <1>11, <1>12, <1>13, <1>14,
       <1>15, <1>16, <1>17, <1>18, <1>19
    DEF Next, Submit, HandlerStep, HandlerFault

(***************************************************************************)
(* However many workers crash wherever they do, calls time out and         *)
(* handlers raise: unless a broker connection is lost, a published job     *)
(* that waits for an attempt has a message that leads to one, or is in the *)
(* dead letter queue (consumer.py publishes the retry before it acks).     *)
(***************************************************************************)
THEOREM WaitingJobsHaveMessages == Spec => []WaitingJobHasMessage
  <1>1. Init => WaitingInv
    <2> SUFFICES ASSUME Init PROVE WaitingInv
      OBVIOUS
    <2>1. AttemptInv
      BY PlaceholderIsMessage
      DEF Init, AttemptInv, TypeOK, OnlyPublished, AttemptHoldsRow, AttemptsExclusive,
          Statuses, Terminal, Results, PCs, NoMessages, Attempting
    <2>2. BrokerKeeps /\ SuccessSettles /\ RetriesLeft
      BY DEF Init, BrokerKeeps, SuccessSettles, Reporting, RetriesLeft
    <2>3. WaitingJobHasMessage
      BY DEF Init, WaitingJobHasMessage, Claimable
    <2> QED
      BY <2>1, <2>2, <2>3 DEF WaitingInv
  <1>2. WaitingInv /\ [Next]_vars => WaitingInv'
    BY TypeStep, OnlyPublishedStep, AttemptStep, BrokerStep, SettlesStep, RetriesStep, WaitingStep
    DEF WaitingInv, AttemptInv
  <1>3. WaitingInv => WaitingJobHasMessage
    BY DEF WaitingInv
  <1> QED
    BY <1>1, <1>2, <1>3, PTL DEF Spec
-----------------------------------------------------------------------------
(***************************************************************************)
(* The refinement of JobContract.  It holds while nothing duplicates the   *)
(* message of a job: no connection is lost, and no worker dies between the *)
(* publication of a retry and the ack.  Then a job has at most one message *)
(* or handler that may still act on its row, which makes the row's status  *)
(* a function of where that handler is.                                    *)
(***************************************************************************)
Undisturbed == Budget["loss"] = 0 /\ "ack" \notin CrashPoints

Busy(h) == pc[h] \notin {"idle", "ack"}
Waits(m) == queue[m] > 0 \/ holding[m] > 0

OneMessage ==
    /\ \A m \in Messages : queue[m] + holding[m] <= 1
    /\ \A m, n \in Messages : Waits(m) /\ Waits(n) /\ m.job = n.job => m = n
    /\ \A m \in Messages, h \in Handlers : Waits(m) /\ Busy(h) => msg[h].job # m.job
    /\ \A g, h \in Handlers : Busy(g) /\ Busy(h) /\ msg[g].job = msg[h].job => g = h

\* What the row says while a handler is at work on it, and before there can be one.
RowOf(h) ==
    /\ pc[h] \in Attempting => status[msg[h].job] = "running"
    /\ pc[h] \in {"mark_dead", "retry"} => status[msg[h].job] = "failed"
    /\ pc[h] \in {"webhook", "callback"} => status[msg[h].job] = result[h]

RowFollows ==
    /\ \A j \in Jobs : submit[j] \in {"idle", "reserved"} => status[j] = "absent"
    /\ \A h \in Handlers : RowOf(h)
    /\ \A j \in Jobs : notified[j] # {} => status[j] \in Terminal /\ notified[j] = {status[j]}

\* A message is one attempt further than the last, and every crash costs at most one more.
AttemptsCounted ==
    /\ \A j \in Jobs : submit[j] # "published" => attempts[j] = 0
    /\ \A m \in Messages : Waits(m) => attempts[m.job] <= m.attempts + faults["crash"]
    /\ \A h \in Handlers :
          /\ pc[h] = "claim" => attempts[msg[h].job] <= msg[h].attempts + faults["crash"]
          /\ Busy(h) => attempts[msg[h].job] <= msg[h].attempts + 1 + faults["crash"]

\* A run that ended, or that goes on without its caller, belongs to an attempt of its own.
RunsCounted ==
    /\ \A j \in Jobs : effects[j] + abandoned[j] <= attempts[j]
    /\ \A h \in Handlers : pc[h] = "call" =>
          effects[msg[h].job] + abandoned[msg[h].job] < attempts[msg[h].job]

BudgetKept == \A f \in FaultKinds : faults[f] <= Budget[f]

ContractInv == /\ TypeOK /\ OnlyPublished /\ RetriesLeft /\ BudgetKept
               /\ OneMessage /\ RowFollows /\ AttemptsCounted /\ RunsCounted

(***************************************************************************)
(* The steps of a handler that work on the message it has: they leave the  *)
(* queues and every other handler alone, and keep the message.             *)
(***************************************************************************)
Works(h) ==
    \/ try_claim_job(h) \/ HarnessAnswers(h) \/ HarnessTimesOut(h) \/ reconcile(h)
    \/ mark_job_succeeded(h) \/ mark_job_failed_will_retry(h) \/ mark_job_dead_lettered(h)
    \/ SendWebhook(h) \/ update_job_callback_status(h) \/ ProcessJobRaises(h)
    \/ _publish_to_dlq(h)

\* What a step inside the attempt of a handler leaves alone.
LEMMA WorksShape ==
  ASSUME TypeOK, NEW h \in Handlers, Works(h)
  PROVE  /\ Busy(h) /\ pc[h] # "retry"
         /\ UNCHANGED <<submit, queue, holding, msg>>
         /\ faults'["crash"] = faults["crash"]
         /\ \A g \in Handlers : g # h => pc'[g] = pc[g] /\ result'[g] = result[g]
         /\ pc'[h] # "claim" /\ pc'[h] # "idle"
  <1>a. /\ pc \in [Handlers -> PCs] /\ result \in [Handlers -> Results]
        /\ faults \in [FaultKinds -> Nat]
    BY DEF TypeOK
  <1> USE DEF Busy, Goto, brokerVars
  <1>1. CASE try_claim_job(h) \/ HarnessAnswers(h) \/ reconcile(h)
    BY <1>1, <1>a DEF try_claim_job, HarnessAnswers, HarnessSucceeds, HarnessRunsAgain,
                      HarnessFails, reconcile
  <1>2. CASE HarnessTimesOut(h) \/ ProcessJobRaises(h)
    BY <1>2, <1>a DEF HarnessTimesOut, ProcessJobRaises, RaisePoints, Fault, FaultKinds
  <1>3. CASE mark_job_succeeded(h) \/ mark_job_failed_will_retry(h) \/ mark_job_dead_lettered(h)
    BY <1>3, <1>a DEF mark_job_succeeded, mark_job_failed_will_retry, mark_job_dead_lettered,
                      AfterTerminal
  <1>4. CASE SendWebhook(h) \/ update_job_callback_status(h) \/ _publish_to_dlq(h)
    BY <1>4, <1>a DEF SendWebhook, update_job_callback_status, _publish_to_dlq
  <1> QED
    BY <1>1, <1>2, <1>3, <1>4 DEF Works

(***************************************************************************)
(* Without lost connections, the steps of Next.                            *)
(***************************************************************************)
LEMMA NextCases ==
  ASSUME Undisturbed, ContractInv, [Next]_vars
  PROVE  \/ \E j \in Jobs : \/ SubmitReserve(j) \/ insert_async_job(j) \/ publish_job(j)
                            \/ SubmitLost(j) \/ SweepReservation(j) \/ AbandonedRunEnds(j)
         \/ \E h \in Handlers : \/ Receive(h) \/ Works(h) \/ _schedule_retry(h) \/ Ack(h)
                                \/ WorkerCrash(h)
         \/ BackoffExpires
         \/ UNCHANGED vars
  <1>1. ASSUME NEW h \in Handlers, ConnectionLost(h) PROVE FALSE
    <2>1. faults["loss"] \in Nat /\ faults["loss"] < Budget["loss"]
      BY <1>1 DEF ConnectionLost, Fault, ContractInv, TypeOK, FaultKinds
    <2> QED
      BY <2>1 DEF Undisturbed
  <1> QED
    BY <1>1 DEF Next, Submit, HandlerStep, HandlerFault, Works

(***************************************************************************)
(* No fault happens more often than its budget allows.                     *)
(***************************************************************************)
LEMMA BudgetStep == TypeOK /\ BudgetKept /\ [Next]_vars => BudgetKept'
  <1> SUFFICES ASSUME TypeOK, BudgetKept, [Next]_vars PROVE BudgetKept'
    OBVIOUS
  <1>a. faults \in [FaultKinds -> Nat]
    BY DEF TypeOK
  <1>1. ASSUME NEW f \in FaultKinds, Fault(f) PROVE BudgetKept'
    BY <1>1, <1>a, BudgetOK DEF Fault, BudgetKept
  <1>2. CASE faults' = faults
    BY <1>2 DEF BudgetKept
  <1>3. ASSUME NEW j \in Jobs,
               \/ Submit(j) \/ SubmitLost(j) \/ SweepReservation(j) \/ AbandonedRunEnds(j)
        PROVE  BudgetKept'
    BY <1>1, <1>2, <1>3 DEF Submit, SubmitReserve, insert_async_job, publish_job, SubmitLost,
                            SweepReservation, AbandonedRunEnds, FaultKinds
  <1>4. ASSUME NEW h \in Handlers, HandlerStep(h) PROVE BudgetKept'
    BY <1>2, <1>4 DEF HandlerStep, Receive, try_claim_job, HarnessAnswers, HarnessSucceeds,
            HarnessRunsAgain, HarnessFails, reconcile, mark_job_succeeded,
            mark_job_failed_will_retry, mark_job_dead_lettered, SendWebhook,
            update_job_callback_status, _schedule_retry, _publish_to_dlq, Ack
  <1>5. ASSUME NEW h \in Handlers, HandlerFault(h) PROVE BudgetKept'
    BY <1>1, <1>5 DEF HandlerFault, HarnessTimesOut, ProcessJobRaises, WorkerCrash,
                      ConnectionLost, FaultKinds
  <1>6. CASE BackoffExpires \/ UNCHANGED vars
    BY <1>2, <1>6 DEF BackoffExpires, vars
  <1> QED
    BY <1>3, <1>4, <1>5, <1>6 DEF Next

(***************************************************************************)
(* The message of a job moves, it is never copied.                         *)
(***************************************************************************)
LEMMA OneMessageStep ==
  ASSUME Undisturbed, ContractInv, [Next]_vars
  PROVE  OneMessage'
  <1> USE DEF ContractInv
  <1>a. /\ queue \in [Messages -> Nat] /\ holding \in [Messages -> Nat]
        /\ msg \in [Handlers -> Messages] /\ pc \in [Handlers -> PCs]
        /\ \A m \in Messages : m.job \in Jobs
        /\ \A m \in Messages : queue[m] \in Nat /\ holding[m] \in Nat
    BY DEF TypeOK, Messages
  <1>b. ASSUME UNCHANGED <<queue, holding>>,
               \A h \in Handlers : Busy(h)' => Busy(h) /\ msg'[h] = msg[h]
        PROVE  OneMessage'
    BY <1>b DEF OneMessage, Waits
  \* The message of a handler goes to a queue.
  <1>c. ASSUME NEW h \in Handlers, NEW n \in Messages, n.job = msg[h].job, Busy(h),
               ~Busy(h)',
               \A g \in Handlers : g # h => pc'[g] = pc[g] /\ msg'[g] = msg[g],
               \A m \in Messages : m # n => queue'[m] = queue[m] /\ holding'[m] = holding[m],
               queue'[n] + holding'[n] <= queue[n] + holding[n] + 1,
               queue'[n] \in Nat, holding'[n] \in Nat
        PROVE  OneMessage'
    <2>1. \A m \in Messages : Waits(m) => m.job # n.job
      BY <1>c DEF OneMessage
    <2>2. queue[n] = 0 /\ holding[n] = 0
      BY <2>1, <1>a DEF Waits
    <2>3. \A m \in Messages : Waits(m)' => Waits(m) \/ m = n
      BY <1>c DEF Waits
    <2>4. \A g \in Handlers : Busy(g)' => g # h /\ Busy(g) /\ msg'[g] = msg[g]
      BY <1>c DEF Busy
    <2>5. \A m \in Messages : queue'[m] + holding'[m] <= 1
      BY <1>c, <2>2, <1>a DEF OneMessage
    <2>6. \A m, k \in Messages : Waits(m)' /\ Waits(k)' /\ m.job = k.job => m = k
      BY <2>1, <2>3 DEF OneMessage
    <2>7. \A m \in Messages, g \in Handlers : Waits(m)' /\ Busy(g)' => msg'[g].job # m.job
      BY <1>c, <2>3, <2>4 DEF OneMessage
    <2>8. \A f, g \in Handlers : Busy(f)' /\ Busy(g)' /\ msg'[f].job = msg'[g].job => f = g
      BY <2>4 DEF OneMessage
    <2> QED
      BY <2>5, <2>6, <2>7, <2>8 DEF OneMessage
  <1>1. ASSUME NEW j \in Jobs,
               \/ SubmitReserve(j) \/ insert_async_job(j) \/ SubmitLost(j)
               \/ SweepReservation(j) \/ AbandonedRunEnds(j)
        PROVE  OneMessage'
    BY <1>1, <1>b DEF SubmitReserve, insert_async_job, SubmitLost, SweepReservation,
                      AbandonedRunEnds, Busy, brokerVars, handlerVars
  <1>2. ASSUME NEW j \in Jobs, publish_job(j) PROVE OneMessage'
    <2> DEFINE m0 == [job |-> j, attempts |-> 0]
    <2>1. m0 \in Messages /\ m0.job = j
      BY MaxAttemptsNat DEF Messages
    <2>2. /\ queue' = [queue EXCEPT ![m0] = @ + 1] /\ UNCHANGED <<holding, pc, msg>>
      BY <1>2 DEF publish_job, handlerVars
    <2>3. /\ \A m \in Messages : Waits(m) => m.job # j
          /\ \A h \in Handlers : Busy(h) => msg[h].job # j
      BY <1>2, <1>a DEF publish_job, OnlyPublished, Waits, Busy
    <2> HIDE DEF m0
    <2>4. \A m \in Messages : Waits(m)' => Waits(m) \/ m = m0
      BY <2>1, <2>2, <1>a DEF Waits
    <2>5. \A m \in Messages : queue'[m] + holding'[m] <= 1
      <3>1. queue[m0] = 0 /\ holding[m0] = 0
        BY <2>1, <2>3, <1>a DEF Waits
      <3> QED
        BY <3>1, <2>1, <2>2, <1>a DEF OneMessage
    <2>6. \A m, k \in Messages : Waits(m)' /\ Waits(k)' /\ m.job = k.job => m = k
      BY <2>1, <2>3, <2>4 DEF OneMessage
    <2>7. \A m \in Messages, g \in Handlers : Waits(m)' /\ Busy(g)' => msg'[g].job # m.job
      BY <2>1, <2>2, <2>3, <2>4 DEF OneMessage, Busy
    <2>8. \A f, g \in Handlers : Busy(f)' /\ Busy(g)' /\ msg'[f].job = msg'[g].job => f = g
      BY <2>2 DEF OneMessage, Busy
    <2> QED
      BY <2>5, <2>6, <2>7, <2>8 DEF OneMessage
  <1>3. ASSUME NEW h \in Handlers, Receive(h) PROVE OneMessage'
    <2>1. PICK n \in Messages : /\ queue[n] > 0
                                /\ queue' = [queue EXCEPT ![n] = @ - 1]
                                /\ msg' = [msg EXCEPT ![h] = n]
      BY <1>3 DEF Receive
    <2>2. pc[h] = "idle" /\ pc' = [pc EXCEPT ![h] = "claim"] /\ UNCHANGED holding
      BY <1>3 DEF Receive
    <2>3. \A m \in Messages : queue'[m] + holding'[m] <= 1
      BY <2>1, <2>2, <1>a DEF OneMessage
    <2>4. \A m \in Messages : Waits(m)' => Waits(m) /\ m.job # n.job
      <3>1. queue'[n] = 0 /\ holding'[n] = 0
        BY <2>1, <2>2, <1>a DEF OneMessage
      <3>2. \A m \in Messages : Waits(m)' => Waits(m) /\ m # n
        BY <2>1, <2>2, <3>1, <1>a DEF Waits
      <3>3. Waits(n)
        BY <2>1 DEF Waits
      <3> QED
        BY <3>2, <3>3 DEF OneMessage
    <2>5. \A g \in Handlers : g # h /\ Busy(g)' => Busy(g) /\ msg'[g] = msg[g] /\ msg[g].job # n.job
      <3>1. Waits(n)
        BY <2>1 DEF Waits
      <3> QED
        BY <2>1, <2>2, <3>1, <1>a DEF OneMessage, Busy
    <2>6. msg'[h] = n
      BY <2>1, <1>a
    <2>7. \A m, k \in Messages : Waits(m)' /\ Waits(k)' /\ m.job = k.job => m = k
      BY <2>4 DEF OneMessage
    <2>8. \A m \in Messages, g \in Handlers : Waits(m)' /\ Busy(g)' => msg'[g].job # m.job
      BY <2>4, <2>5, <2>6 DEF OneMessage
    <2>9. \A f, g \in Handlers : Busy(f)' /\ Busy(g)' /\ msg'[f].job = msg'[g].job => f = g
      BY <2>5, <2>6 DEF OneMessage
    <2> QED
      BY <2>3, <2>7, <2>8, <2>9 DEF OneMessage
  <1>4. ASSUME NEW h \in Handlers, Works(h) PROVE OneMessage'
    BY <1>4, <1>b, WorksShape DEF Busy
  <1>5. ASSUME NEW h \in Handlers, _schedule_retry(h) PROVE OneMessage'
    <2>1. /\ pc[h] = "retry" /\ pc' = [pc EXCEPT ![h] = "ack"] /\ UNCHANGED <<msg, queue>>
          /\ holding' = [holding EXCEPT ![NextAttempt(msg[h])] = @ + 1]
      BY <1>5 DEF _schedule_retry, Goto
    <2>2. NextAttempt(msg[h]) \in Messages /\ NextAttempt(msg[h]).job = msg[h].job
      <3>1. msg[h] \in Messages /\ msg[h].attempts < MAX_ATTEMPTS
        BY <2>1, <1>a DEF RetriesLeft
      <3> QED
        BY <3>1, MaxAttemptsNat DEF NextAttempt, Messages
    <2>3. PICK n \in Messages : n = NextAttempt(msg[h])
      BY <2>2
    <2> QED
      BY <2>1, <2>2, <2>3, <1>a, <1>c DEF Busy
  <1>6. ASSUME NEW h \in Handlers, Ack(h) PROVE OneMessage'
    BY <1>6, <1>a, <1>b DEF Ack, Release, Busy, brokerVars
  <1>7. ASSUME NEW h \in Handlers, WorkerCrash(h) PROVE OneMessage'
    <2>1. /\ Busy(h) /\ ~Busy(h)' /\ UNCHANGED holding /\ queue' = Requeue(h)
          /\ \A g \in Handlers : g # h => pc'[g] = pc[g] /\ msg'[g] = msg[g]
      BY <1>7, <1>a, CrashPointsOK DEF WorkerCrash, Release, Busy, Undisturbed
    <2>2. PICK n \in Messages : n = msg[h]
      BY <1>a
    <2>3. /\ \A m \in Messages : m # n => queue'[m] = queue[m]
          /\ queue'[n] <= queue[n] + 1 /\ queue'[n] \in Nat
      BY <2>1, <2>2, <1>a DEF Requeue
    <2> QED
      BY <2>1, <2>2, <2>3, <1>a, <1>c
  <1>8. CASE BackoffExpires
    <2>1. PICK n \in Messages : /\ holding[n] > 0
                                /\ holding' = [holding EXCEPT ![n] = @ - 1]
                                /\ queue' = [queue EXCEPT ![n] = @ + 1]
      BY <1>8 DEF BackoffExpires
    <2>2. UNCHANGED <<pc, msg>>
      BY <1>8 DEF BackoffExpires, handlerVars
    <2>3. \A m \in Messages : queue'[m] + holding'[m] = queue[m] + holding[m]
      BY <2>1, <1>a
    <2>4. \A m \in Messages : Waits(m)' => Waits(m)
      BY <2>1, <1>a DEF Waits
    <2> QED
      BY <2>2, <2>3, <2>4 DEF OneMessage, Busy
  <1>9. CASE UNCHANGED vars
    BY <1>9, <1>b DEF vars, Busy, brokerVars, handlerVars
  <1> QED
    BY <1>1, <1>2, <1>3, <1>4, <1>5, <1>6, <1>7, <1>8, <1>9, NextCases

(***************************************************************************)
(* How a handler that works moves its row: the status it writes, and where *)
(* it goes then.                                                           *)
(***************************************************************************)
LEMMA RowMoves ==
  ASSUME TypeOK, RowFollows, NEW h \in Handlers, Works(h), NEW j \in Jobs, j = msg[h].job
  PROVE  \/ status' = status
            /\ (pc'[h] \in Attempting => pc[h] \in Attempting)
            /\ pc'[h] \notin {"mark_dead", "retry"}
            /\ (pc'[h] \in {"webhook", "callback"} =>
                   pc[h] \in {"webhook", "callback"} /\ result'[h] = result[h])
         \/ status[j] \in {"queued", "failed"} /\ status' = [status EXCEPT ![j] = "running"]
            /\ pc'[h] = "call"
         \/ status[j] = "running" /\ status' = [status EXCEPT ![j] = "succeeded"]
            /\ pc'[h] \in {"webhook", "ack"} /\ result'[h] = "succeeded"
         \/ status[j] = "running" /\ status' = [status EXCEPT ![j] = "failed"]
            /\ pc'[h] \in {"mark_dead", "retry"}
         \/ status[j] = "failed" /\ status' = [status EXCEPT ![j] = "dead_lettered"]
            /\ pc'[h] \in {"webhook", "dlq"} /\ result'[h] = "dead_lettered"
  <1>a. pc \in [Handlers -> PCs] /\ result \in [Handlers -> Results]
    BY DEF TypeOK
  <1>b. RowOf(h)
    BY DEF RowFollows
  <1> USE DEF Goto, jobVars, Attempting
  <1>1. CASE try_claim_job(h)
    BY <1>1, <1>a DEF try_claim_job, Claimable
  <1>2. CASE HarnessAnswers(h) \/ HarnessTimesOut(h) \/ reconcile(h) \/ ProcessJobRaises(h)
    BY <1>2, <1>a DEF HarnessAnswers, HarnessSucceeds, HarnessRunsAgain, HarnessFails,
                      HarnessTimesOut, reconcile, ProcessJobRaises
  <1>3. CASE mark_job_succeeded(h)
    BY <1>3, <1>a, <1>b DEF mark_job_succeeded, AfterTerminal, RowOf
  <1>4. CASE mark_job_failed_will_retry(h)
    BY <1>4, <1>a, <1>b DEF mark_job_failed_will_retry, RowOf
  <1>5. CASE mark_job_dead_lettered(h)
    BY <1>5, <1>a, <1>b DEF mark_job_dead_lettered, AfterTerminal, RowOf
  <1>6. CASE SendWebhook(h) \/ update_job_callback_status(h) \/ _publish_to_dlq(h)
    BY <1>6, <1>a DEF SendWebhook, update_job_callback_status, _publish_to_dlq
  <1> QED
    BY <1>1, <1>2, <1>3, <1>4, <1>5, <1>6 DEF Works

(***************************************************************************)
(* Who is told what: only a handler with a final status tells the tenant.  *)
(***************************************************************************)
LEMMA TenantTold ==
  ASSUME TypeOK, RowFollows, NEW h \in Handlers, Works(h), NEW j \in Jobs, j = msg[h].job
  PROVE  \/ notified' = notified
         \/ /\ status' = status /\ status[j] \in Terminal
            /\ notified' = [notified EXCEPT ![j] = {status[j]}]
            /\ UNCHANGED <<attempts, effects>>
  <1>1. CASE SendWebhook(h)
    <2>1. status[j] = result[h] /\ status[j] \in Terminal
      BY <1>1 DEF SendWebhook, RowFollows, RowOf, TypeOK
    <2>2. \/ notified' = [notified EXCEPT ![j] = @ \cup {status[j]}]
          \/ notified' = [notified EXCEPT ![j] = @]
      BY <1>1, <2>1 DEF SendWebhook
    <2>3. notified \in [Jobs -> SUBSET Terminal] /\ notified[j] \subseteq {status[j]}
      BY DEF TypeOK, RowFollows
    <2>4. notified' = [notified EXCEPT ![j] = {status[j]}] \/ notified' = notified
      BY <2>2, <2>3
    <2> QED
      BY <1>1, <2>1, <2>4 DEF SendWebhook, jobVars, harnessVars
  <1>2. CASE ~SendWebhook(h)
    BY <1>2 DEF Works, try_claim_job, HarnessAnswers, HarnessSucceeds, HarnessRunsAgain,
                HarnessFails, HarnessTimesOut, reconcile, mark_job_succeeded,
                mark_job_failed_will_retry, mark_job_dead_lettered, update_job_callback_status,
                ProcessJobRaises, _publish_to_dlq
  <1> QED
    BY <1>1, <1>2

(***************************************************************************)
(* The row follows the one handler that works on it.                       *)
(***************************************************************************)
LEMMA RowStep ==
  ASSUME Undisturbed, ContractInv, [Next]_vars
  PROVE  RowFollows'
  <1> USE DEF ContractInv
  <1>a. /\ status \in [Jobs -> Statuses] /\ notified \in [Jobs -> SUBSET Terminal]
        /\ submit \in [Jobs -> {"idle", "reserved", "inserted", "published", "lost"}]
        /\ pc \in [Handlers -> PCs] /\ msg \in [Handlers -> Messages]
        /\ result \in [Handlers -> Results]
        /\ \A h \in Handlers : msg[h].job \in Jobs
    BY DEF TypeOK, Messages
  \* Steps that leave the rows alone; a handler that ends where the row matters was there.
  <1>b. ASSUME UNCHANGED <<status, notified>>,
               \A j \in Jobs : submit'[j] \in {"idle", "reserved"} => submit[j] \in {"idle", "reserved"},
               \A h \in Handlers :
                  \/ pc'[h] = pc[h] /\ msg'[h] = msg[h] /\ result'[h] = result[h]
                  \/ pc'[h] \in {"idle", "claim", "ack", "dlq"}
        PROVE  RowFollows'
    <2>1. \A h \in Handlers : RowOf(h)'
      BY <1>b DEF RowFollows, RowOf, Attempting
    <2> QED
      BY <1>b, <2>1 DEF RowFollows
  <1>1. ASSUME NEW j \in Jobs, insert_async_job(j) PROVE RowFollows'
    <2>1. /\ status' = [status EXCEPT ![j] = "queued"] /\ submit[j] = "reserved"
          /\ submit' = [submit EXCEPT ![j] = "inserted"] /\ UNCHANGED <<pc, msg, result, notified>>
      BY <1>1 DEF insert_async_job, handlerVars
    <2>2. \A h \in Handlers : pc[h] # "idle" => msg[h].job # j
      BY <2>1 DEF OnlyPublished
    <2>3. notified[j] = {}
      BY <2>1 DEF RowFollows, Terminal
    <2>4. \A h \in Handlers : RowOf(h)'
      BY <2>1, <2>2, <1>a DEF RowFollows, RowOf, Attempting
    <2> QED
      BY <2>1, <2>3, <2>4, <1>a DEF RowFollows
  <1>2. ASSUME NEW j \in Jobs,
               \/ SubmitReserve(j) \/ publish_job(j) \/ SubmitLost(j)
               \/ SweepReservation(j) \/ AbandonedRunEnds(j)
        PROVE  RowFollows'
    BY <1>2, <1>a, <1>b DEF SubmitReserve, publish_job, SubmitLost, SweepReservation,
                            AbandonedRunEnds, jobVars, handlerVars
  <1>3. ASSUME NEW h \in Handlers, Works(h) PROVE RowFollows'
    <2>0. PICK j \in Jobs : j = msg[h].job
      BY <1>a
    <2>1. /\ Busy(h) /\ UNCHANGED <<submit, msg>>
          /\ \A g \in Handlers : g # h => pc'[g] = pc[g] /\ result'[g] = result[g]
      BY <1>3, WorksShape
    <2>2. \A g \in Handlers : g # h /\ Busy(g) => msg[g].job # j
      BY <2>0, <2>1 DEF OneMessage
    <2>3. submit[j] = "published"
      BY <2>0, <2>1 DEF OnlyPublished, Busy
    <2>4. \A g \in Handlers : g # h => RowOf(g)'
      <3>1. \A i \in Jobs : i # j => status'[i] = status[i]
        BY <1>3, <2>0, <1>a, RowMoves
      <3> QED
        BY <2>1, <2>2, <3>1, <1>a DEF RowFollows, RowOf, Busy, Attempting
    <2>5. RowOf(h)'
      <3>1. RowOf(h)
        BY DEF RowFollows
      <3> QED
        BY <1>3, <2>0, <2>1, <3>1, <1>a, RowMoves DEF RowOf, Attempting
    <2>6. \A i \in Jobs : notified'[i] # {} => status'[i] \in Terminal /\ notified'[i] = {status'[i]}
      <3>1. CASE notified' = notified
        <4>1. status'[j] # status[j] => notified[j] = {}
          BY <1>3, <2>0, RowMoves DEF RowFollows, Terminal
        <4>2. \A i \in Jobs : i # j => status'[i] = status[i]
          BY <1>3, <2>0, <1>a, RowMoves
        <4> QED
          BY <3>1, <4>1, <4>2 DEF RowFollows
      <3>2. CASE /\ status' = status /\ status[j] \in Terminal
                 /\ notified' = [notified EXCEPT ![j] = {status[j]}]
        BY <3>2, <1>a DEF RowFollows
      <3> QED
        BY <1>3, <2>0, <3>1, <3>2, TenantTold
    <2>7. \A i \in Jobs : submit'[i] \in {"idle", "reserved"} => status'[i] = "absent"
      <3>1. \A i \in Jobs : i # j => status'[i] = status[i]
        BY <1>3, <2>0, <1>a, RowMoves
      <3> QED
        BY <2>1, <2>3, <3>1 DEF RowFollows
    <2> QED
      BY <2>4, <2>5, <2>6, <2>7 DEF RowFollows
  <1>4. ASSUME NEW h \in Handlers, Receive(h) \/ _schedule_retry(h) \/ Ack(h) \/ WorkerCrash(h)
        PROVE  RowFollows'
    BY <1>4, <1>a, <1>b DEF Receive, _schedule_retry, Ack, WorkerCrash, Goto, Release, jobVars
  <1>5. CASE BackoffExpires \/ UNCHANGED vars
    BY <1>5, <1>b DEF BackoffExpires, vars, jobVars, handlerVars
  <1> QED
    BY <1>1, <1>2, <1>3, <1>4, <1>5, NextCases

(***************************************************************************)
(* What the steps of a handler count: a claim counts an attempt, and the   *)
(* call of an attempt ends in at most one run that ended or was abandoned. *)
(***************************************************************************)
LEMMA WorkCounts ==
  ASSUME TypeOK, NEW h \in Handlers, Works(h), NEW j \in Jobs, j = msg[h].job
  PROVE  \/ /\ pc[h] = "claim" /\ pc'[h] = "call" /\ Claimable(j)
            /\ status' = [status EXCEPT ![j] = "running"]
            /\ attempts' = [attempts EXCEPT ![j] = @ + 1]
            /\ UNCHANGED <<effects, abandoned, notified>>
         \/ /\ pc[h] = "call" /\ pc'[h] # "call" /\ UNCHANGED <<attempts, status, notified>>
            /\ \/ effects' = [effects EXCEPT ![j] = @ + 1] /\ UNCHANGED abandoned
               \/ abandoned' = [abandoned EXCEPT ![j] = @ + 1] /\ UNCHANGED effects
               \/ UNCHANGED <<effects, abandoned>>
         \/ /\ pc[h] # "call" /\ pc'[h] # "call"
            /\ UNCHANGED <<attempts, effects, abandoned>>
  <1>a. pc \in [Handlers -> PCs]
    BY DEF TypeOK
  <1> USE DEF Goto, jobVars, harnessVars
  <1>1. CASE try_claim_job(h)
    BY <1>1, <1>a DEF try_claim_job
  <1>2. CASE HarnessSucceeds(h) \/ HarnessRunsAgain(h) \/ HarnessFails(h)
    BY <1>2, <1>a DEF HarnessSucceeds, HarnessRunsAgain, HarnessFails
  <1>3. CASE HarnessTimesOut(h)
    BY <1>3, <1>a DEF HarnessTimesOut
  <1>4. CASE ProcessJobRaises(h)
    BY <1>4, <1>a DEF ProcessJobRaises
  <1>5. CASE reconcile(h) \/ mark_job_succeeded(h) \/ mark_job_failed_will_retry(h)
             \/ mark_job_dead_lettered(h)
    BY <1>5, <1>a DEF reconcile, mark_job_succeeded, mark_job_failed_will_retry,
                      mark_job_dead_lettered, AfterTerminal
  <1>6. CASE SendWebhook(h) \/ update_job_callback_status(h) \/ _publish_to_dlq(h)
    BY <1>6, <1>a DEF SendWebhook, update_job_callback_status, _publish_to_dlq
  <1> QED
    BY <1>1, <1>2, <1>3, <1>4, <1>5, <1>6 DEF Works, HarnessAnswers

(***************************************************************************)
(* The attempts of a job stay within what its message and the crashes say. *)
(***************************************************************************)
LEMMA AttemptsCountedStep ==
  ASSUME Undisturbed, ContractInv, [Next]_vars
  PROVE  AttemptsCounted'
  <1> USE DEF ContractInv
  <1>a. /\ queue \in [Messages -> Nat] /\ holding \in [Messages -> Nat]
        /\ attempts \in [Jobs -> Nat] /\ faults \in [FaultKinds -> Nat]
        /\ submit \in [Jobs -> {"idle", "reserved", "inserted", "published", "lost"}]
        /\ msg \in [Handlers -> Messages] /\ pc \in [Handlers -> PCs]
        /\ \A m \in Messages : m.job \in Jobs /\ m.attempts \in Nat
        /\ faults["crash"] \in Nat
    BY MaxAttemptsNat DEF TypeOK, Messages, FaultKinds
  <1>b. ASSUME UNCHANGED attempts, faults'["crash"] = faults["crash"],
               \A j \in Jobs : submit'[j] # "published" => submit[j] # "published",
               \A m \in Messages : Waits(m)' => Waits(m),
               \A h \in Handlers : /\ pc'[h] = "claim" => pc[h] = "claim" /\ msg'[h] = msg[h]
                                   /\ Busy(h)' => Busy(h) /\ msg'[h] = msg[h]
        PROVE  AttemptsCounted'
    BY <1>b DEF AttemptsCounted
  <1>c. ASSUME NEW f \in {"error", "timeout", "loss"}, Fault(f)
        PROVE  faults'["crash"] = faults["crash"]
    BY <1>c, <1>a DEF Fault, FaultKinds
  <1>1. ASSUME NEW j \in Jobs,
               \/ SubmitReserve(j) \/ insert_async_job(j) \/ SubmitLost(j)
               \/ SweepReservation(j) \/ AbandonedRunEnds(j)
        PROVE  AttemptsCounted'
    BY <1>1, <1>a, <1>b, <1>c DEF SubmitReserve, insert_async_job, SubmitLost, SweepReservation,
            AbandonedRunEnds, Busy, Waits, jobVars, brokerVars, handlerVars
  <1>2. ASSUME NEW j \in Jobs, publish_job(j) PROVE AttemptsCounted'
    <2> DEFINE m0 == [job |-> j, attempts |-> 0]
    <2>1. m0 \in Messages /\ m0.job = j /\ m0.attempts = 0
      BY MaxAttemptsNat DEF Messages
    <2>2. /\ queue' = [queue EXCEPT ![m0] = @ + 1] /\ UNCHANGED <<attempts, holding, pc, msg, faults>>
          /\ submit[j] = "inserted" /\ submit' = [submit EXCEPT ![j] = "published"]
      BY <1>2 DEF publish_job, handlerVars, jobVars
    <2> HIDE DEF m0
    <2>3. \A m \in Messages : Waits(m)' => Waits(m) \/ m = m0
      BY <2>1, <2>2, <1>a DEF Waits
    <2>4. attempts[j] = 0
      BY <2>2 DEF AttemptsCounted
    <2>5. \A m \in Messages : Waits(m)' => attempts[m.job] <= m.attempts + faults["crash"]
      BY <2>1, <2>3, <2>4, <1>a DEF AttemptsCounted
    <2>6. \A i \in Jobs : submit'[i] # "published" => attempts[i] = 0
      BY <2>2, <1>a DEF AttemptsCounted
    <2>7. \A h \in Handlers : Busy(h)' <=> Busy(h)
      BY <2>2 DEF Busy
    <2> QED
      BY <2>2, <2>5, <2>6, <2>7 DEF AttemptsCounted
  <1>3. ASSUME NEW h \in Handlers, Receive(h) PROVE AttemptsCounted'
    <2>1. PICK n \in Messages : /\ queue[n] > 0
                                /\ queue' = [queue EXCEPT ![n] = @ - 1]
                                /\ msg' = [msg EXCEPT ![h] = n]
      BY <1>3 DEF Receive
    <2>2. /\ pc' = [pc EXCEPT ![h] = "claim"] /\ UNCHANGED <<holding, attempts, faults, submit>>
      BY <1>3 DEF Receive, jobVars
    <2>3. attempts[n.job] <= n.attempts + faults["crash"]
      BY <2>1 DEF AttemptsCounted, Waits
    <2>4. attempts[n.job] <= n.attempts + 1 + faults["crash"]
      BY <2>3, <1>a
    <2>5. \A m \in Messages : Waits(m)' => Waits(m)
      BY <2>1, <2>2, <1>a DEF Waits
    <2>6. \A g \in Handlers : g # h => pc'[g] = pc[g] /\ msg'[g] = msg[g] /\ (Busy(g)' => Busy(g))
      BY <2>1, <2>2, <1>a DEF Busy
    <2>7. msg'[h] = n
      BY <2>1, <1>a
    <2> QED
      BY <2>2, <2>3, <2>4, <2>5, <2>6, <2>7 DEF AttemptsCounted
  <1>4. ASSUME NEW h \in Handlers, Works(h) PROVE AttemptsCounted'
    <2>0. PICK j \in Jobs : j = msg[h].job
      BY <1>a
    <2>1. /\ Busy(h) /\ UNCHANGED <<submit, queue, holding, msg>>
          /\ \A g \in Handlers : g # h => pc'[g] = pc[g]
          /\ pc'[h] # "claim" /\ faults'["crash"] = faults["crash"]
      BY <1>4, WorksShape
    <2>2. CASE attempts' = attempts
      BY <2>1, <2>2, <1>b DEF Waits, Busy
    <2>3. CASE pc[h] = "claim" /\ attempts' = [attempts EXCEPT ![j] = @ + 1]
      <3>1. \A m \in Messages : Waits(m) => m.job # j
        BY <2>0, <2>1 DEF OneMessage
      <3>2. \A g \in Handlers : g # h /\ Busy(g) => msg[g].job # j
        BY <2>0, <2>1 DEF OneMessage
      <3>3. submit[j] = "published"
        BY <2>0, <2>1 DEF OnlyPublished, Busy
      <3>4. \A i \in Jobs : i # j => attempts'[i] = attempts[i]
        BY <2>3, <1>a
      <3>5. attempts'[j] = attempts[j] + 1 /\ attempts[j] <= msg[h].attempts + faults["crash"]
            /\ attempts[j] \in Nat /\ msg[h].attempts \in Nat
        BY <2>0, <2>3, <1>a DEF AttemptsCounted
      <3>6. attempts'[j] <= msg[h].attempts + 1 + faults["crash"]
        BY <3>5, <1>a
      <3>7. \A m \in Messages : Waits(m)' => attempts'[m.job] <= m.attempts + faults'["crash"]
        BY <2>1, <3>1, <3>4, <1>a DEF Waits, AttemptsCounted
      <3>8. \A i \in Jobs : submit'[i] # "published" => attempts'[i] = 0
        BY <2>1, <3>3, <3>4 DEF AttemptsCounted
      <3>9. ASSUME NEW g \in Handlers
            PROVE  /\ pc'[g] = "claim" => attempts'[msg'[g].job] <= msg'[g].attempts + faults'["crash"]
                   /\ Busy(g)' => attempts'[msg'[g].job] <= msg'[g].attempts + 1 + faults'["crash"]
        <4>1. CASE g = h
          BY <2>0, <2>1, <3>6, <4>1
        <4>2. CASE g # h
          BY <2>1, <3>2, <3>4, <4>2, <1>a DEF AttemptsCounted, Busy
        <4> QED
          BY <4>1, <4>2
      <3> QED
        BY <3>7, <3>8, <3>9 DEF AttemptsCounted
    <2> QED
      BY <1>4, <2>0, <2>2, <2>3, WorkCounts
  <1>5. ASSUME NEW h \in Handlers, _schedule_retry(h) PROVE AttemptsCounted'
    <2>1. /\ pc[h] = "retry" /\ pc' = [pc EXCEPT ![h] = "ack"]
          /\ UNCHANGED <<msg, queue, attempts, faults, submit>>
          /\ holding' = [holding EXCEPT ![NextAttempt(msg[h])] = @ + 1]
      BY <1>5 DEF _schedule_retry, Goto, jobVars
    <2>2. /\ NextAttempt(msg[h]) \in Messages /\ NextAttempt(msg[h]).job = msg[h].job
          /\ NextAttempt(msg[h]).attempts = msg[h].attempts + 1
      <3>1. msg[h] \in Messages /\ msg[h].attempts < MAX_ATTEMPTS
        BY <2>1, <1>a DEF RetriesLeft
      <3> QED
        BY <3>1, MaxAttemptsNat DEF NextAttempt, Messages
    <2>3. \A m \in Messages : Waits(m)' => Waits(m) \/ m = NextAttempt(msg[h])
      BY <2>1, <2>2, <1>a DEF Waits
    <2>4. attempts[msg[h].job] <= msg[h].attempts + 1 + faults["crash"]
      BY <2>1 DEF AttemptsCounted, Busy
    <2>5. \A m \in Messages : Waits(m)' => attempts[m.job] <= m.attempts + faults["crash"]
      BY <2>2, <2>3, <2>4 DEF AttemptsCounted
    <2>6. \A g \in Handlers : /\ pc'[g] = "claim" => pc[g] = "claim"
                              /\ Busy(g)' => Busy(g)
      BY <2>1, <1>a DEF Busy
    <2> QED
      BY <2>1, <2>5, <2>6 DEF AttemptsCounted
  <1>6. ASSUME NEW h \in Handlers, Ack(h) PROVE AttemptsCounted'
    BY <1>6, <1>a, <1>b DEF Ack, Release, Busy, Waits, jobVars, brokerVars
  <1>7. ASSUME NEW h \in Handlers, WorkerCrash(h) PROVE AttemptsCounted'
    <2>1. /\ Busy(h) /\ ~Busy(h)' /\ pc'[h] # "claim" /\ queue' = Requeue(h)
          /\ UNCHANGED <<holding, attempts, submit>>
          /\ \A g \in Handlers : g # h => pc'[g] = pc[g] /\ msg'[g] = msg[g]
          /\ faults'["crash"] = faults["crash"] + 1
      BY <1>7, <1>a, CrashPointsOK
      DEF WorkerCrash, Release, Busy, Undisturbed, Fault, FaultKinds, jobVars
    <2>2. \A m \in Messages : Waits(m)' => Waits(m) \/ m = msg[h]
      BY <2>1, <1>a DEF Waits, Requeue
    <2>3. attempts[msg[h].job] <= msg[h].attempts + 1 + faults["crash"]
      BY <2>1 DEF AttemptsCounted
    <2>4. \A m \in Messages : attempts[m.job] \in Nat /\ m.attempts \in Nat
      BY <1>a
    <2>5. ASSUME NEW m \in Messages, Waits(m)'
          PROVE  attempts[m.job] <= m.attempts + (faults["crash"] + 1)
      <3>1. CASE m = msg[h]
        BY <2>3, <2>4, <3>1, <1>a
      <3>2. CASE Waits(m)
        <4>1. attempts[m.job] <= m.attempts + faults["crash"]
          BY <3>2 DEF AttemptsCounted
        <4> QED
          BY <4>1, <2>4, <1>a
      <3> QED
        BY <2>2, <2>5, <3>1, <3>2
    <2>6. ASSUME NEW g \in Handlers
          PROVE  /\ pc'[g] = "claim" => attempts[msg'[g].job] <= msg'[g].attempts + (faults["crash"] + 1)
                 /\ Busy(g)' => attempts[msg'[g].job] <= msg'[g].attempts + 1 + (faults["crash"] + 1)
      <3>1. CASE g = h
        BY <2>1, <3>1
      <3>2. CASE g # h
        <4>1. pc'[g] = pc[g] /\ msg'[g] = msg[g] /\ (Busy(g)' => Busy(g))
          BY <2>1, <3>2 DEF Busy
        <4>2. /\ pc[g] = "claim" => attempts[msg[g].job] <= msg[g].attempts + faults["crash"]
              /\ Busy(g) => attempts[msg[g].job] <= msg[g].attempts + 1 + faults["crash"]
          BY DEF AttemptsCounted
        <4>3. msg[g] \in Messages /\ attempts[msg[g].job] \in Nat /\ msg[g].attempts \in Nat
          BY <1>a
        <4>4. /\ pc[g] = "claim" => attempts[msg[g].job] <= msg[g].attempts + (faults["crash"] + 1)
              /\ Busy(g) => attempts[msg[g].job] <= msg[g].attempts + 1 + (faults["crash"] + 1)
          BY <4>2, <4>3, <1>a
        <4> QED
          BY <4>1, <4>4
      <3> QED
        BY <3>1, <3>2
    <2> QED
      BY <2>1, <2>5, <2>6 DEF AttemptsCounted
  <1>8. CASE BackoffExpires
    <2>1. \A m \in Messages : Waits(m)' => Waits(m)
      BY <1>8, <1>a DEF BackoffExpires, Waits
    <2> QED
      BY <1>8, <2>1, <1>b DEF BackoffExpires, Busy, jobVars, handlerVars
  <1>9. CASE UNCHANGED vars
    BY <1>9, <1>b DEF vars, Busy, Waits, jobVars, brokerVars, handlerVars
  <1> QED
    BY <1>1, <1>2, <1>3, <1>4, <1>5, <1>6, <1>7, <1>8, <1>9, NextCases

(***************************************************************************)
(* Every run that ended or goes on without its caller has its attempt.     *)
(***************************************************************************)
LEMMA RunsCountedStep ==
  ASSUME Undisturbed, ContractInv, [Next]_vars
  PROVE  RunsCounted'
  <1> USE DEF ContractInv
  <1>a. /\ attempts \in [Jobs -> Nat] /\ effects \in [Jobs -> Nat] /\ abandoned \in [Jobs -> Nat]
        /\ msg \in [Handlers -> Messages] /\ pc \in [Handlers -> PCs]
        /\ \A h \in Handlers : msg[h].job \in Jobs
    BY DEF TypeOK, Messages
  <1>b. ASSUME UNCHANGED <<attempts, effects, abandoned>>,
               \A h \in Handlers : pc'[h] = "call" => pc[h] = "call" /\ msg'[h] = msg[h]
        PROVE  RunsCounted'
    BY <1>b DEF RunsCounted
  \* The call of handler h on job j ends, in at most one run.
  <1>c. ASSUME NEW h \in Handlers, NEW j \in Jobs, j = msg[h].job, pc[h] = "call", pc'[h] # "call",
               UNCHANGED attempts,
               \A g \in Handlers : g # h => pc'[g] = pc[g] /\ msg'[g] = msg[g],
               \/ effects' = [effects EXCEPT ![j] = @ + 1] /\ UNCHANGED abandoned
               \/ abandoned' = [abandoned EXCEPT ![j] = @ + 1] /\ UNCHANGED effects
               \/ UNCHANGED <<effects, abandoned>>
        PROVE  RunsCounted'
    <2>1. effects[j] + abandoned[j] < attempts[j]
      BY <1>c DEF RunsCounted
    <2>2. \A g \in Handlers : g # h /\ pc[g] = "call" => msg[g].job # j
      BY <1>c DEF OneMessage, Busy
    <2>3. \A i \in Jobs : i # j => effects'[i] = effects[i] /\ abandoned'[i] = abandoned[i]
      BY <1>c, <1>a
    <2>4. effects'[j] + abandoned'[j] <= attempts[j]
      BY <1>c, <2>1, <1>a
    <2> QED
      BY <1>c, <2>2, <2>3, <2>4, <1>a DEF RunsCounted
  <1>1. ASSUME NEW j \in Jobs, AbandonedRunEnds(j) PROVE RunsCounted'
    <2>1. /\ abandoned[j] > 0 /\ abandoned' = [abandoned EXCEPT ![j] = @ - 1]
          /\ effects' = [effects EXCEPT ![j] = @ + 1] \/ effects' = effects
          /\ UNCHANGED <<attempts, pc, msg>>
      BY <1>1 DEF AbandonedRunEnds, jobVars, handlerVars
    <2>2. \A i \in Jobs : effects'[i] + abandoned'[i] <= effects[i] + abandoned[i]
      BY <2>1, <1>a
    <2>3. \A i \in Jobs : effects'[i] + abandoned'[i] \in Nat /\ effects[i] + abandoned[i] \in Nat
                          /\ attempts[i] \in Nat
      BY <2>1, <1>a
    <2>4. \A i \in Jobs : effects'[i] + abandoned'[i] <= attempts[i]
      BY <2>2, <2>3 DEF RunsCounted
    <2>5. ASSUME NEW h \in Handlers, pc[h] = "call"
          PROVE  effects'[msg[h].job] + abandoned'[msg[h].job] < attempts[msg[h].job]
      <3>1. effects[msg[h].job] + abandoned[msg[h].job] < attempts[msg[h].job] /\ msg[h].job \in Jobs
        BY <2>5, <1>a DEF RunsCounted
      <3> QED
        BY <3>1, <2>2, <2>3
    <2> QED
      BY <2>1, <2>4, <2>5 DEF RunsCounted
  <1>2. ASSUME NEW j \in Jobs,
               \/ SubmitReserve(j) \/ insert_async_job(j) \/ publish_job(j) \/ SubmitLost(j)
               \/ SweepReservation(j)
        PROVE  RunsCounted'
    BY <1>2, <1>b DEF SubmitReserve, insert_async_job, publish_job, SubmitLost, SweepReservation,
                      jobVars, harnessVars, handlerVars
  <1>3. ASSUME NEW h \in Handlers, Works(h) PROVE RunsCounted'
    <2>0. PICK j \in Jobs : j = msg[h].job
      BY <1>a
    <2>1. /\ Busy(h) /\ UNCHANGED msg /\ \A g \in Handlers : g # h => pc'[g] = pc[g]
      BY <1>3, WorksShape
    <2>2. CASE /\ pc[h] = "claim" /\ attempts' = [attempts EXCEPT ![j] = @ + 1]
               /\ UNCHANGED <<effects, abandoned>>
      <3>1. attempts'[j] = attempts[j] + 1 /\ \A i \in Jobs : i # j => attempts'[i] = attempts[i]
        BY <2>2, <1>a
      <3>2. effects[j] + abandoned[j] < attempts'[j]
        BY <3>1, <1>a DEF RunsCounted
      <3>3. \A i \in Jobs : effects[i] + abandoned[i] <= attempts'[i]
        BY <3>1, <3>2, <1>a DEF RunsCounted
      <3>4. \A g \in Handlers : pc'[g] = "call" =>
               effects[msg[g].job] + abandoned[msg[g].job] < attempts'[msg[g].job]
        BY <2>0, <2>1, <3>1, <3>2, <1>a DEF RunsCounted
      <3> QED
        BY <2>1, <2>2, <3>3, <3>4 DEF RunsCounted
    <2>3. CASE /\ pc[h] = "call" /\ pc'[h] # "call" /\ UNCHANGED attempts
               /\ \/ effects' = [effects EXCEPT ![j] = @ + 1] /\ UNCHANGED abandoned
                  \/ abandoned' = [abandoned EXCEPT ![j] = @ + 1] /\ UNCHANGED effects
                  \/ UNCHANGED <<effects, abandoned>>
      BY <2>0, <2>1, <2>3, <1>c
    <2>4. CASE pc'[h] # "call" /\ UNCHANGED <<attempts, effects, abandoned>>
      BY <2>1, <2>4, <1>b
    <2> QED
      BY <1>3, <2>0, <2>2, <2>3, <2>4, WorkCounts
  <1>4. ASSUME NEW h \in Handlers, Receive(h) \/ _schedule_retry(h) \/ Ack(h)
        PROVE  RunsCounted'
    BY <1>4, <1>a, <1>b DEF Receive, _schedule_retry, Ack, Goto, Release, jobVars, harnessVars
  <1>5. ASSUME NEW h \in Handlers, WorkerCrash(h) PROVE RunsCounted'
    <2>0. PICK j \in Jobs : j = msg[h].job
      BY <1>a
    <2>1. /\ pc'[h] # "call" /\ UNCHANGED <<attempts, effects>>
          /\ \A g \in Handlers : g # h => pc'[g] = pc[g] /\ msg'[g] = msg[g]
          /\ \/ pc[h] = "call" /\ abandoned' = [abandoned EXCEPT ![j] = @ + 1]
             \/ UNCHANGED abandoned
      BY <1>5, <2>0, <1>a DEF WorkerCrash, Release, jobVars
    <2>2. CASE pc[h] = "call" /\ abandoned' = [abandoned EXCEPT ![j] = @ + 1]
      BY <2>0, <2>1, <2>2, <1>c
    <2>3. CASE UNCHANGED abandoned
      BY <2>1, <2>3, <1>b
    <2> QED
      BY <2>1, <2>2, <2>3
  <1>6. CASE BackoffExpires \/ UNCHANGED vars
    BY <1>6, <1>b DEF BackoffExpires, vars, jobVars, harnessVars, handlerVars
  <1> QED
    BY <1>1, <1>2, <1>3, <1>4, <1>5, <1>6, NextCases

(***************************************************************************)
(* Every step is a step of the contract on one row, or invisible to it.    *)
(***************************************************************************)
LEMMA ContractStep ==
  ASSUME Undisturbed, ContractInv, [Next]_vars
  PROVE  [Contract!Next]_(Contract!vars)
  <1> USE DEF ContractInv
  <1>a. /\ attempts \in [Jobs -> Nat] /\ effects \in [Jobs -> Nat] /\ abandoned \in [Jobs -> Nat]
        /\ \A h \in Handlers : msg[h] \in Messages /\ msg[h].job \in Jobs
                               /\ msg[h].attempts \in 0 .. MAX_ATTEMPTS
        /\ faults["crash"] \in Nat /\ faults["crash"] <= Budget["crash"] /\ Budget["crash"] \in Nat
    BY BudgetOK DEF TypeOK, Messages, BudgetKept, FaultKinds
  <1>b. ASSUME UNCHANGED <<status, attempts, effects, notified>>
        PROVE  [Contract!Next]_(Contract!vars)
    BY <1>b DEF Contract!vars
  <1>1. ASSUME NEW j \in Jobs, insert_async_job(j)
        PROVE  [Contract!Next]_(Contract!vars)
    <2>1. Contract!Accept(j)
      BY <1>1 DEF insert_async_job, RowFollows, Contract!Accept, Contract!Move, harnessVars
    <2> QED
      BY <2>1 DEF Contract!Next
  <1>2. ASSUME NEW j \in Jobs, AbandonedRunEnds(j)
        PROVE  [Contract!Next]_(Contract!vars)
    <2>1. CASE effects' = effects
      BY <1>2, <2>1, <1>b DEF AbandonedRunEnds, jobVars
    <2>2. CASE effects' = [effects EXCEPT ![j] = @ + 1]
      <3>1. effects[j] < attempts[j]
        BY <1>2, <1>a DEF AbandonedRunEnds, RunsCounted
      <3>2. Contract!RunEnds(j)
        BY <1>2, <2>2, <3>1 DEF AbandonedRunEnds, Contract!RunEnds, jobVars
      <3> QED
        BY <3>2 DEF Contract!Next
    <2> QED
      BY <1>2, <2>1, <2>2 DEF AbandonedRunEnds
  <1>3. ASSUME NEW j \in Jobs,
               SubmitReserve(j) \/ publish_job(j) \/ SubmitLost(j) \/ SweepReservation(j)
        PROVE  [Contract!Next]_(Contract!vars)
    BY <1>3, <1>b DEF SubmitReserve, publish_job, SubmitLost, SweepReservation, jobVars, harnessVars
  <1>4. ASSUME NEW h \in Handlers, Works(h)
        PROVE  [Contract!Next]_(Contract!vars)
    <2>0. PICK j \in Jobs : j = msg[h].job
      BY <1>a
    <2>1. CASE /\ pc[h] = "claim" /\ Claimable(j)
               /\ status' = [status EXCEPT ![j] = "running"]
               /\ attempts' = [attempts EXCEPT ![j] = @ + 1]
               /\ UNCHANGED <<effects, notified>>
      <3>1. attempts[j] < MAX_ATTEMPTS + 1 + Budget["crash"]
        <4>1. attempts[j] <= msg[h].attempts + faults["crash"]
          BY <2>0, <2>1 DEF AttemptsCounted
        <4> QED
          BY <4>1, <1>a, MaxAttemptsNat
      <3>2. Contract!Claim(j)
        BY <2>1, <3>1 DEF Claimable, Contract!Claim, Contract!Move
      <3> QED
        BY <3>2 DEF Contract!Next
    <2>2. CASE /\ pc[h] = "call" /\ UNCHANGED <<attempts, status, notified>>
               /\ effects' = [effects EXCEPT ![j] = @ + 1] \/ UNCHANGED effects
      <3>1. effects[j] < attempts[j]
        BY <2>0, <2>2, <1>a DEF RunsCounted
      <3>2. CASE UNCHANGED effects
        BY <2>2, <3>2, <1>b
      <3>3. CASE effects' = [effects EXCEPT ![j] = @ + 1]
        <4>1. Contract!RunEnds(j)
          BY <2>2, <3>1, <3>3 DEF Contract!RunEnds
        <4> QED
          BY <4>1 DEF Contract!Next
      <3> QED
        BY <2>2, <3>2, <3>3
    <2>3. CASE pc'[h] # "call" /\ UNCHANGED <<attempts, effects>>
      <3>1. CASE /\ status' = status /\ status[j] \in Terminal
                 /\ notified' = [notified EXCEPT ![j] = {status[j]}]
        <4>1. Contract!Notify(j)
          BY <2>3, <3>1 DEF Contract!Notify, Contract!Terminal, Terminal
        <4> QED
          BY <4>1 DEF Contract!Next
      <3>2. CASE notified' = notified
        <4>1. CASE status' = status
          BY <2>3, <3>2, <4>1, <1>b
        <4>2. CASE status[j] = "running" /\ status' = [status EXCEPT ![j] = "succeeded"]
          <5>1. Contract!Succeed(j)
            BY <2>3, <3>2, <4>2 DEF Contract!Succeed, Contract!Move
          <5> QED
            BY <5>1 DEF Contract!Next
        <4>3. CASE status[j] = "running" /\ status' = [status EXCEPT ![j] = "failed"]
          <5>1. Contract!Fail(j)
            BY <2>3, <3>2, <4>3 DEF Contract!Fail, Contract!Move
          <5> QED
            BY <5>1 DEF Contract!Next
        <4>4. CASE status[j] = "failed" /\ status' = [status EXCEPT ![j] = "dead_lettered"]
          <5>1. Contract!DeadLetter(j)
            BY <2>3, <3>2, <4>4 DEF Contract!DeadLetter, Contract!Move
          <5> QED
            BY <5>1 DEF Contract!Next
        <4> QED
          BY <1>4, <2>0, <2>3, <4>1, <4>2, <4>3, <4>4, RowMoves
      <3> QED
        BY <1>4, <2>0, <3>1, <3>2, TenantTold
    <2> QED
      BY <1>4, <2>0, <2>1, <2>2, <2>3, WorkCounts
  <1>5. ASSUME NEW h \in Handlers, Receive(h) \/ _schedule_retry(h) \/ Ack(h) \/ WorkerCrash(h)
        PROVE  [Contract!Next]_(Contract!vars)
    BY <1>5, <1>b DEF Receive, _schedule_retry, Ack, WorkerCrash, jobVars, harnessVars
  <1>6. CASE BackoffExpires \/ UNCHANGED vars
    BY <1>6, <1>b DEF BackoffExpires, vars, jobVars, harnessVars
  <1> QED
    BY <1>1, <1>2, <1>3, <1>4, <1>5, <1>6, NextCases

(***************************************************************************)
(* Rows, runs and webhooks implement JobContract for every number of jobs, *)
(* handlers and retries, and any number of crashes, errors and timeouts,   *)
(* as long as nothing duplicates a message: the tenant sees one attempt at *)
(* a time, at most MAX_ATTEMPTS + 1 of them and one more per crash, final  *)
(* statuses that stay, and webhooks that say what the row says.            *)
(***************************************************************************)
THEOREM JobsFollowContract ==
  ASSUME Undisturbed
  PROVE  Spec => FollowsContract
  <1>1. Init => ContractInv /\ Contract!Init
    <2> SUFFICES ASSUME Init PROVE ContractInv /\ Contract!Init
      OBVIOUS
    <2>1. TypeOK /\ OnlyPublished /\ RetriesLeft
      BY PlaceholderIsMessage
      DEF Init, TypeOK, OnlyPublished, RetriesLeft, Statuses, Terminal, Results, PCs, NoMessages
    <2>2. BudgetKept
      BY BudgetOK DEF Init, BudgetKept
    <2>3. \A m \in Messages : queue[m] = 0 /\ holding[m] = 0
      BY DEF Init, NoMessages
    <2>4. \A h \in Handlers : pc[h] = "idle"
      BY DEF Init
    <2>5. OneMessage
      BY <2>3, <2>4 DEF OneMessage, Waits, Busy
    <2>6. RowFollows
      BY <2>4 DEF Init, RowFollows, RowOf, Attempting
    <2>7. AttemptsCounted
      BY <2>3, <2>4 DEF Init, AttemptsCounted, Waits, Busy
    <2>8. RunsCounted
      BY <2>4 DEF Init, RunsCounted
    <2>9. Contract!Init
      BY DEF Init, Contract!Init
    <2> QED
      BY <2>1, <2>2, <2>5, <2>6, <2>7, <2>8, <2>9 DEF ContractInv
  <1>2. ContractInv /\ [Next]_vars => ContractInv' /\ [Contract!Next]_(Contract!vars)
    <2> SUFFICES ASSUME ContractInv, [Next]_vars
                 PROVE  ContractInv' /\ [Contract!Next]_(Contract!vars)
      OBVIOUS
    <2>1. TypeOK' /\ OnlyPublished' /\ RetriesLeft' /\ BudgetKept'
      BY TypeStep, OnlyPublishedStep, RetriesStep, BudgetStep DEF ContractInv
    <2>2. OneMessage' /\ RowFollows' /\ AttemptsCounted' /\ RunsCounted'
      BY OneMessageStep, RowStep, AttemptsCountedStep, RunsCountedStep
    <2>3. [Contract!Next]_(Contract!vars)
      BY ContractStep
    <2> QED
      BY <2>1, <2>2, <2>3 DEF ContractInv
  <1> QED
    BY <1>1, <1>2, PTL DEF Spec, FollowsContract, Contract!Spec
=============================================================================
