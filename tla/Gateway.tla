------------------------------- MODULE Gateway -------------------------------
(***************************************************************************)
(* The two idempotent endpoints of gateway/api/routes.py, invoke (sync)    *)
(* and submit_job (async), on the jobs.idempotency_keys table they share.  *)
(* A request is one HTTP call; a client that retries sends another request *)
(* with the same key and body.  Every database transaction, every Redis    *)
(* script, the call to harness, the publication of the job and the answer  *)
(* to the client is one step; requests run on any number of instances.     *)
(*                                                                         *)
(* A request dies (at most MaxDeaths of them) when its instance crashes or *)
(* an exception the handler does not catch (Redis, Postgres, the broker, a *)
(* harness answer that does not parse) escapes: the client sees a broken   *)
(* connection or a 500 and nothing is cleaned up.                          *)
(***************************************************************************)
EXTENDS Naturals, FiniteSets

CONSTANTS
    Requests,   \* HTTP requests
    Keys,       \* (tenant, Idempotency-Key) pairs
    KeyOf,      \* [Requests -> Keys]
    BodyOf,     \* request_hash: [Requests -> bodies]
    Async,      \* the requests that go to submit_job, the others go to invoke
    MaxDeaths

ASSUME RequestsOK ==
    /\ KeyOf \in [Requests -> Keys]
    /\ Async \subseteq Requests
    /\ MaxDeaths \in Nat
\* AgentJobRequest has fields AgentInvokeRequest lacks, so bodies of the two endpoints
\* never hash alike.
ASSUME BodiesOK ==
    /\ DOMAIN BodyOf = Requests
    /\ \A r, q \in Requests : BodyOf[r] = BodyOf[q] => (r \in Async <=> q \in Async)

VARIABLES
    row,          \* the key's row: "absent", "in_progress" or the stored verdict
    winner,       \* [Keys -> Requests \cup {NoOne}]: whose request_hash and body it stores
    pc,           \* program point of the handler
    verdict,      \* what this request is about to store and answer
    reservation,  \* the request's token reservation
    called,       \* requests that called harness
    inserted,     \* requests whose async_jobs row exists
    published,    \* requests whose job message is on the exchange
    answer,       \* what the client got
    answerOf,     \* the request whose run or job that answer is about
    deaths

vars == <<row, winner, pc, verdict, reservation, called, inserted, published,
          answer, answerOf, deaths>>

NoOne == "no one"
Success == {"ok", "accepted"}
Failure == {"quota_exceeded", "timeout", "unavailable"}
Refusal == {"mismatch", "retry_later"}
PCs == {"new", "reserve", "call", "insert", "publish", "reconcile", "complete",
        "reply", "replied", "dead"}

TypeOK ==
    /\ row \in [Keys -> {"absent", "in_progress"} \cup Success \cup Failure]
    /\ winner \in [Keys -> Requests \cup {NoOne}]
    /\ pc \in [Requests -> PCs]
    /\ verdict \in [Requests -> {"none", "internal_error"} \cup Success \cup Failure \cup Refusal]
    /\ \A r \in Requests : pc[r] \in {"reconcile", "complete", "reply"}
                            => verdict[r] \in Success \cup Failure
    /\ reservation \in [Requests -> {"none", "held", "settled"}]
    /\ called \subseteq Requests /\ inserted \subseteq Requests /\ published \subseteq Requests
    /\ answer \in [Requests -> {"none", "internal_error"} \cup Success \cup Failure \cup Refusal]
    /\ answerOf \in [Requests -> Requests \cup {NoOne}]
    /\ deaths \in Nat

Init ==
    /\ row = [k \in Keys |-> "absent"]
    /\ winner = [k \in Keys |-> NoOne]
    /\ pc = [r \in Requests |-> "new"]
    /\ verdict = [r \in Requests |-> "none"]
    /\ reservation = [r \in Requests |-> "none"]
    /\ called = {} /\ inserted = {} /\ published = {}
    /\ answer = [r \in Requests |-> "none"]
    /\ answerOf = [r \in Requests |-> NoOne]
    /\ deaths = 0
-----------------------------------------------------------------------------
Goto(r, point, v) == /\ pc' = [pc EXCEPT ![r] = point]
                     /\ verdict' = [verdict EXCEPT ![r] = v]

\* Mutant of KeyFree: look for a finished row first, then insert (SELECT, then INSERT).
KeyNotFinished(k) == row[k] \in {"absent", "in_progress"}

KeyFree(k) == row[k] = "absent"

\* try_begin inserted the row: this request owns the key.
BeginWon(r) ==
    LET k == KeyOf[r] IN
    /\ pc[r] = "new"
    /\ KeyFree(k)
    /\ row' = [row EXCEPT ![k] = "in_progress"]
    /\ winner' = [winner EXCEPT ![k] = r]
    /\ Goto(r, "reserve", "none")
    /\ UNCHANGED <<reservation, called, inserted, published, answer, answerOf, deaths>>

\* Mutants of ExistingVerdict: a row still in progress is returned as if it were an
\* answer / the request hash is not compared.
ExistingUnfinished(r) ==
    LET k == KeyOf[r] IN
    IF BodyOf[winner[k]] # BodyOf[r] THEN "mismatch"
    ELSE IF row[k] \in Failure THEN "internal_error" ELSE row[k]
ExistingAnyBody(r) ==
    LET k == KeyOf[r] IN
    IF row[k] = "in_progress" THEN "retry_later"
    ELSE IF row[k] \in Success THEN row[k] ELSE "internal_error"

\* try_begin met the unique constraint; get_existing decides the answer.  A stored
\* error body does not validate as the endpoint's response model, so replaying it
\* raises inside the handler.
ExistingVerdict(r) ==
    LET k == KeyOf[r] IN
    IF BodyOf[winner[k]] # BodyOf[r] THEN "mismatch"
    ELSE IF row[k] = "in_progress" THEN "retry_later"
    ELSE IF row[k] \in Success THEN row[k] ELSE "internal_error"

BeginLost(r) ==
    LET k == KeyOf[r] IN
    /\ pc[r] = "new"
    /\ ~KeyFree(k)
    /\ Goto(r, "replied", ExistingVerdict(r))
    /\ answer' = [answer EXCEPT ![r] = ExistingVerdict(r)]
    /\ answerOf' = [answerOf EXCEPT ![r] =
                      IF ExistingVerdict(r) \in Success THEN winner[k] ELSE NoOne]
    /\ UNCHANGED <<row, winner, reservation, called, inserted, published, deaths>>

Reserve(r) ==
    /\ pc[r] = "reserve"
    /\ \/ /\ reservation' = [reservation EXCEPT ![r] = "held"]
          /\ Goto(r, IF r \in Async THEN "insert" ELSE "call", "none")
       \/ /\ UNCHANGED reservation
          /\ Goto(r, "complete", "quota_exceeded")
    /\ UNCHANGED <<row, winner, called, inserted, published, answer, answerOf, deaths>>

\* invoke: harness.run returns, times out, or fails with another httpx.HTTPError.
CallHarness(r) ==
    /\ pc[r] = "call"
    /\ called' = called \cup {r}
    /\ \E v \in {"ok", "timeout", "unavailable"} : Goto(r, "reconcile", v)
    /\ UNCHANGED <<row, winner, reservation, inserted, published, answer, answerOf, deaths>>

\* invoke: quota.reconcile, with the actual use or with 0 after a failure.
Reconcile(r) ==
    /\ pc[r] = "reconcile"
    /\ reservation' = [reservation EXCEPT ![r] = "settled"]
    /\ Goto(r, "complete", verdict[r])
    /\ UNCHANGED <<row, winner, called, inserted, published, answer, answerOf, deaths>>

\* Mutant of InsertJob: the job is accepted once its row exists.
InsertJobOnly(r) ==
    /\ pc[r] = "insert"
    /\ inserted' = inserted \cup {r}
    /\ Goto(r, "complete", "accepted")
    /\ UNCHANGED <<row, winner, reservation, called, published, answer, answerOf, deaths>>

\* submit_job: the row, then the message.
InsertJob(r) ==
    /\ pc[r] = "insert"
    /\ inserted' = inserted \cup {r}
    /\ Goto(r, "publish", "none")
    /\ UNCHANGED <<row, winner, reservation, called, published, answer, answerOf, deaths>>

PublishJob(r) ==
    /\ pc[r] = "publish"
    /\ published' = published \cup {r}
    /\ Goto(r, "complete", "accepted")
    /\ UNCHANGED <<row, winner, reservation, called, inserted, answer, answerOf, deaths>>

\* complete(): store the answer under the key; then send it.
Complete(r) ==
    /\ pc[r] = "complete"
    /\ row' = [row EXCEPT ![KeyOf[r]] = verdict[r]]
    /\ Goto(r, "reply", verdict[r])
    /\ UNCHANGED <<winner, reservation, called, inserted, published, answer, answerOf, deaths>>

Reply(r) ==
    /\ pc[r] = "reply"
    /\ answer' = [answer EXCEPT ![r] = verdict[r]]
    /\ answerOf' = [answerOf EXCEPT ![r] = r]
    /\ Goto(r, "replied", verdict[r])
    /\ UNCHANGED <<row, winner, reservation, called, inserted, published, deaths>>

\* A death while harness is being called may leave the run going there.
RequestDies(r) ==
    /\ pc[r] \notin {"new", "replied", "dead"}
    /\ deaths < MaxDeaths
    /\ deaths' = deaths + 1
    /\ Goto(r, "dead", "none")
    /\ called' = IF pc[r] = "call" THEN called \cup {r} ELSE called
    /\ UNCHANGED <<row, winner, reservation, inserted, published, answer, answerOf>>

Handle(r) ==
    \/ BeginWon(r) \/ BeginLost(r) \/ Reserve(r) \/ CallHarness(r) \/ Reconcile(r)
    \/ InsertJob(r) \/ PublishJob(r) \/ Complete(r) \/ Reply(r)

Next == \E r \in Requests : Handle(r) \/ RequestDies(r)

Spec == Init /\ [][Next]_vars

\* The event loop of a live instance runs every handler; harness answers within the
\* client timeout.  A client need not send a request, but TLC loses nothing by assuming
\* that those in Requests are sent.
FairSpec == Spec /\ \A r \in Requests : WF_vars(Handle(r))
-----------------------------------------------------------------------------
\* Work was started for the request: an agent run, or a job row.
Worked(r) == r \in called \cup inserted

\* The INSERT-first race on the unique key: of all requests with one key, on any
\* instance and however they interleave or die, at most one starts an agent run or a job.
OneWorkPerKey ==
    \A r, q \in Requests : KeyOf[r] = KeyOf[q] /\ Worked(r) /\ Worked(q) => r = q

\* A client that gets a success gets the result of a run, or the id of a published job,
\* that was started for the very body it sent, and the same one on every retry.
RepliesAgree ==
    \A r \in Requests : answer[r] \in Success =>
        /\ answer[r] = "ok" => answerOf[r] \in called
        /\ answer[r] = "accepted" => answerOf[r] \in published
        /\ BodyOf[answerOf[r]] = BodyOf[r]
        /\ \A q \in Requests :
             KeyOf[q] = KeyOf[r] /\ answer[q] \in Success => answerOf[q] = answerOf[r]

\* The inductive invariants behind the two: a request past try_begin, or with work to its
\* name, owns its key for good; what is about to be answered, or stored, is done.
Active(r) == pc[r] \notin {"new", "replied", "dead"}
OwnsKey == \A r \in Requests : Active(r) \/ Worked(r) =>
               row[KeyOf[r]] # "absent" /\ winner[KeyOf[r]] = r
Backed(v, r) == (v = "ok" => r \in called) /\ (v = "accepted" => r \in published)
VerdictsBacked == /\ \A r \in Requests : Active(r) => Backed(verdict[r], r)
                  /\ \A k \in Keys : Backed(row[k], winner[k])
AnswersOwned ==
    \A r \in Requests : answer[r] \in Success =>
        /\ row[KeyOf[r]] # "absent" /\ answerOf[r] = winner[KeyOf[r]]
        /\ Backed(answer[r], answerOf[r]) /\ BodyOf[answerOf[r]] = BodyOf[r]
GatewayInv == TypeOK /\ OwnsKey /\ VerdictsBacked /\ AnswersOwned

\* A retry of a request whose run failed gets an answer the endpoint meant to give.
CleanReattempt == \A r \in Requests : answer[r] # "internal_error"

Died(r) == pc[r] = "dead"

\* A key that is in progress is eventually completed unless its request dies, whatever the
\* quota or harness says, so a client that follows the 409 and its Retry-After gets an
\* answer; by then the job has its message, and invoke has settled its reservation.
KeyCompletes ==
    \A k \in Keys, r \in Requests :
        row[k] = "in_progress" /\ winner[k] = r
          ~> \/ /\ row[k] \notin {"absent", "in_progress"}
                /\ r \in inserted => r \in published
                /\ r \notin Async => reservation[r] # "held"
             \/ Died(r)
=============================================================================
