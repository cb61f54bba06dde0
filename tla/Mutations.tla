------------------------------ MODULE Mutations ------------------------------
(***************************************************************************)
(* Mutating tool calls, from preview to audit row: harness's               *)
(* _execute_mutation inside an agent run, decide_approval on behalf of     *)
(* human approvers, and the preview tokens, idempotency records and leave  *)
(* balances of the business API.                                           *)
(*                                                                         *)
(* A mutation is one tool call of one run.  Its row in                     *)
(* audit.mutation_requests is written when the run ends, in the run's      *)
(* single persisting transaction.  A decision runs in one transaction of   *)
(* its own that stays open across the HTTP call to the business API; row   *)
(* shows committed values only, and the row lock of a claim is derived     *)
(* from the program points of the deciders.                                *)
(*                                                                         *)
(* The execute handler of the business API never suspends (its asyncio     *)
(* locks are free whenever it asks), so it is one step.  A caller that     *)
(* times out leaves its request behind, to be handled later or never.      *)
(***************************************************************************)
EXTENDS Integers

CONSTANTS
    Mutations,      \* mutating tool calls, one per run
    NeedsApproval,  \* those the preview finds to be of high risk
    Days,           \* leave days a mutation takes (0: a payroll adjustment)
    Seed,           \* the employee's leave balance in seed/business_state.json
    Deciders,       \* POST /v1/approvals/{id}/decision requests
    Target,         \* the mutation whose approval_id the request names
    Decision,       \* "approve" or "reject"
    Permitted,      \* deciders who hold the required approver permission
    Actors,         \* deciders who are the user the run acted for
    MaxDisruptions  \* bound on restarts of the business API and uses of its reset endpoint

ASSUME MutationConstants ==
    /\ NeedsApproval \subseteq Mutations /\ Mutations \cap Deciders = {}
    /\ Days \in [Mutations -> Nat] /\ Seed \in Nat
    /\ Target \in [Deciders -> Mutations]
    /\ Decision \in [Deciders -> {"approve", "reject"}]
    /\ Permitted \subseteq Deciders /\ Actors \subseteq Deciders
    /\ MaxDisruptions \in Nat

Callers == Mutations \cup Deciders
MutationOf(c) == IF c \in Mutations THEN c ELSE Target[c]

VARIABLES
    run,        \* program point of the agent run
    record,     \* the MutationRequestRecord it holds in memory
    row,        \* committed status of the audit row ("none": no row)
    pc, seen,   \* a decision: program point, status its SELECT returned
    answer,     \* HTTP status the decider got
    token,      \* the preview token in the business API
    stored,     \* mutations whose execute response the idempotency store has
    balance,    \* leave balance
    call,       \* execute requests to the business API
    executions, \* history: how often the mutation took effect
    basis,      \* history: the mutations that had taken effect when it was previewed
    disruptions

harnessVars == <<run, record, row, pc, seen, answer>>
apiVars == <<token, stored, balance, executions, basis, disruptions>>
vars == <<harnessVars, apiVars, call>>

RowStatuses == {"none", "awaiting_approval", "rejected", "executed", "failed"}

TypeOK ==
    /\ run \in [Mutations -> {"preview", "execute", "wait", "persist", "ended", "lost"}]
    /\ record \in [Mutations -> {"none", "awaiting_approval", "executed", "failed"}]
    /\ row \in [Mutations -> RowStatuses]
    /\ pc \in [Deciders -> {"read", "claim", "execute", "wait", "answered"}]
    /\ seen \in [Deciders -> RowStatuses]
    /\ answer \in [Deciders -> {0, 200, 403, 404, 409, 500, 502}]
    /\ token \in [Mutations -> {"none", "live", "consumed", "expired"}]
    /\ stored \subseteq Mutations
    /\ balance \in Int
    /\ call \in [Callers -> {"none", "sent", "ok", "refused", "used"}]
    /\ executions \in [Mutations -> Nat] /\ basis \in [Mutations -> SUBSET Mutations]
    /\ disruptions \in Nat

Init ==
    /\ run = [m \in Mutations |-> "preview"]
    /\ record = [m \in Mutations |-> "none"]
    /\ row = [m \in Mutations |-> "none"]
    /\ pc = [d \in Deciders |-> "read"]
    /\ seen = [d \in Deciders |-> "none"]
    /\ answer = [d \in Deciders |-> 0]
    /\ token = [m \in Mutations |-> "none"]
    /\ stored = {}
    /\ balance = Seed
    /\ call = [c \in Callers |-> "none"]
    /\ executions = [m \in Mutations |-> 0] /\ basis = [m \in Mutations |-> {}]
    /\ disruptions = 0
-----------------------------------------------------------------------------
(***************************************************************************)
(* harness: the agent run.                                                 *)
(***************************************************************************)
Executed == {m \in Mutations : executions[m] > 0}

\* Mutant of Preview: the balance is not looked at.
PreviewUnchecked(m) ==
    /\ run[m] = "preview"
    /\ token' = [token EXCEPT ![m] = "live"]
    /\ basis' = [basis EXCEPT ![m] = Executed]
    /\ \/ /\ m \in NeedsApproval
          /\ run' = [run EXCEPT ![m] = "persist"]
          /\ record' = [record EXCEPT ![m] = "awaiting_approval"]
       \/ /\ m \notin NeedsApproval
          /\ run' = [run EXCEPT ![m] = "execute"]
          /\ UNCHANGED record
    /\ UNCHANGED <<row, pc, seen, answer, stored, balance, executions, disruptions, call>>

\* business_api.preview: a token is issued in any case; with validation errors it is
\* not used and nothing is recorded.
Preview(m) ==
    /\ run[m] = "preview"
    /\ token' = [token EXCEPT ![m] = "live"]
    /\ basis' = [basis EXCEPT ![m] = Executed]
    /\ \/ /\ Days[m] > balance
          /\ run' = [run EXCEPT ![m] = "persist"]
          /\ UNCHANGED record
       \/ /\ Days[m] <= balance
          /\ m \in NeedsApproval
          /\ run' = [run EXCEPT ![m] = "persist"]
          /\ record' = [record EXCEPT ![m] = "awaiting_approval"]
       \/ /\ Days[m] <= balance
          /\ m \notin NeedsApproval
          /\ run' = [run EXCEPT ![m] = "execute"]
          /\ UNCHANGED record
    /\ UNCHANGED <<row, pc, seen, answer, stored, balance, executions, disruptions, call>>

\* The preview itself is refused (BusinessApiError): nothing is recorded.
PreviewRefused(m) ==
    /\ run[m] = "preview"
    /\ run' = [run EXCEPT ![m] = "persist"]
    /\ UNCHANGED <<record, row, pc, seen, answer, apiVars, call>>

RunSendsExecute(m) ==
    /\ run[m] = "execute"
    /\ call' = [call EXCEPT ![m] = "sent"]
    /\ run' = [run EXCEPT ![m] = "wait"]
    /\ UNCHANGED <<record, row, pc, seen, answer, apiVars>>

RunGetsResult(m) ==
    /\ run[m] = "wait"
    /\ call[m] \in {"ok", "refused", "used"}
    /\ record' = [record EXCEPT ![m] = IF call[m] = "ok" THEN "executed" ELSE "failed"]
    /\ run' = [run EXCEPT ![m] = "persist"]
    /\ UNCHANGED <<row, pc, seen, answer, apiVars, call>>

\* run_agent's persisting transaction, with the mutation request among its rows.
PersistRun(m) ==
    /\ run[m] = "persist"
    /\ row' = [row EXCEPT ![m] = record[m]]
    /\ run' = [run EXCEPT ![m] = "ended"]
    /\ UNCHANGED <<record, pc, seen, answer, apiVars, call>>

\* An exception escapes the graph (an httpx timeout of execute, a later model or
\* guardrail error), or the process dies: nothing is persisted.
RunLost(m) ==
    /\ run[m] \in {"execute", "wait", "persist"}
    /\ run' = [run EXCEPT ![m] = "lost"]
    /\ UNCHANGED <<record, row, pc, seen, answer, apiVars, call>>

(***************************************************************************)
(* harness: decide_approval within tenant_session.                         *)
(***************************************************************************)
Answer(d, code) == /\ pc' = [pc EXCEPT ![d] = "answered"]
                   /\ answer' = [answer EXCEPT ![d] = code]

\* Mutant of MayDecide: the requester may approve.
MayDecideOwn(d) == d \in Permitted

MayDecide(d) == d \in Permitted /\ d \notin Actors

\* The SELECT and the checks on what it returned.  Only a mutation that needs approval
\* has an approval_id to be found by.
ReadRequest(d) ==
    LET m == Target[d] IN
    /\ pc[d] = "read"
    /\ seen' = [seen EXCEPT ![d] = row[m]]
    /\ \/ /\ row[m] = "none" \/ m \notin NeedsApproval
          /\ Answer(d, 404)
       \/ /\ row[m] # "none" /\ m \in NeedsApproval
          /\ ~MayDecide(d)
          /\ Answer(d, 403)
       \/ /\ row[m] # "none" /\ m \in NeedsApproval
          /\ MayDecide(d)
          /\ pc' = [pc EXCEPT ![d] = "claim"]
          /\ UNCHANGED answer
    /\ UNCHANGED <<run, record, row, apiVars, call>>

\* An approver's transaction holds the row from its claim to its commit or rollback.
HoldsRow(d) == pc[d] \in {"execute", "wait"}
RowFree(m) == \A d \in Deciders : Target[d] = m => ~HoldsRow(d)

\* Mutant of Undecided: the UPDATE does not look at the status.
AnyStatus(m) == TRUE

Undecided(m) == row[m] = "awaiting_approval"

\* UPDATE ... WHERE status = 'awaiting_approval' found the row: a rejection commits,
\* an approval goes on to execute.
ClaimWon(d) ==
    LET m == Target[d] IN
    /\ pc[d] = "claim"
    /\ RowFree(m)
    /\ Undecided(m)
    /\ \/ /\ Decision[d] = "reject"
          /\ row' = [row EXCEPT ![m] = "rejected"]
          /\ Answer(d, 200)
       \/ /\ Decision[d] = "approve"
          /\ pc' = [pc EXCEPT ![d] = "execute"]
          /\ UNCHANGED <<row, answer>>
    /\ UNCHANGED <<run, record, seen, apiVars, call>>

\* Mutant of AlreadyMatches: a lost claim always counts as a replay.
AlwaysMatches(d) == TRUE

\* already_matches ("approved" is never committed: execute and its result are in the
\* claim's transaction).
AlreadyMatches(d) == \/ Decision[d] = "approve" /\ seen[d] = "executed"
                     \/ Decision[d] = "reject" /\ seen[d] = "rejected"

\* It did not: the answer depends on the status read before the claim.
ClaimLost(d) ==
    LET m == Target[d] IN
    /\ pc[d] = "claim"
    /\ RowFree(m)
    /\ ~Undecided(m)
    /\ Answer(d, IF AlreadyMatches(d) THEN 200 ELSE 409)
    /\ UNCHANGED <<run, record, row, seen, apiVars, call>>

SendExecute(d) ==
    /\ pc[d] = "execute"
    /\ call' = [call EXCEPT ![d] = "sent"]
    /\ pc' = [pc EXCEPT ![d] = "wait"]
    /\ UNCHANGED <<run, record, row, seen, answer, apiVars>>

\* Mutant of ResultStatus: the claim's status is left in place.
ClaimedStatus == "approved"

ResultStatus == "executed"

RecordExecuted(d) ==
    /\ pc[d] = "wait"
    /\ call[d] = "ok"
    /\ row' = [row EXCEPT ![Target[d]] = ResultStatus]
    /\ Answer(d, 200)
    /\ UNCHANGED <<run, record, seen, apiVars, call>>

\* BusinessApiError: 'failed' is written, then ApprovalError leaves tenant_session, and
\* the transaction is rolled back with everything it wrote.
ExecuteFailed(d) ==
    /\ pc[d] = "wait"
    /\ call[d] \in {"refused", "used"}
    /\ Answer(d, 502)
    /\ UNCHANGED <<run, record, row, seen, apiVars, call>>

\* Mutant of ExecuteAbandoned: the HTTP client has no timeout.
NeverTimesOut(d) == FALSE

\* httpx.TimeoutException, or the harness process dies: rolled back, the request to the
\* business API may still be under way.
ExecuteAbandoned(d) ==
    /\ pc[d] = "wait"
    /\ call[d] = "sent"
    /\ Answer(d, 500)
    /\ UNCHANGED <<run, record, row, seen, apiVars, call>>

\* The harness process dies before the answer is recorded: rolled back.
DecisionLost(d) ==
    /\ pc[d] \in {"claim", "execute", "wait"}
    /\ Answer(d, 500)
    /\ UNCHANGED <<run, record, row, seen, apiVars, call>>

(***************************************************************************)
(* The business API.                                                       *)
(***************************************************************************)
\* The execute handler: the idempotency record, then the preview token, then the effect.
ExecuteReplayed(c) ==
    /\ call[c] = "sent"
    /\ MutationOf(c) \in stored
    /\ call' = [call EXCEPT ![c] = "ok"]
    /\ UNCHANGED <<harnessVars, apiVars>>

\* Mutant of ExecuteConsumes: the effect comes first and an error may strike before the
\* token is consumed.
ExecuteEffectFirst(c) ==
    LET m == MutationOf(c) IN
    /\ call[c] = "sent"
    /\ m \notin stored
    /\ token[m] = "live"
    /\ balance' = balance - Days[m]
    /\ executions' = [executions EXCEPT ![m] = @ + 1]
    /\ \E fails \in BOOLEAN :
         /\ token' = IF fails THEN token ELSE [token EXCEPT ![m] = "consumed"]
         /\ stored' = IF fails THEN stored ELSE stored \cup {m}
         /\ call' = [call EXCEPT ![c] = IF fails THEN "refused" ELSE "ok"]
    /\ UNCHANGED <<harnessVars, basis, disruptions>>

ExecuteConsumes(c) ==
    LET m == MutationOf(c) IN
    /\ call[c] = "sent"
    /\ m \notin stored
    /\ token[m] = "live"
    /\ token' = [token EXCEPT ![m] = "consumed"]
    /\ balance' = balance - Days[m]
    /\ executions' = [executions EXCEPT ![m] = @ + 1]
    /\ stored' = stored \cup {m}
    /\ call' = [call EXCEPT ![c] = "ok"]
    /\ UNCHANGED <<harnessVars, basis, disruptions>>

ExecuteBadToken(c) ==
    LET m == MutationOf(c) IN
    /\ call[c] = "sent"
    /\ m \notin stored
    /\ token[m] # "live"
    /\ call' = [call EXCEPT ![c] = IF token[m] = "consumed" THEN "used" ELSE "refused"]
    /\ UNCHANGED <<harnessVars, apiVars>>

\* authorize says no, or the service answers 5xx before it looks at anything.
ExecuteRefused(c) ==
    /\ call[c] = "sent"
    /\ call' = [call EXCEPT ![c] = "refused"]
    /\ UNCHANGED <<harnessVars, apiVars>>

\* preview_token_ttl_seconds pass.
TokenExpires(m) ==
    /\ token[m] = "live"
    /\ token' = [token EXCEPT ![m] = "expired"]
    /\ UNCHANGED <<harnessVars, stored, balance, executions, basis, disruptions, call>>

\* POST /internal/v1/reset: the balances, not the tokens or the idempotency records.
reset ==
    /\ disruptions < MaxDisruptions
    /\ disruptions' = disruptions + 1
    /\ balance' = Seed
    /\ UNCHANGED <<harnessVars, token, stored, executions, basis, call>>

\* A restart loses all in-memory state; a request that has not been read yet is handled
\* by the new process, or times out.
Restart ==
    /\ disruptions < MaxDisruptions
    /\ disruptions' = disruptions + 1
    /\ token' = [m \in Mutations |-> "none"]
    /\ stored' = {}
    /\ balance' = Seed
    /\ UNCHANGED <<harnessVars, executions, basis, call>>
-----------------------------------------------------------------------------
Run(m) ==
    \/ Preview(m) \/ PreviewRefused(m) \/ RunSendsExecute(m) \/ RunGetsResult(m)
    \/ PersistRun(m) \/ RunLost(m)

Decide(d) ==
    \/ ReadRequest(d) \/ ClaimWon(d) \/ ClaimLost(d) \/ SendExecute(d)
    \/ RecordExecuted(d) \/ ExecuteFailed(d) \/ ExecuteAbandoned(d)

Execute(c) ==
    ExecuteReplayed(c) \/ ExecuteConsumes(c) \/ ExecuteBadToken(c) \/ ExecuteRefused(c)

Next ==
    \/ \E m \in Mutations : Run(m) \/ TokenExpires(m)
    \/ \E d \in Deciders : Decide(d) \/ DecisionLost(d)
    \/ \E c \in Callers : Execute(c)
    \/ reset \/ Restart

Spec == Init /\ [][Next]_vars

\* A live harness runs every request it serves: its database statements return once the
\* row is free, its HTTP client answers or times out.  The business API owes nothing.
FairSpec == Spec /\ \A d \in Deciders : WF_vars(Decide(d))
-----------------------------------------------------------------------------
\* The two layers of SPEC 23.2i (the claim on the audit row, the idempotency record and
\* single-use token of the business API): however decisions are repeated, race, time
\* out and are tried again, and even if the business API restarts, a mutation takes
\* effect at most once.
ExecutedAtMostOnce == \A m \in Mutations : executions[m] <= 1

\* The inductive invariant behind it: a token is live only after a preview that has had no
\* effect yet.  It is the token, in memory and single-use, that carries the guarantee.
TokenInv ==
    /\ token \in [Mutations -> {"none", "live", "consumed", "expired"}]
    /\ run \in [Mutations -> {"preview", "execute", "wait", "persist", "ended", "lost"}]
    /\ executions \in [Mutations -> 0..1]
    /\ \A m \in Mutations : /\ run[m] = "preview" => token[m] = "none" /\ executions[m] = 0
                            /\ token[m] = "live" => executions[m] = 0

\* A mutation of high risk takes effect only for an approver who holds the permission
\* and is not the user the run acted for.
EffectNeedsApproval ==
    \A m \in NeedsApproval : executions[m] > 0 =>
        \E d \in Permitted \ Actors :
            Target[d] = m /\ Decision[d] = "approve" /\ call[d] # "none"

\* The inductive invariant behind it: the run itself never sends such a mutation, and only
\* a request that passed the checks claims the row and, to approve, sends it.
RunsDefer == \A m \in NeedsApproval : run[m] \notin {"execute", "wait"} /\ call[m] = "none"
ClaimantsMay == \A d \in Deciders : pc[d] \in {"claim", "execute", "wait"} => MayDecide(d)
SendersApprove ==
    \A d \in Deciders :
        HoldsRow(d) \/ call[d] # "none" => MayDecide(d) /\ Decision[d] = "approve"
ApprovalInv == TypeOK /\ RunsDefer /\ ClaimantsMay /\ SendersApprove /\ EffectNeedsApproval

\* An audit row says "executed" only if the mutation took effect, and a decider told 200
\* has its decision in the row, whoever else decides at the same time.
RowTellsTruth ==
    /\ \A m \in Mutations : row[m] = "executed" => executions[m] > 0
    /\ \A d \in Deciders : answer[d] = 200 =>
         row[Target[d]] = IF Decision[d] = "approve" THEN "executed" ELSE "rejected"

\* A decision, once committed, is never changed: the claim sees committed statuses only,
\* and the transaction that won it keeps everybody else from the row.
FinalStep ==
    \A m \in Mutations : row[m] \in {"executed", "rejected", "failed"} => row'[m] = row[m]
DecidedIsFinal == [][FinalStep]_row

\* The inductive invariant behind it: the holder of a row has found it awaiting approval,
\* alone, and a row exists only once its run has ended.
ClaimsHold ==
    \A d \in Deciders : HoldsRow(d) =>
        /\ row[Target[d]] = "awaiting_approval"
        /\ \A e \in Deciders : HoldsRow(e) /\ Target[e] = Target[d] => e = d
RowAfterRun == \A m \in Mutations : row[m] # "none" => run[m] = "ended"
DecisionInv == TypeOK /\ ClaimsHold /\ RowAfterRun

\* The inductive invariant behind RowTellsTruth: wherever a success is kept, in the
\* idempotency store, in an HTTP answer or in a run's memory, the effect came first; and a
\* final status that was read is still the status of the row.
StoreTrue == \A m \in stored : executions[m] > 0
OkTrue == \A c \in Callers : call[c] = "ok" => executions[MutationOf(c)] > 0
RecordTrue == \A m \in Mutations : record[m] = "executed" => executions[m] > 0
SeenStands ==
    \A d \in Deciders : seen[d] \in {"executed", "rejected"} => row[Target[d]] = seen[d]
TruthInv ==
    DecisionInv /\ ApprovalInv /\ StoreTrue /\ OkTrue /\ RecordTrue /\ SeenStands /\ RowTellsTruth

\* Neither of two mutations was seen by the preview of the other.
Raced(m, n) == m \notin basis[n] /\ n \notin basis[m]

\* execute deducts without looking at the balance again (the validation is the preview's):
\* the balance only goes below zero if two leaves were each previewed before the other was
\* taken, however long approvals, resets and restarts come between preview and execute.
OverdraftNeedsRace ==
    balance < 0 => \E m, n \in Executed : m # n /\ Raced(m, n)

\* The inductive invariant behind it: the balance covers every mutation that passed its
\* preview and has not taken effect, or one it did not see has; and only such mutations are
\* ever sent to execute.
Passed(m) == run[m] = "execute" \/ call[m] # "none" \/ record[m] = "awaiting_approval"
Covered(m) == Days[m] <= balance \/ \E k \in Executed : k \notin basis[m]
BasisPast == \A m, n \in Mutations : m \in basis[n] => executions[m] > 0
PassedCovered == \A m \in Mutations : Passed(m) /\ executions[m] = 0 => Covered(m)
RunsFirst ==
    \A m \in Mutations :
        /\ run[m] = "preview" => call[m] = "none" /\ record[m] = "none"
        /\ run[m] \in {"execute", "wait"} => record[m] = "none"
        /\ row[m] = "awaiting_approval" => record[m] = "awaiting_approval"
OnlyAwaiting ==
    \A d \in Deciders : HoldsRow(d) \/ call[d] # "none" => record[Target[d]] = "awaiting_approval"
BalanceInv ==
    /\ DecisionInv /\ TokenInv /\ balance <= Seed
    /\ BasisPast /\ PassedCovered /\ RunsFirst /\ OnlyAwaiting
    /\ OverdraftNeedsRace

\* Every decision request is answered: nobody waits for a row lock forever, although the
\* transaction that holds it waits for the business API.
DecisionAnswered == \A d \in Deciders : <>(pc[d] = "answered")

\* Nothing about the mutation is under way in harness or between harness and the API.
Quiet(m) == /\ run[m] \in {"ended", "lost"}
            /\ \A c \in Callers : MutationOf(c) = m => call[c] # "sent"
            /\ \A d \in Deciders : Target[d] = m => pc[d] \notin {"execute", "wait"}

\* Every mutation that took effect is recorded as executed in audit.mutation_requests.
AuditComplete ==
    \A m \in Mutations : Quiet(m) /\ executions[m] > 0 => row[m] = "executed"
=============================================================================
