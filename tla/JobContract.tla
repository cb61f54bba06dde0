---------------------------- MODULE JobContract -----------------------------
(***************************************************************************)
(* What a tenant may rely on when it polls GET /v1/agent/jobs/{id} or      *)
(* waits for the webhook: the life of a row of jobs.async_jobs.  A job is  *)
(* claimed by one attempt at a time and at most MaxAttempts times, its     *)
(* agent runs at most once per attempt, a failed attempt may be tried      *)
(* again or given up, "succeeded" and "dead_lettered" are final, and a     *)
(* webhook only ever reports the final status the row has.                 *)
(***************************************************************************)
EXTENDS Naturals

CONSTANTS Jobs, MaxAttempts
VARIABLES status, attempts, runs, notified

vars == <<status, attempts, runs, notified>>
Terminal == {"succeeded", "dead_lettered"}

Init == /\ status = [j \in Jobs |-> "absent"]
        /\ attempts = [j \in Jobs |-> 0] /\ runs = attempts
        /\ notified = [j \in Jobs |-> {}]

Move(j, from, to) == /\ status[j] \in from
                     /\ status' = [status EXCEPT ![j] = to]
                     /\ UNCHANGED <<runs, notified>>

Accept(j)     == Move(j, {"absent"}, "queued") /\ UNCHANGED attempts
Claim(j)      == /\ Move(j, {"queued", "failed"}, "running")
                 /\ attempts[j] < MaxAttempts
                 /\ attempts' = [attempts EXCEPT ![j] = @ + 1]
Fail(j)       == Move(j, {"running"}, "failed") /\ UNCHANGED attempts
Succeed(j)    == Move(j, {"running"}, "succeeded") /\ UNCHANGED attempts
DeadLetter(j) == Move(j, {"failed"}, "dead_lettered") /\ UNCHANGED attempts

\* A run may end long after its caller gave up, but every run belongs to an attempt.
RunEnds(j) == /\ runs[j] < attempts[j]
              /\ runs' = [runs EXCEPT ![j] = @ + 1]
              /\ UNCHANGED <<status, attempts, notified>>

Notify(j) == /\ status[j] \in Terminal
             /\ notified' = [notified EXCEPT ![j] = {status[j]}]
             /\ UNCHANGED <<status, attempts, runs>>

Next == \E j \in Jobs : \/ Accept(j) \/ Claim(j) \/ Fail(j) \/ Succeed(j)
                        \/ DeadLetter(j) \/ RunEnds(j) \/ Notify(j)

Spec == Init /\ [][Next]_vars
=============================================================================
