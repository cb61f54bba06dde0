-------------------------------- MODULE Quota --------------------------------
(***************************************************************************)
(* The L2 token quota of gateway/quota.py for one tenant and one pool: the *)
(* window counter quota:{tenant}:{pool}, one reservation entry per run,    *)
(* and the three Lua scripts that touch them.  Redis runs a script         *)
(* atomically, so each script is one action; callers (the request path of  *)
(* gateway, process_job of async-worker) and the sweeper tasks of the      *)
(* gateway instances interleave between scripts.                           *)
(*                                                                         *)
(* Time is discrete and bounded by MaxTime.  A tick removes the entries    *)
(* whose Redis TTL has run out.  The window counter can be "absent",       *)
(* "expiring" (it has a TTL) or "persistent" (created by an INCRBY/DECRBY  *)
(* of a settlement that came after the window expired: no script but       *)
(* reserve sets a TTL).                                                    *)
(***************************************************************************)
EXTENDS Integers, FiniteSetsExt

CONSTANTS
    Runs,         \* run ids / job ids
    Sweepers,     \* gateway instances, each with one _sweep_loop task
    Limit,        \* sync_tokens_per_hour / async_tokens_per_day
    Estimates,    \* what estimate_tokens can return: the client's max_output_tokens is an
                  \* unbounded int, so an estimate may be negative or above the limit
    Actuals,      \* tokens a run can turn out to have used (0: it failed)
    Window,       \* WINDOW_SECONDS[pool]
    Deadline,     \* sync_timeout_seconds / async_job_deadline_seconds
    Grace,        \* the 60 seconds by which a reservation outlives its deadline
    SweepPeriod,  \* quota_sweep_interval_seconds
    MaxTime       \* bound on the clock

ASSUME QuotaConstants ==
    /\ Limit \in Nat /\ Estimates \subseteq Int /\ Actuals \subseteq Nat
    /\ Window \in Nat \ {0} /\ Deadline \in Nat /\ Grace \in Nat \ {0}
    /\ SweepPeriod \in Nat /\ MaxTime \in Nat
    /\ IsFiniteSet(Runs)

VARIABLES
    now,        \* the clock
    key, keyEnd, counter,   \* the window counter: presence, expiry time, value
    caller,     \* the code that owns the reservation
    fate,       \* the reservation entry: "held" while it exists
    est, deadline,          \* its payload
    snap, todo,             \* a sweep pass: the now it captured, keys still to visit
    sweeping,   \* history: whether some instance has always swept on schedule
    window, grantWin, settleWin, used   \* history: number of the current window, the
                            \* windows a reservation was granted / settled in, tokens used

redisVars == <<key, keyEnd, counter>>
entryVars == <<est, deadline>>
history == <<grantWin, settleWin, used>>
vars == <<now, redisVars, caller, fate, entryVars, snap, todo, sweeping, window, history>>

TypeOK ==
    /\ now \in 0..MaxTime
    /\ key \in {"absent", "expiring", "persistent"} /\ keyEnd \in Nat /\ counter \in Int
    /\ caller \in [Runs -> {"new", "rejected", "running", "done", "gone"}]
    /\ fate \in [Runs -> {"none", "held", "reconciled", "swept", "leaked"}]
    /\ est \in [Runs -> Int] /\ deadline \in [Runs -> Nat]
    /\ snap \in [Sweepers -> 0..MaxTime] /\ todo \in [Sweepers -> SUBSET Runs]
    /\ sweeping \in {"on_schedule", "late"} /\ window \in Nat
    /\ grantWin \in [Runs -> Nat] /\ settleWin \in [Runs -> Nat] /\ used \in [Runs -> Nat]

Init ==
    /\ now = 0
    /\ key = "absent" /\ keyEnd = 0 /\ counter = 0
    /\ caller = [r \in Runs |-> "new"]
    /\ fate = [r \in Runs |-> "none"]
    /\ est = [r \in Runs |-> 0] /\ deadline = [r \in Runs |-> 0]
    /\ snap = [s \in Sweepers |-> 0] /\ todo = [s \in Sweepers |-> {}]
    /\ sweeping = "on_schedule" /\ window = 1
    /\ grantWin = [r \in Runs |-> 0] /\ settleWin = [r \in Runs |-> 0]
    /\ used = [r \in Runs |-> 0]
-----------------------------------------------------------------------------
\* INCRBY / DECRBY: a missing key counts as 0 and is created without a TTL.
Adjust(delta) ==
    /\ counter' = counter + delta
    /\ key' = IF key = "absent" THEN "persistent" ELSE key
    /\ UNCHANGED keyEnd

\* Mutant of WithinLimit: the limit is compared before the estimate is added.
WithinLimitBefore(e) == counter < Limit

WithinLimit(e) == counter + e <= Limit

\* _RESERVE_SCRIPT, accepted: charge the estimate, start the window if the counter has
\* no TTL, store the reservation.
ReserveAccepted(r, e) ==
    /\ caller[r] = "new"
    /\ WithinLimit(e)
    /\ counter' = counter + e
    /\ key' = "expiring"
    /\ keyEnd' = IF key = "expiring" THEN keyEnd ELSE now + Window
    /\ fate' = [fate EXCEPT ![r] = "held"]
    /\ est' = [est EXCEPT ![r] = e]
    /\ deadline' = [deadline EXCEPT ![r] = now + Deadline]
    /\ grantWin' = [grantWin EXCEPT ![r] = window]
    /\ caller' = [caller EXCEPT ![r] = "running"]
    /\ UNCHANGED <<now, snap, todo, sweeping, window, settleWin, used>>

\* _RESERVE_SCRIPT, rejected: nothing is written; the caller answers 429.
ReserveRejected(r, e) ==
    /\ caller[r] = "new"
    /\ ~WithinLimit(e)
    /\ caller' = [caller EXCEPT ![r] = "rejected"]
    /\ UNCHANGED <<now, redisVars, fate, entryVars, snap, todo, sweeping, window, history>>

Settle(r, how, tokens) ==
    /\ fate' = [fate EXCEPT ![r] = how]
    /\ settleWin' = [settleWin EXCEPT ![r] = window]
    /\ used' = [used EXCEPT ![r] = tokens]

\* Mutant of EntryFound: the counter is adjusted whether or not the entry still exists.
EntryAssumed(r) == TRUE

EntryFound(r) == fate[r] = "held"

\* TokenBudget refuses a negative reserved_tokens.  invoke and submit_job build it after
\* the reservation, so a negative estimate is charged and its caller then goes by an
\* exception.
BudgetAccepted(r) == est[r] >= 0

\* _RECONCILE_SCRIPT: the caller reports its usage, a second time if the job is
\* attempted again; a reservation that is gone makes it a no-op.
Reconcile(r, a) ==
    /\ caller[r] \in {"running", "done"}
    /\ BudgetAccepted(r)
    /\ caller' = [caller EXCEPT ![r] = "done"]
    /\ \/ /\ EntryFound(r)
          /\ Adjust(a - est[r])
          /\ Settle(r, "reconciled", a)
       \/ /\ ~EntryFound(r)
          /\ UNCHANGED <<redisVars, fate, settleWin, used>>
    /\ UNCHANGED <<now, entryVars, snap, todo, sweeping, window, grantWin>>

\* The caller never reconciles: its process dies, an exception escapes invoke or
\* submit_job, or process_job dead-letters the job.
CallerGone(r) ==
    /\ caller[r] = "running"
    /\ caller' = [caller EXCEPT ![r] = "gone"]
    /\ UNCHANGED <<now, redisVars, fate, entryVars, snap, todo, sweeping, window, history>>

\* Mutant of SweepTime: the sweeper's clock runs ahead of the one that set deadlines.
SweepTimeAhead == now + 1

SweepTime == now

\* sweep_once: capture the time once, SCAN the reservation keys.  A key added after
\* the capture has a later deadline, so leaving it to the next pass changes nothing.
SweepStart(s) ==
    /\ todo[s] = {}
    /\ snap' = [snap EXCEPT ![s] = SweepTime]
    /\ todo' = [todo EXCEPT ![s] = {r \in Runs : fate[r] = "held"}]
    /\ UNCHANGED <<now, redisVars, caller, fate, entryVars, sweeping, window, history>>

\* Mutants of Overdue: the deadline itself already counts as overdue / the sweeper waits
\* for the end of the grace period.
OverdueAtDeadline(s, r) == fate[r] = "held" /\ snap[s] >= deadline[r]
OverdueAfterGrace(s, r) == fate[r] = "held" /\ snap[s] > deadline[r] + Grace

\* _SWEEP_ONE_SCRIPT on one of the scanned keys.
Overdue(s, r) == fate[r] = "held" /\ snap[s] > deadline[r]

SweepOne(s, r) ==
    /\ r \in todo[s]
    /\ todo' = [todo EXCEPT ![s] = @ \ {r}]
    /\ \/ /\ Overdue(s, r)
          /\ Adjust(-est[r])
          /\ Settle(r, "swept", 0)
       \/ /\ ~Overdue(s, r)
          /\ UNCHANGED <<redisVars, fate, settleWin, used>>
    /\ UNCHANGED <<now, caller, entryVars, snap, sweeping, window, grantWin>>

\* On schedule a pass takes less than a tick and passes start every SweepPeriod in at
\* least one instance.
OnSchedule == /\ \A s \in Sweepers : todo[s] = {}
              /\ \E s \in Sweepers : now < snap[s] + SweepPeriod

Tick ==
    LET t == now + 1
        over == key = "expiring" /\ t >= keyEnd IN
    /\ now < MaxTime
    /\ sweeping' = IF OnSchedule THEN sweeping ELSE "late"
    /\ now' = t
    /\ key' = IF over THEN "absent" ELSE key
    /\ counter' = IF over THEN 0 ELSE counter
    /\ window' = IF over THEN window + 1 ELSE window
    /\ fate' = [r \in Runs |-> IF fate[r] = "held" /\ t >= deadline[r] + Grace
                               THEN "leaked" ELSE fate[r]]
    /\ UNCHANGED <<keyEnd, caller, entryVars, snap, todo, history>>

Next ==
    \/ \E r \in Runs, e \in Estimates : ReserveAccepted(r, e) \/ ReserveRejected(r, e)
    \/ \E r \in Runs, a \in Actuals : Reconcile(r, a)
    \/ \E r \in Runs : CallerGone(r)
    \/ \E s \in Sweepers : SweepStart(s) \/ \E r \in Runs : SweepOne(s, r)
    \/ Tick

Spec == Init /\ [][Next]_vars
-----------------------------------------------------------------------------
Sum(Op(_)) == SumFunction([r \in Runs |-> Op(r)])
Here(r) == grantWin[r] = window
SettledHere(r) == settleWin[r] = window /\ fate[r] \in {"reconciled", "swept"}

\* What a run should have added to the counter of the current window so far.
Share(r) == (IF Here(r) THEN est[r] ELSE 0)
              + (IF SettledHere(r) THEN used[r] - est[r] ELSE 0)

\* The counter is the sum of what each run should have added: no interleaving of
\* reconcile, of a second reconcile and of several sweepers returns a reservation twice
\* or charges it twice (the atomicity note of quota.py's docstring).
LedgerBalanced == counter = Sum(Share)

AtLeast0(n) == IF n < 0 THEN 0 ELSE n

\* Tokens the current window has let through: estimates still outstanding (or leaked)
\* and actual use of the reservations it granted.  A negative estimate lets none through.
Spent(r) == IF ~Here(r) THEN 0
            ELSE IF fate[r] \in {"held", "leaked"} THEN AtLeast0(est[r]) ELSE used[r]
\* What took the counter below the tokens let through: a negative estimate granted in this
\* window, or a late settlement that returned tokens reserved in an earlier one.
Lowered(r) == IF Here(r) THEN AtLeast0(0 - est[r]) ELSE 0
Carried(r) == IF ~Here(r) /\ SettledHere(r) THEN AtLeast0(est[r] - used[r]) ELSE 0
Credit(r) == Lowered(r) + Carried(r)
\* Use beyond the estimate.
Overrun(r) == IF Here(r) /\ fate[r] = "reconciled" /\ used[r] > est[r]
              THEN used[r] - est[r] ELSE 0

\* A window lets through at most the limit, the runs' overruns, and what was credited to
\* it: by late settlements of earlier windows and by the negative estimates it granted.
\* The sweeper charges a negative estimate back, but not the runs admitted meanwhile.
SpendBounded == Sum(Spent) <= Limit + Sum(Overrun) + Sum(Credit)

\* The facts the two sums rest on: a reservation has a window from its grant on and a
\* settlement from its end on, both no later than the current window.
WindowInv ==
    /\ window >= 1
    /\ \A r \in Runs :
        /\ grantWin[r] <= window /\ settleWin[r] <= window
        /\ fate[r] = "none" => grantWin[r] = 0 /\ est[r] = 0
        /\ fate[r] \in {"none", "held", "leaked"} => settleWin[r] = 0 /\ used[r] = 0
        /\ fate[r] \in {"reconciled", "swept"} => settleWin[r] >= grantWin[r]
        /\ caller[r] \in {"new", "rejected"} => fate[r] = "none"
LedgerInv == TypeOK /\ WindowInv /\ LedgerBalanced

\* Charges of this window that let nothing through: use beyond the estimate settled late,
\* and a negative estimate charged back.
Repaid(r) == IF ~SettledHere(r) THEN 0
             ELSE IF Here(r) THEN Lowered(r) ELSE AtLeast0(used[r] - est[r])
SpendInv == LedgerInv /\ SpendBounded

\* A caller that is within its deadline never has its reservation taken by a sweeper or
\* by the entry's TTL, although sweepers act on keys and on a clock they read earlier.
LiveReservationHeld ==
    \A r \in Runs : caller[r] = "running" /\ now <= deadline[r] => fate[r] = "held"

\* The inductive invariant behind it: a sweep pass acts on a time that has been.
SweepBehindClock == \A s \in Sweepers : snap[s] <= now
DeadlineInv == TypeOK /\ SweepBehindClock /\ LiveReservationHeld

\* With one instance sweeping on schedule every reservation nobody reconciled is
\* returned before its TTL drops it with the estimate still charged.
NothingLeaks == sweeping = "on_schedule" => \A r \in Runs : fate[r] # "leaked"

\* The inductive invariant behind it: a pass leaves a reservation behind only if it was not
\* overdue when the pass began.
PassIsThorough ==
    \A s \in Sweepers, r \in Runs :
        fate[r] = "held" /\ deadline[r] < snap[s] => r \in todo[s]
LeakInv == TypeOK /\ SweepBehindClock /\ PassIsThorough /\ NothingLeaks
=============================================================================
