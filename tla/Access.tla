-------------------------------- MODULE Access --------------------------------
(***************************************************************************)
(* The authority a tool call is made with, from login to the business      *)
(* API's own check: the identity provider's tokens (mock-idp), gateway's   *)
(* authenticate, the killswitch that policy_resolver.resolve asks through  *)
(* a per-process cache, the token exchange of a mutation, and the          *)
(* verification the business API does by itself.  Administrators flip the  *)
(* killswitches meanwhile (a Redis key, then a row of authz.tool_overrides *)
(* for a tool), the seed file of the users is edited and reloaded by the   *)
(* two services that read it, and time passes between any two steps: a job *)
(* may wait in its queue, a model may take long to answer.                 *)
(***************************************************************************)
EXTENDS Integers, FiniteSets

CONSTANTS
    Users,          \* users of seed/users.yaml
    EvalUsers,      \* those of the tenants eval-service may impersonate
    ToolKeys,       \* killswitch:tool:{tool_name}
    AgentKeys,      \* killswitch:agent:{agent_id}
    Scoped,         \* tools with required_scopes_for_token_exchange
    Processes,      \* harness processes
    Runs,
    ByEval,         \* runs of eval-service, which logs in by impersonation
    UserOf, ToolOf, AgentOf, ProcessOf,   \* of each run
    Flips,          \* requests to the killswitch endpoints
    Plans,          \* what the flips may be: the key each sets, to what, and whether its
                    \* token has platform.killswitch.manage
    CACHE_TTL, LOGIN_TTL, EXCHANGE_TTL,   \* in ticks
    MaxClock, MaxMishaps                  \* bounds

Keys == ToolKeys \cup AgentKeys
\* What the seed file says of a user: nothing, or with or without the permission the
\* tools require.
Levels == {"absent", "plain", "permitted"}
NoToken == 0

ASSUME AccessConstants ==
    /\ EvalUsers \subseteq Users /\ Scoped \subseteq ToolKeys
    /\ ToolKeys \cap AgentKeys = {}
    /\ ByEval \subseteq Runs
    /\ UserOf \in [Runs -> Users] /\ ProcessOf \in [Runs -> Processes]
    /\ ToolOf \in [Runs -> ToolKeys] /\ AgentOf \in [Runs -> AgentKeys]
    /\ Plans \subseteq [Flips -> [key : Keys, disabled : BOOLEAN, permitted : BOOLEAN]]
    /\ CACHE_TTL \in Nat \ {0} /\ LOGIN_TTL \in Nat \ {0} /\ EXCHANGE_TTL \in Nat \ {0}
    /\ MaxClock \in Nat /\ MaxMishaps \in Nat

VARIABLES
    clock,
    seed, idp, api,   \* seed/users.yaml, and the copies the two services loaded
    flag,             \* the Redis key of a killswitch says "disabled"
    override,         \* authz.tool_overrides.disabled; no row counts as FALSE
    cache,            \* KillswitchChecker._cache of each process: at most one entry per key
    plan,             \* the flips the administrators ask for
    run,              \* the state of each run
    fpc,              \* where each flip is
    mishaps,          \* faults, and edits of the seed file, so far
    offAt,            \* history: when the flag was last off
    knownAt,          \* history: when the identity provider last knew the user
    disturbed         \* history: tools whose last flip raced with another, died or was lost

flipVars == <<plan, fpc, flag, override, offAt, disturbed>>
userVars == <<seed, idp, api, knownAt>>
vars == <<clock, mishaps, cache, run, flipVars, userVars>>

Entry == [val : BOOLEAN, at : Nat]
Asking == {"ask", "sent", "read"}
Outcomes == {"rejected", "denied", "failed", "refused", "done"}
RunState ==
    [pc : {"new", "login", "accepted", "authorized", "preview"} \cup Asking \cup Outcomes,
     exp : 0 .. MaxClock + LOGIN_TTL,   \* of the login token
     claim : Levels,                    \* what the permissions of the login token say
     key : Keys,                        \* the killswitch resolve is asking about
     asked : 0 .. MaxClock,             \* now of _is_disabled
     reply : BOOLEAN,                   \* what Redis answered
     token : 0 .. MaxClock + EXCHANGE_TTL]   \* exp of the exchanged token, or NoToken

TypeOK ==
    /\ clock \in 0 .. MaxClock
    /\ seed \in [Users -> Levels] /\ idp \in [Users -> Levels] /\ api \in [Users -> Levels]
    /\ flag \in [Keys -> BOOLEAN] /\ override \in [ToolKeys -> BOOLEAN]
    /\ cache \in [Processes -> [Keys -> SUBSET Entry]]
    /\ run \in [Runs -> RunState]
    /\ plan \in Plans
    /\ fpc \in [Flips -> {"new", "flipped", "answered", "forbidden", "dead"}]
    /\ mishaps \in 0 .. MaxMishaps
    /\ offAt \in [Keys -> 0 .. MaxClock] /\ knownAt \in [Users -> 0 .. MaxClock]
    /\ disturbed \subseteq ToolKeys

\* A run of which nothing is left but how far it got.
Idle(r, at) ==
    [pc |-> at, exp |-> 0, claim |-> "absent", key |-> ToolOf[r], asked |-> 0,
     reply |-> FALSE, token |-> NoToken]

Init ==
    /\ clock = 0 /\ mishaps = 0
    /\ seed = [u \in Users |-> "permitted"] /\ idp = seed /\ api = seed
    /\ flag = [k \in Keys |-> FALSE] /\ override = [k \in ToolKeys |-> FALSE]
    /\ cache = [p \in Processes |-> [k \in Keys |-> {}]]
    /\ run = [r \in Runs |-> Idle(r, "new")]
    /\ plan \in Plans /\ fpc = [f \in Flips |-> "new"]
    /\ offAt = [k \in Keys |-> 0] /\ knownAt = [u \in Users |-> 0]
    /\ disturbed = {}
-----------------------------------------------------------------------------
(* Login and authenticate *)

Go(r, at) == run' = [run EXCEPT ![r].pc = at]
End(r, outcome) == run' = [run EXCEPT ![r] = Idle(r, outcome)]

\* Whether mock-idp gives this run a login token: the user is in the directory and, for
\* /oauth/eval-impersonate, of a tenant eval-service may act for.
MayLogin(r) ==
    /\ idp[UserOf[r]] # "absent"
    /\ r \in ByEval => UserOf[r] \in EvalUsers

\* mint_login_token: the claims are copied from the directory, once.
Login(r) ==
    /\ run[r].pc = "new"
    /\ IF MayLogin(r)
       THEN run' = [run EXCEPT ![r].pc = "login", ![r].exp = clock + LOGIN_TTL,
                               ![r].claim = idp[UserOf[r]]]
       ELSE End(r, "rejected")
    /\ UNCHANGED <<clock, mishaps, cache, flipVars, userVars>>

\* jwt.decode of a token whose exp is e: expired when exp <= now.
Valid(e) == clock < e

authenticate(r) ==
    /\ run[r].pc = "login"
    /\ IF Valid(run[r].exp) THEN Go(r, "accepted") ELSE End(r, "rejected")
    /\ UNCHANGED <<clock, mishaps, cache, flipVars, userVars>>
-----------------------------------------------------------------------------
(* resolve: the permission, then the tool's killswitch, then the agent's *)

\* The run starts at harness, possibly long after its request was accepted.
resolve(r) ==
    /\ run[r].pc = "accepted"
    /\ IF run[r].claim = "permitted" THEN Go(r, "ask") ELSE End(r, "denied")
    /\ UNCHANGED <<clock, mishaps, cache, flipVars, userVars>>

\* resolve goes on with the answer; the locals of _is_disabled are gone.
Answered(r, disabled) ==
    IF disabled THEN End(r, "denied")
    ELSE run' = [run EXCEPT ![r].pc = IF run[r].key = ToolOf[r] THEN "ask" ELSE "authorized",
                            ![r].key = AgentOf[r], ![r].asked = 0, ![r].reply = FALSE]

Fresh(r) == {e \in cache[ProcessOf[r]][run[r].key] : clock - e.at < CACHE_TTL}

\* _is_disabled, from the cache.
CacheAnswers(r) ==
    /\ run[r].pc = "ask"
    /\ \E e \in Fresh(r) : Answered(r, e.val)
    /\ UNCHANGED <<clock, mishaps, cache, flipVars, userVars>>

\* _is_disabled, from Redis: now is read, the GET is sent, Redis answers it, and the
\* coroutine resumes to store the answer under the time it began.
AskRedis(r) ==
    /\ run[r].pc = "ask" /\ Fresh(r) = {}
    /\ run' = [run EXCEPT ![r].pc = "sent", ![r].asked = clock]
    /\ UNCHANGED <<clock, mishaps, cache, flipVars, userVars>>

RedisGet(r) ==
    /\ run[r].pc = "sent"
    /\ run' = [run EXCEPT ![r].pc = "read", ![r].reply = flag[run[r].key]]
    /\ UNCHANGED <<clock, mishaps, cache, flipVars, userVars>>

Store(r, at) ==
    cache' = [cache EXCEPT ![ProcessOf[r]][run[r].key] = {[val |-> run[r].reply, at |-> at]}]

\* Mutant of Resume: the entry is stamped with the time the answer arrived.
ResumeStampsLate(r) ==
    /\ run[r].pc = "read"
    /\ Store(r, clock)
    /\ Answered(r, run[r].reply)
    /\ UNCHANGED <<clock, mishaps, flipVars, userVars>>

Resume(r) ==
    /\ run[r].pc = "read"
    /\ Store(r, run[r].asked)
    /\ Answered(r, run[r].reply)
    /\ UNCHANGED <<clock, mishaps, flipVars, userVars>>

\* Redis or the identity provider cannot be reached: nothing catches the exception.
RunFails(r) ==
    /\ run[r].pc = "sent" \/ (run[r].pc = "authorized" /\ ToolOf[r] \in Scoped)
    /\ End(r, "failed")
    /\ UNCHANGED <<clock, mishaps, cache, flipVars, userVars>>
-----------------------------------------------------------------------------
(* The tool call *)

Granted(r) == Valid(run[r].exp) /\ idp[UserOf[r]] # "absent"

Exchanged(r, e) ==
    /\ run[r].pc = "authorized" /\ ToolOf[r] \in Scoped
    /\ run' = [run EXCEPT ![r].pc = "preview", ![r].token = e]
    /\ UNCHANGED <<clock, mishaps, cache, flipVars, userVars>>

\* Mutant of token_exchange: the subject's existence is not confirmed again.
ExchangeTrustsToken(r) == Valid(run[r].exp) /\ Exchanged(r, clock + EXCHANGE_TTL)

\* Mutant of token_exchange: the token lives as long as a login token.
ExchangeMintsLogin(r) == Granted(r) /\ Exchanged(r, clock + LOGIN_TTL)

\* /oauth/token-exchange verifies the login token and mints a short one for one scope.
token_exchange(r) == Granted(r) /\ Exchanged(r, clock + EXCHANGE_TTL)

\* _exchange_token_for: any error status leaves the call without a token.
ExchangeRefused(r) == Exchanged(r, NoToken)

\* A tool without scopes goes to the business API directly.
NoExchange(r) ==
    /\ run[r].pc = "authorized" /\ ToolOf[r] \notin Scoped
    /\ Go(r, "preview")
    /\ UNCHANGED <<clock, mishaps, cache, flipVars, userVars>>

\* verify_token_exchange
TokenVerified(r) == ToolOf[r] \in Scoped => run[r].token # NoToken /\ Valid(run[r].token)

\* The business API's own authorize, over its own copy of the users.
preview(r) ==
    /\ run[r].pc = "preview"
    /\ End(r, IF api[UserOf[r]] = "permitted" /\ TokenVerified(r) THEN "done" ELSE "refused")
    /\ UNCHANGED <<clock, mishaps, cache, flipVars, userVars>>
-----------------------------------------------------------------------------
(* The administrators *)

FlipGo(f, at) == fpc' = [fpc EXCEPT ![f] = at]
Between(f, k) == fpc[f] = "flipped" /\ plan[f].key = k

\* gateway's admin_killswitch_tool and admin_killswitch_agent: 403 without the permission,
\* otherwise the request goes on to harness.
AdminForbidden(f) ==
    /\ fpc[f] = "new" /\ ~plan[f].permitted
    /\ FlipGo(f, "forbidden")
    /\ UNCHANGED <<clock, mishaps, cache, plan, flag, override, offAt, disturbed, run, userVars>>

SetFlag(k, disabled) ==
    /\ flag' = [flag EXCEPT ![k] = disabled]
    /\ offAt' = IF disabled THEN offAt ELSE [offAt EXCEPT ![k] = clock]

\* killswitch_agent is the Redis command alone; killswitch_tool goes on to the table.
WriteFlag(f) ==
    LET k == plan[f].key IN
    /\ fpc[f] = "new" /\ plan[f].permitted
    /\ SetFlag(k, plan[f].disabled)
    /\ FlipGo(f, IF k \in ToolKeys THEN "flipped" ELSE "answered")
    /\ disturbed' = IF k \in ToolKeys /\ \E g \in Flips : Between(g, k)
                    THEN disturbed \cup {k} ELSE disturbed \ {k}
    /\ UNCHANGED <<clock, mishaps, cache, plan, override, run, userVars>>

\* Mutant of upsert_tool_override: an existing row keeps saying disabled.
InsertOverride(f) ==
    /\ fpc[f] = "flipped"
    /\ override' = [override EXCEPT ![plan[f].key] = @ \/ plan[f].disabled]
    /\ FlipGo(f, "answered")
    /\ UNCHANGED <<clock, mishaps, cache, plan, flag, offAt, disturbed, run, userVars>>

upsert_tool_override(f) ==
    /\ fpc[f] = "flipped"
    /\ override' = [override EXCEPT ![plan[f].key] = plan[f].disabled]
    /\ FlipGo(f, "answered")
    /\ UNCHANGED <<clock, mishaps, cache, plan, flag, offAt, disturbed, run, userVars>>
-----------------------------------------------------------------------------
(* Faults, edits, time *)

Mishap == mishaps < MaxMishaps /\ mishaps' = mishaps + 1

\* Harness dies, or Postgres refuses, between the Redis command and the upsert.
FlipDies(f) ==
    /\ Mishap
    /\ fpc[f] = "flipped"
    /\ FlipGo(f, "dead")
    /\ disturbed' = disturbed \cup ({plan[f].key} \cap ToolKeys)
    /\ UNCHANGED <<clock, cache, plan, flag, override, offAt, run, userVars>>

\* Redis restarts from a snapshot older than its last flip of a key.
Flipped(k, to) ==
    \E f \in Flips : plan[f].key = k /\ plan[f].disabled = to /\ fpc[f] \in {"flipped", "answered", "dead"}
RedisLosesFlip(k) ==
    /\ Mishap
    /\ Flipped(k, flag[k])
    /\ flag[k] \/ Flipped(k, TRUE)
    /\ SetFlag(k, ~flag[k])
    /\ disturbed' = disturbed \cup ({k} \cap ToolKeys)
    /\ UNCHANGED <<clock, cache, plan, fpc, override, run, userVars>>

\* A harness process restarts: its cache is empty and its runs are gone.
ProcessRestarts(p) ==
    /\ Mishap
    /\ cache' = [cache EXCEPT ![p] = [k \in Keys |-> {}]]
    /\ run' = [r \in Runs |->
                 IF ProcessOf[r] = p /\ run[r].pc \in Asking \cup {"authorized", "preview"}
                 THEN Idle(r, "failed") ELSE run[r]]
    /\ UNCHANGED <<clock, flipVars, userVars>>

EditSeed(u, level) ==
    /\ Mishap
    /\ level # seed[u]
    /\ seed' = [seed EXCEPT ![u] = level]
    /\ UNCHANGED <<clock, cache, run, idp, api, knownAt, flipVars>>

\* UserDirectory and BusinessState read the file when their service starts (the second
\* also when it is reset).
IdpLoads ==
    /\ idp # seed
    /\ idp' = seed
    /\ knownAt' = [u \in Users |-> IF seed[u] # "absent" THEN clock ELSE knownAt[u]]
    /\ UNCHANGED <<clock, mishaps, cache, seed, api, run, flipVars>>

ApiLoads ==
    /\ api # seed
    /\ api' = seed
    /\ UNCHANGED <<clock, mishaps, cache, seed, idp, knownAt, run, flipVars>>

Tick ==
    /\ clock < MaxClock
    /\ clock' = clock + 1
    /\ offAt' = [k \in Keys |-> IF flag[k] THEN offAt[k] ELSE clock + 1]
    /\ knownAt' = [u \in Users |-> IF idp[u] = "absent" THEN knownAt[u] ELSE clock + 1]
    /\ UNCHANGED <<mishaps, cache, run, plan, fpc, flag, override, disturbed, seed, idp, api>>
-----------------------------------------------------------------------------
Next ==
    \/ \E r \in Runs :
          \/ Login(r) \/ authenticate(r) \/ resolve(r)
          \/ CacheAnswers(r) \/ AskRedis(r) \/ RedisGet(r) \/ Resume(r) \/ RunFails(r)
          \/ token_exchange(r) \/ ExchangeRefused(r) \/ NoExchange(r)
          \/ preview(r)
    \/ \E f \in Flips :
          AdminForbidden(f) \/ WriteFlag(f) \/ upsert_tool_override(f) \/ FlipDies(f)
    \/ \E k \in Keys : RedisLosesFlip(k)
    \/ \E p \in Processes : ProcessRestarts(p)
    \/ \E u \in Users, level \in Levels : EditSeed(u, level)
    \/ IdpLoads \/ ApiLoads \/ Tick

Spec == Init /\ [][Next]_vars
-----------------------------------------------------------------------------
\* In this step resolve takes the killswitch it asked about for off.
Passes(r) == /\ run[r].pc \in {"ask", "read"}
             /\ run'[r].pc \in {"ask", "authorized"}
             /\ run'[r] # run[r]
\* When the check of the killswitch began.
Began(r) == IF run[r].pc = "ask" THEN clock ELSE run[r].asked

\* A killswitch takes effect within the cache's TTL: authorize takes a tool or an agent for
\* enabled only if its Redis key was off less than CACHE_TTL before it asked, although
\* answers are stored after an await, overwrite newer ones, and are shared by the runs of
\* a process ("a killswitch flip takes up to 10s to propagate", killswitch.py).
PassedInTime(r) == Passes(r) => Began(r) < offAt[run[r].key] + CACHE_TTL
KillTakesEffect == [][\A r \in Runs : PassedInTime(r)]_vars

\* A mutation is previewed for a user no later than EXCHANGE_TTL after the identity
\* provider last knew the user and after the login token expired, whatever time the job
\* spent in queues and the model with its answer (mock_idp/main.py's token_exchange and
\* the business API's own check, auth.py).
AcceptedInTime(r) ==
    run[r].pc = "preview" /\ run'[r].pc = "done" /\ ToolOf[r] \in Scoped =>
        /\ clock < knownAt[UserOf[r]] + EXCHANGE_TTL
        /\ clock + 1 < run[r].exp + EXCHANGE_TTL
TokensAreBrief == [][\A r \in Runs : AcceptedInTime(r)]_vars

\* When no flip of a tool is between its two writes, the row of authz.tool_overrides says
\* what Redis says, unless the last flip of the tool raced with another, died half-way or
\* was lost by Redis; the next flip that runs alone repairs it (killswitch_tool).
LastCleanFlipWins ==
    \A k \in ToolKeys :
        k \notin disturbed /\ ~(\E f \in Flips : Between(f, k)) => override[k] = flag[k]

\* The inductive invariants behind the three: an answer "enabled" was true at or after the
\* time it is stored under; a token outlives neither of the two facts it was minted from by
\* more than its TTL; a flip that races with nobody finds its own value in Redis.
OffIsNow ==
    \A k \in Keys : offAt[k] <= clock /\ (~flag[k] => offAt[k] = clock)
CacheTruthful ==
    \A p \in Processes, k \in Keys : \A e \in cache[p][k] : ~e.val => e.at <= offAt[k]
ReplyTruthful ==
    \A r \in Runs :
        /\ run[r].pc \in {"sent", "read"} => run[r].asked <= clock
        /\ run[r].pc = "read" /\ ~run[r].reply => run[r].asked <= offAt[run[r].key]
KillInv == TypeOK /\ OffIsNow /\ CacheTruthful /\ ReplyTruthful

KnownIsNow ==
    \A u \in Users : knownAt[u] <= clock /\ (idp[u] # "absent" => knownAt[u] = clock)
TokenBacked ==
    \A r \in Runs : run[r].token # NoToken =>
        /\ run[r].pc = "preview"
        /\ run[r].token <= knownAt[UserOf[r]] + EXCHANGE_TTL
        /\ run[r].token < run[r].exp + EXCHANGE_TTL
TokenInv == TypeOK /\ KnownIsNow /\ TokenBacked

FlipAlone ==
    \A f \in Flips, k \in ToolKeys : Between(f, k) /\ k \notin disturbed =>
        /\ flag[k] = plan[f].disabled
        /\ \A g \in Flips : Between(g, k) => g = f
FlipInv == TypeOK /\ FlipAlone /\ LastCleanFlipWins
=============================================================================
