----------------------------- MODULE AccessProofs -----------------------------
(***************************************************************************)
(* Proofs of the type invariant, of KillTakesEffect, of TokensAreBrief and *)
(* of LastCleanFlipWins, for any number of users, runs, processes and      *)
(* flips and any times to live.                                            *)
(***************************************************************************)
EXTENDS Access, TLAPS

\* The initial state is typed: no run holds a token and no flip is under way.
LEMMA InitTyped == Init => TypeOK
  BY AccessConstants DEF Init, TypeOK, Idle, RunState, NoToken, Levels, Keys, Asking, Outcomes, Entry

\* What the actions of a run assign is a run state.
LEMMA RunTyped ==
  ASSUME TypeOK, NEW r \in Runs, NEW s \in RunState, run' = [run EXCEPT ![r] = s]
  PROVE  run' \in [Runs -> RunState]
  BY DEF TypeOK

\* A run that has not begun, or has ended, is a run state.
LEMMA IdleTyped ==
  ASSUME NEW r \in Runs, NEW at \in Outcomes \cup {"new"}
  PROVE  Idle(r, at) \in RunState
  BY AccessConstants DEF Idle, RunState, NoToken, Levels, Keys, Outcomes

\* The updates the actions make of a run state keep its type.
LEMMA FieldsTyped ==
  ASSUME NEW s \in RunState,
         NEW at \in {"login", "accepted", "preview", "authorized", "ask", "sent", "read"}
  PROVE  /\ [s EXCEPT !.pc = at] \in RunState
         /\ \A e \in 0 .. MaxClock + LOGIN_TTL, l \in Levels :
               [s EXCEPT !.pc = at, !.exp = e, !.claim = l] \in RunState
         /\ \A t \in 0 .. MaxClock : [s EXCEPT !.pc = at, !.asked = t] \in RunState
         /\ \A b \in BOOLEAN : [s EXCEPT !.pc = at, !.reply = b] \in RunState
         /\ \A e \in 0 .. MaxClock + EXCHANGE_TTL : [s EXCEPT !.pc = at, !.token = e] \in RunState
         /\ \A k \in Keys, t \in 0 .. MaxClock, b \in BOOLEAN :
               [s EXCEPT !.pc = at, !.key = k, !.asked = t, !.reply = b] \in RunState
<1>1. [s EXCEPT !.pc = at] \in RunState
  BY DEF RunState, Asking
<1>2. ASSUME NEW e \in 0 .. MaxClock + LOGIN_TTL, NEW l \in Levels
      PROVE  [s EXCEPT !.pc = at, !.exp = e, !.claim = l] \in RunState
  BY DEF RunState, Asking
<1>3. ASSUME NEW t \in 0 .. MaxClock PROVE [s EXCEPT !.pc = at, !.asked = t] \in RunState
  BY DEF RunState, Asking
<1>4. ASSUME NEW b \in BOOLEAN PROVE [s EXCEPT !.pc = at, !.reply = b] \in RunState
  BY DEF RunState, Asking
<1>5. ASSUME NEW e \in 0 .. MaxClock + EXCHANGE_TTL
      PROVE  [s EXCEPT !.pc = at, !.token = e] \in RunState
  BY DEF RunState, Asking
<1>6. ASSUME NEW k \in Keys, NEW t \in 0 .. MaxClock, NEW b \in BOOLEAN
      PROVE  [s EXCEPT !.pc = at, !.key = k, !.asked = t, !.reply = b] \in RunState
  BY DEF RunState, Asking
<1> QED BY <1>1, <1>2, <1>3, <1>4, <1>5, <1>6

\* Every step of a run, an administrator, a service or the clock keeps the types.
LEMMA NextTyped == TypeOK /\ [Next]_vars => TypeOK'
<1> SUFFICES ASSUME TypeOK, [Next]_vars PROVE TypeOK'
  OBVIOUS
<1> USE AccessConstants
<1>0. \A r \in Runs : run[r] \in RunState
  BY DEF TypeOK
<1>1. ASSUME NEW r \in Runs, Login(r) PROVE TypeOK'
  <2>1. run' \in [Runs -> RunState]
    <3>1. CASE MayLogin(r)
      <4> DEFINE s == [run[r] EXCEPT !.pc = "login", !.exp = clock + LOGIN_TTL,
                                     !.claim = idp[UserOf[r]]]
      <4>1. run' = [run EXCEPT ![r] = s]
        BY <1>1, <3>1 DEF Login
      <4>2. clock + LOGIN_TTL \in 0 .. MaxClock + LOGIN_TTL /\ idp[UserOf[r]] \in Levels
        BY DEF TypeOK
      <4>3. s \in RunState
        BY <1>0, <4>2, FieldsTyped
      <4> QED BY <4>1, <4>3, RunTyped
    <3>2. CASE ~MayLogin(r)
      BY <1>1, <3>2, IdleTyped, RunTyped DEF Login, End, Outcomes
    <3> QED BY <3>1, <3>2
  <2> QED BY <1>1, <2>1 DEF TypeOK, Login, flipVars, userVars
<1>2. ASSUME NEW r \in Runs, authenticate(r) \/ resolve(r) \/ RunFails(r) \/ NoExchange(r) \/ preview(r)
      PROVE  TypeOK'
  <2>1. run' \in [Runs -> RunState]
    <3>1. CASE \E at \in {"accepted", "ask", "preview"} : Go(r, at)
      <4>1. PICK at \in {"accepted", "ask", "preview"} : Go(r, at)
        BY <3>1
      <4>2. [run[r] EXCEPT !.pc = at] \in RunState
        BY <1>0, FieldsTyped
      <4> QED BY <4>1, <4>2, RunTyped DEF Go
    <3>2. CASE \E at \in Outcomes : End(r, at)
      BY <3>2, IdleTyped, RunTyped DEF End
    <3> QED BY <1>2, <3>1, <3>2
            DEF authenticate, resolve, RunFails, NoExchange, preview, Outcomes
  <2> QED BY <1>2, <2>1 DEF TypeOK, authenticate, resolve, RunFails, NoExchange, preview, flipVars, userVars
<1>3. ASSUME NEW r \in Runs, NEW d \in BOOLEAN, Answered(r, d) PROVE run' \in [Runs -> RunState]
  <2>1. CASE d
    BY <1>3, <2>1, IdleTyped, RunTyped DEF Answered, End, Outcomes
  <2>2. CASE ~d
    <3> DEFINE s == [run[r] EXCEPT !.pc = IF run[r].key = ToolOf[r] THEN "ask" ELSE "authorized",
                                   !.key = AgentOf[r], !.asked = 0, !.reply = FALSE]
    <3>1. run' = [run EXCEPT ![r] = s]
      BY <1>3, <2>2 DEF Answered
    <3>2. s \in RunState
      <4>1. AgentOf[r] \in Keys /\ 0 \in 0 .. MaxClock
        BY DEF Keys
      <4> QED BY <1>0, <4>1, FieldsTyped
    <3> QED BY <3>1, <3>2, RunTyped
  <2> QED BY <2>1, <2>2
<1>4. ASSUME NEW r \in Runs, CacheAnswers(r) PROVE TypeOK'
  <2>1. PICK e \in Fresh(r) : Answered(r, e.val)
    BY <1>4 DEF CacheAnswers
  <2>2. e.val \in BOOLEAN
    <3>1. cache[ProcessOf[r]][run[r].key] \in SUBSET Entry
      BY DEF TypeOK, RunState
    <3> QED BY <3>1 DEF Fresh, Entry
  <2>3. run' \in [Runs -> RunState]
    BY <2>1, <2>2, <1>3
  <2> QED BY <1>4, <2>3 DEF TypeOK, CacheAnswers, flipVars, userVars
<1>5. ASSUME NEW r \in Runs, AskRedis(r) \/ RedisGet(r) PROVE TypeOK'
  <2>1. run' \in [Runs -> RunState]
    <3>1. CASE AskRedis(r)
      <4>1. [run[r] EXCEPT !.pc = "sent", !.asked = clock] \in RunState
        BY <1>0, FieldsTyped DEF TypeOK
      <4>2. run' = [run EXCEPT ![r] = [run[r] EXCEPT !.pc = "sent", !.asked = clock]]
        BY <3>1 DEF AskRedis
      <4> QED BY <4>1, <4>2, RunTyped
    <3>2. CASE RedisGet(r)
      <4>1. flag[run[r].key] \in BOOLEAN
        BY DEF TypeOK, RunState
      <4>2. [run[r] EXCEPT !.pc = "read", !.reply = flag[run[r].key]] \in RunState
        BY <1>0, <4>1, FieldsTyped
      <4>3. run' = [run EXCEPT ![r] = [run[r] EXCEPT !.pc = "read", !.reply = flag[run[r].key]]]
        BY <3>2 DEF RedisGet
      <4> QED BY <4>2, <4>3, RunTyped
    <3> QED BY <1>5, <3>1, <3>2
  <2> QED BY <1>5, <2>1 DEF TypeOK, AskRedis, RedisGet, flipVars, userVars
<1>6. ASSUME NEW r \in Runs, Resume(r) PROVE TypeOK'
  <2>1. run[r].reply \in BOOLEAN /\ run[r].asked \in Nat /\ run[r].key \in Keys
    BY DEF TypeOK, RunState
  <2>2. run' \in [Runs -> RunState]
    BY <1>6, <2>1, <1>3 DEF Resume
  <2>3. cache' \in [Processes -> [Keys -> SUBSET Entry]]
    BY <1>6, <2>1 DEF TypeOK, Resume, Store, Entry
  <2> QED BY <1>6, <2>2, <2>3 DEF TypeOK, Resume, flipVars, userVars
<1>7. ASSUME NEW r \in Runs, token_exchange(r) \/ ExchangeRefused(r) PROVE TypeOK'
  <2>1. run' \in [Runs -> RunState]
    <3>1. PICK e \in 0 .. MaxClock + EXCHANGE_TTL : Exchanged(r, e)
      BY <1>7 DEF TypeOK, token_exchange, ExchangeRefused, NoToken
    <3>2. [run[r] EXCEPT !.pc = "preview", !.token = e] \in RunState
      BY <1>0, FieldsTyped
    <3>3. run' = [run EXCEPT ![r] = [run[r] EXCEPT !.pc = "preview", !.token = e]]
      BY <3>1 DEF Exchanged
    <3> QED BY <3>2, <3>3, RunTyped
  <2> QED BY <1>7, <2>1 DEF TypeOK, token_exchange, ExchangeRefused, Exchanged, flipVars, userVars
<1>8. ASSUME NEW f \in Flips, AdminForbidden(f) \/ upsert_tool_override(f) \/ FlipDies(f)
      PROVE  TypeOK'
  <2>1. plan[f].key \in Keys /\ plan[f].disabled \in BOOLEAN
    BY DEF TypeOK
  <2>2. CASE AdminForbidden(f)
    BY <2>2 DEF TypeOK, AdminForbidden, FlipGo, userVars
  <2>3. CASE upsert_tool_override(f)
    BY <2>1, <2>3 DEF TypeOK, upsert_tool_override, FlipGo, userVars
  <2>4. CASE FlipDies(f)
    BY <2>1, <2>4 DEF TypeOK, FlipDies, Mishap, FlipGo, userVars
  <2> QED BY <1>8, <2>2, <2>3, <2>4
<1>9. ASSUME NEW f \in Flips, WriteFlag(f) PROVE TypeOK'
  <2>1. plan[f].key \in Keys /\ plan[f].disabled \in BOOLEAN
    BY DEF TypeOK
  <2> QED BY <1>9, <2>1 DEF TypeOK, WriteFlag, SetFlag, FlipGo, userVars
<1>10. ASSUME NEW k \in Keys, RedisLosesFlip(k) PROVE TypeOK'
  BY <1>10 DEF TypeOK, RedisLosesFlip, Mishap, SetFlag, userVars
<1>11. ASSUME NEW p \in Processes, ProcessRestarts(p) PROVE TypeOK'
  <2>1. run' \in [Runs -> RunState]
    BY <1>11, IdleTyped DEF TypeOK, ProcessRestarts, Outcomes
  <2> QED BY <1>11, <2>1 DEF TypeOK, ProcessRestarts, Mishap, flipVars, userVars
<1>12. ASSUME NEW u \in Users, NEW level \in Levels, EditSeed(u, level) PROVE TypeOK'
  BY <1>12 DEF TypeOK, EditSeed, Mishap, flipVars
<1>13. CASE IdpLoads \/ ApiLoads
  BY <1>13 DEF TypeOK, IdpLoads, ApiLoads, flipVars
<1>14. CASE Tick
  BY <1>14 DEF TypeOK, Tick, RunState, flipVars
<1>15. CASE UNCHANGED vars
  BY <1>15 DEF TypeOK, vars, flipVars, userVars
<1> QED BY <1>1, <1>2, <1>4, <1>5, <1>6, <1>7, <1>8, <1>9, <1>10, <1>11, <1>12, <1>13, <1>14, <1>15
        DEF Next

\* Every reachable state of Access is well typed (the bounds of clock and tokens included).
THEOREM AccessTyped == Spec => []TypeOK
<1>1. Init => TypeOK
  BY InitTyped
<1>2. TypeOK /\ [Next]_vars => TypeOK'
  BY NextTyped
<1> QED BY <1>1, <1>2, PTL DEF Spec
-----------------------------------------------------------------------------
(* KillTakesEffect *)

\* Going on with an answer touches no other run, and leaves this one outside the check.
LEMMA AnsweredRun ==
  ASSUME TypeOK, NEW r \in Runs, NEW d, Answered(r, d)
  PROVE  /\ \A q \in Runs : q # r => run'[q] = run[q]
         /\ run'[r].pc \in {"denied", "ask", "authorized"}
         /\ run'[r].pc \in {"ask", "authorized"} => ~d
<1>1. run \in [Runs -> RunState]
  BY DEF TypeOK
<1>2. CASE d
  BY <1>1, <1>2 DEF Answered, End, Idle
<1>3. CASE ~d
  <2> DEFINE s == [run[r] EXCEPT !.pc = IF run[r].key = ToolOf[r] THEN "ask" ELSE "authorized",
                                 !.key = AgentOf[r], !.asked = 0, !.reply = FALSE]
  <2>1. run' = [run EXCEPT ![r] = s]
    BY <1>3 DEF Answered
  <2>2. run[r] \in RunState
    BY <1>1
  <2>3. s.pc \in {"ask", "authorized"}
    BY <2>2 DEF RunState
  <2> HIDE DEF s
  <2> QED BY <1>1, <1>3, <2>1, <2>3
<1> QED BY <1>2, <1>3

\* Nothing is cached or asked at the start, so no answer is older than it claims.
LEMMA InitKill == Init => KillInv
<1> SUFFICES ASSUME Init PROVE KillInv
  OBVIOUS
<1>1. TypeOK
  BY InitTyped
<1>2. OffIsNow /\ CacheTruthful /\ ReplyTruthful
  BY AccessConstants DEF Init, OffIsNow, CacheTruthful, ReplyTruthful, Idle
<1> QED BY <1>1, <1>2 DEF KillInv

\* A step that leaves the killswitches, the clock and the caches alone, and puts no run
\* into a check of Redis, keeps the invariant.
LEMMA KillQuiet ==
  ASSUME KillInv, TypeOK', UNCHANGED <<clock, flag, offAt, cache>>,
         \A r \in Runs : run'[r] = run[r] \/ run'[r].pc \notin {"sent", "read"}
  PROVE  KillInv'
  BY DEF KillInv, OffIsNow, CacheTruthful, ReplyTruthful

\* Every step keeps KillInv; Resume and CacheAnswers are the ones that use the time of asking.
LEMMA NextKill == KillInv /\ [Next]_vars => KillInv'
<1> SUFFICES ASSUME KillInv, [Next]_vars PROVE KillInv'
  OBVIOUS
<1> USE AccessConstants
<1>0. TypeOK /\ TypeOK'
  BY NextTyped DEF KillInv
<1>1. ASSUME NEW r \in Runs,
             \/ Login(r) \/ authenticate(r) \/ resolve(r) \/ RunFails(r) \/ token_exchange(r)
             \/ ExchangeRefused(r) \/ NoExchange(r) \/ preview(r)
      PROVE  KillInv'
  <2>1. /\ \A q \in Runs : q # r => run'[q] = run[q]
        /\ run'[r].pc \notin {"sent", "read"}
    <3>1. \A q \in Runs : run[q] \in RunState
      BY <1>0 DEF TypeOK
    <3>2. PICK s : run' = [run EXCEPT ![r] = s] /\ s.pc \notin {"sent", "read"}
      <4>1. CASE \E at \in Outcomes : End(r, at)
        <5>1. PICK at \in Outcomes : End(r, at)
          BY <4>1
        <5>2. Idle(r, at).pc \notin {"sent", "read"}
          BY DEF Idle, Outcomes
        <5> QED BY <5>1, <5>2 DEF End
      <4>2. CASE \E at \in {"accepted", "ask", "preview"} : Go(r, at)
        <5>1. PICK at \in {"accepted", "ask", "preview"} : Go(r, at)
          BY <4>2
        <5>2. [run[r] EXCEPT !.pc = at].pc = at
          BY <3>1 DEF RunState
        <5> QED BY <5>1, <5>2 DEF Go
      <4>3. CASE \E e : Exchanged(r, e)
        <5>1. PICK e : Exchanged(r, e)
          BY <4>3
        <5>2. [run[r] EXCEPT !.pc = "preview", !.token = e].pc = "preview"
          BY <3>1 DEF RunState
        <5>3. run' = [run EXCEPT ![r] = [run[r] EXCEPT !.pc = "preview", !.token = e]]
          BY <5>1 DEF Exchanged
        <5> QED BY <5>2, <5>3
      <4>4. CASE Login(r) /\ MayLogin(r)
        <5> DEFINE s == [run[r] EXCEPT !.pc = "login", !.exp = clock + LOGIN_TTL,
                                       !.claim = idp[UserOf[r]]]
        <5>1. s.pc = "login"
          BY <3>1 DEF RunState
        <5>2. run' = [run EXCEPT ![r] = s]
          BY <4>4 DEF Login
        <5> QED BY <5>1, <5>2
      <4> QED BY <1>1, <4>1, <4>2, <4>3, <4>4
              DEF Login, authenticate, resolve, RunFails, token_exchange,
                  ExchangeRefused, NoExchange, preview, Outcomes
    <3> QED BY <1>0, <3>2 DEF TypeOK
  <2>2. UNCHANGED <<clock, flag, offAt, cache>>
    BY <1>1 DEF Login, authenticate, resolve, RunFails, token_exchange,
          ExchangeRefused, Exchanged, NoExchange, preview, flipVars
  <2> QED BY <1>0, <2>1, <2>2, KillQuiet
<1>2. ASSUME NEW r \in Runs, CacheAnswers(r) PROVE KillInv'
  <2>1. PICK e \in Fresh(r) : Answered(r, e.val)
    BY <1>2 DEF CacheAnswers
  <2>2. UNCHANGED <<clock, flag, offAt, cache>>
    BY <1>2 DEF CacheAnswers, flipVars
  <2> QED BY <1>0, <2>1, <2>2, AnsweredRun, KillQuiet
<1>3. ASSUME NEW r \in Runs, AskRedis(r) PROVE KillInv'
  <2>1. UNCHANGED <<clock, flag, offAt, cache>>
    BY <1>3 DEF AskRedis, flipVars
  <2>2. /\ \A q \in Runs : q # r => run'[q] = run[q]
        /\ run'[r].pc = "sent" /\ run'[r].asked = clock
    BY <1>0, <1>3 DEF AskRedis, TypeOK, RunState
  <2>3. clock \in Nat
    BY <1>0 DEF TypeOK
  <2> QED BY <1>0, <2>1, <2>2, <2>3 DEF KillInv, OffIsNow, CacheTruthful, ReplyTruthful
<1>4. ASSUME NEW r \in Runs, RedisGet(r) PROVE KillInv'
  <2>1. UNCHANGED <<clock, flag, offAt, cache>>
    BY <1>4 DEF RedisGet, flipVars
  <2>2. /\ \A q \in Runs : q # r => run'[q] = run[q]
        /\ run'[r].key = run[r].key /\ run'[r].asked = run[r].asked
        /\ run'[r].reply = flag[run[r].key]
        /\ run[r].pc = "sent" /\ run[r].key \in Keys
    BY <1>0, <1>4 DEF RedisGet, TypeOK, RunState
  <2> QED BY <1>0, <2>1, <2>2 DEF KillInv, OffIsNow, CacheTruthful, ReplyTruthful
<1>5. ASSUME NEW r \in Runs, Resume(r) PROVE KillInv'
  <2>1. UNCHANGED <<clock, flag, offAt>>
    BY <1>5 DEF Resume, flipVars
  <2>2. Answered(r, run[r].reply)
    BY <1>5 DEF Resume
  <2>3. ReplyTruthful'
    BY <1>0, <2>1, <2>2, AnsweredRun DEF KillInv, ReplyTruthful
  <2>4. CacheTruthful'
    <3> SUFFICES ASSUME NEW p \in Processes, NEW k \in Keys, NEW e \in cache'[p][k], ~e.val
                 PROVE  e.at <= offAt[k]
      BY <2>1 DEF CacheTruthful
    <3>1. CASE p = ProcessOf[r] /\ k = run[r].key
      <4>1. e = [val |-> run[r].reply, at |-> run[r].asked]
        BY <1>0, <1>5, <3>1 DEF Resume, Store, TypeOK
      <4> QED BY <1>5, <3>1, <4>1 DEF KillInv, ReplyTruthful, Resume
    <3>2. CASE ~(p = ProcessOf[r] /\ k = run[r].key)
      <4>1. e \in cache[p][k]
        BY <1>0, <1>5, <3>2 DEF Resume, Store, TypeOK
      <4> QED BY <4>1 DEF KillInv, CacheTruthful
    <3> QED BY <3>1, <3>2
  <2> QED BY <1>0, <2>1, <2>3, <2>4 DEF KillInv, OffIsNow
<1>6. ASSUME NEW f \in Flips, AdminForbidden(f) \/ upsert_tool_override(f) \/ FlipDies(f)
      PROVE  KillInv'
  <2>1. UNCHANGED <<clock, flag, offAt, cache, run>>
    BY <1>6 DEF AdminForbidden, upsert_tool_override, FlipDies
  <2> QED BY <1>0, <2>1, KillQuiet
<1>7. ASSUME NEW k \in Keys, NEW d \in BOOLEAN, SetFlag(k, d), UNCHANGED <<clock, cache, run>>
      PROVE  KillInv'
  <2>1. clock \in Nat /\ offAt \in [Keys -> Nat] /\ flag \in [Keys -> BOOLEAN]
    BY <1>0 DEF TypeOK
  <2>2. /\ \A x \in Keys : offAt[x] <= offAt'[x] /\ offAt'[x] \in Nat
        /\ OffIsNow'
    BY <1>7, <2>1 DEF SetFlag, KillInv, OffIsNow
  <2>3. CacheTruthful'
    <3> SUFFICES ASSUME NEW p \in Processes, NEW x \in Keys, NEW e \in cache[p][x], ~e.val
                 PROVE  e.at <= offAt'[x]
      BY <1>7 DEF CacheTruthful
    <3>1. e.at \in Nat /\ e.at <= offAt[x]
      BY <1>0 DEF KillInv, CacheTruthful, TypeOK, Entry
    <3> QED BY <2>1, <2>2, <3>1
  <2>4. ReplyTruthful'
    <3> SUFFICES ASSUME NEW r \in Runs PROVE ReplyTruthful!(r)'
      BY DEF ReplyTruthful
    <3>1. run[r].asked \in Nat /\ run[r].key \in Keys
      BY <1>0 DEF TypeOK, RunState
    <3> QED BY <1>7, <2>1, <2>2, <3>1 DEF KillInv, ReplyTruthful
  <2> QED BY <1>0, <2>2, <2>3, <2>4 DEF KillInv
<1>8. ASSUME NEW f \in Flips, WriteFlag(f) PROVE KillInv'
  <2>1. plan[f].key \in Keys /\ plan[f].disabled \in BOOLEAN
    BY <1>0 DEF TypeOK
  <2>2. SetFlag(plan[f].key, plan[f].disabled) /\ UNCHANGED <<clock, cache, run>>
    BY <1>8 DEF WriteFlag
  <2> QED BY <2>1, <2>2, <1>7
<1>9. ASSUME NEW k \in Keys, RedisLosesFlip(k) PROVE KillInv'
  BY <1>7, <1>9 DEF RedisLosesFlip
<1>10. ASSUME NEW p \in Processes, ProcessRestarts(p) PROVE KillInv'
  <2>1. /\ UNCHANGED <<clock, flag, offAt>>
        /\ \A q \in Processes, k \in Keys : cache'[q][k] \in {{}, cache[q][k]}
        /\ \A r \in Runs : run'[r] = run[r] \/ run'[r].pc = "failed"
    BY <1>0, <1>10 DEF ProcessRestarts, TypeOK, Idle, flipVars
  <2> QED BY <1>0, <2>1 DEF KillInv, OffIsNow, CacheTruthful, ReplyTruthful
<1>11. ASSUME NEW u \in Users, NEW level \in Levels, EditSeed(u, level) PROVE KillInv'
  <2>1. UNCHANGED <<clock, flag, offAt, cache, run>>
    BY <1>11 DEF EditSeed, flipVars
  <2> QED BY <1>0, <2>1, KillQuiet
<1>12. CASE IdpLoads \/ ApiLoads
  <2>1. UNCHANGED <<clock, flag, offAt, cache, run>>
    BY <1>12 DEF IdpLoads, ApiLoads, flipVars
  <2> QED BY <1>0, <2>1, KillQuiet
<1>13. CASE Tick
  <2>1. /\ clock \in Nat /\ clock' = clock + 1 /\ UNCHANGED <<cache, run, flag>>
        /\ \A k \in Keys : offAt[k] \in Nat /\ offAt'[k] \in Nat
    BY <1>0, <1>13 DEF Tick, TypeOK
  <2>2. /\ \A k \in Keys : offAt[k] <= offAt'[k]
        /\ OffIsNow'
    BY <1>0, <1>13, <2>1 DEF Tick, KillInv, OffIsNow, TypeOK
  <2>3. CacheTruthful'
    <3> SUFFICES ASSUME NEW p \in Processes, NEW x \in Keys, NEW e \in cache[p][x], ~e.val
                 PROVE  e.at <= offAt'[x]
      BY <2>1 DEF CacheTruthful
    <3>1. e.at \in Nat /\ e.at <= offAt[x]
      BY <1>0 DEF KillInv, CacheTruthful, TypeOK, Entry
    <3> QED BY <2>1, <2>2, <3>1
  <2>4. ReplyTruthful'
    <3> SUFFICES ASSUME NEW r \in Runs PROVE ReplyTruthful!(r)'
      BY DEF ReplyTruthful
    <3>1. run[r].asked \in Nat /\ run[r].key \in Keys
      BY <1>0 DEF TypeOK, RunState
    <3> QED BY <2>1, <2>2, <3>1 DEF KillInv, ReplyTruthful
  <2> QED BY <1>0, <2>2, <2>3, <2>4 DEF KillInv
<1>14. CASE UNCHANGED vars
  <2>1. UNCHANGED <<clock, flag, offAt, cache, run>>
    BY <1>14 DEF vars, flipVars
  <2> QED BY <1>0, <2>1, KillQuiet
<1> QED BY <1>1, <1>2, <1>3, <1>4, <1>5, <1>6, <1>8, <1>9, <1>10, <1>11, <1>12, <1>13, <1>14
        DEF Next

\* Only an answer of the cache or of Redis lets resolve go on.
LEMMA PassingSteps ==
  ASSUME TypeOK, [Next]_vars, NEW r \in Runs, Passes(r)
  PROVE  CacheAnswers(r) \/ Resume(r)
<1> USE AccessConstants
<1>0. \A q \in Runs : run[q] \in RunState
  BY DEF TypeOK
<1>1. run[r].pc \in {"ask", "read"} /\ run'[r].pc \in {"ask", "authorized"} /\ run'[r] # run[r]
  BY DEF Passes
<1>2. ASSUME NEW q \in Runs, Login(q) \/ authenticate(q) \/ resolve(q) \/ AskRedis(q) \/ RedisGet(q)
             \/ RunFails(q) \/ token_exchange(q) \/ ExchangeRefused(q) \/ NoExchange(q) \/ preview(q)
      PROVE  FALSE
  <2>1. CASE q # r
    <3>1. PICK s : run' = [run EXCEPT ![q] = s]
      BY <1>2 DEF Login, authenticate, resolve, AskRedis, RedisGet, RunFails, token_exchange,
                  ExchangeRefused, Exchanged, NoExchange, preview, Go, End
    <3> QED BY <1>1, <2>1, <3>1 DEF TypeOK
  <2>2. CASE q = r
    <3>1. CASE AskRedis(r)
      <4>1. run'[r] = [run[r] EXCEPT !.pc = "sent", !.asked = clock]
        BY <3>1 DEF AskRedis, TypeOK
      <4> QED BY <1>0, <1>1, <4>1 DEF RunState
    <3>2. CASE RedisGet(r) \/ RunFails(r) \/ Login(r) \/ authenticate(r) \/ resolve(r)
               \/ token_exchange(r) \/ ExchangeRefused(r) \/ NoExchange(r) \/ preview(r)
      BY <1>1, <3>2 DEF RedisGet, RunFails, Login, authenticate, resolve, token_exchange,
                        ExchangeRefused, Exchanged, NoExchange, preview
    <3> QED BY <1>2, <2>2, <3>1, <3>2
  <2> QED BY <2>1, <2>2
<1>3. ASSUME NEW q \in Runs, q # r, CacheAnswers(q) \/ Resume(q) PROVE FALSE
  <2>1. \E d : Answered(q, d)
    BY <1>3 DEF CacheAnswers, Resume
  <2> QED BY <1>1, <1>3, <2>1, AnsweredRun
<1>4. ASSUME NEW p \in Processes, ProcessRestarts(p) PROVE FALSE
  BY <1>1, <1>4 DEF ProcessRestarts, TypeOK, Idle
<1>5. CASE UNCHANGED run
  BY <1>1, <1>5
<1> QED BY <1>2, <1>3, <1>4, <1>5
        DEF Next, vars, AdminForbidden, WriteFlag, upsert_tool_override, FlipDies,
            RedisLosesFlip, EditSeed, IdpLoads, ApiLoads, Tick

\* A disabled tool or agent is refused by every check that begins CACHE_TTL after its Redis
\* key was set, on every process, whatever the interleaving of checks, flips and restarts.
THEOREM KillsTakeEffect == Spec => KillTakesEffect
<1>1. Init => KillInv
  BY InitKill
<1>2. KillInv /\ [Next]_vars => KillInv'
  BY NextKill
<1>3. KillInv /\ [Next]_vars => [\A r \in Runs : PassedInTime(r)]_vars
  <2> SUFFICES ASSUME KillInv, [Next]_vars, NEW r \in Runs, Passes(r)
               PROVE  Began(r) < offAt[run[r].key] + CACHE_TTL
    BY DEF PassedInTime
  <2>0. /\ TypeOK /\ run[r].key \in Keys /\ clock \in Nat /\ run[r].asked \in Nat
        /\ offAt[run[r].key] \in Nat /\ CACHE_TTL \in Nat \ {0}
    BY AccessConstants DEF KillInv, TypeOK, RunState
  <2>1. CASE CacheAnswers(r)
    <3>1. PICK e \in Fresh(r) : Answered(r, e.val)
      BY <2>1 DEF CacheAnswers
    <3>2. ~e.val
      BY <2>0, <3>1, AnsweredRun DEF Passes
    <3>3. e.at \in Nat /\ e.at <= offAt[run[r].key] /\ clock - e.at < CACHE_TTL
      BY <2>0, <3>2, AccessConstants DEF KillInv, CacheTruthful, Fresh, TypeOK, Entry
    <3>4. Began(r) = clock
      BY <2>1 DEF Began, CacheAnswers
    <3> QED BY <2>0, <3>3, <3>4
  <2>2. CASE Resume(r)
    <3>1. ~run[r].reply
      BY <2>0, <2>2, AnsweredRun DEF Passes, Resume
    <3>2. Began(r) = run[r].asked /\ run[r].asked <= offAt[run[r].key]
      BY <2>2, <3>1 DEF Began, Resume, KillInv, ReplyTruthful
    <3> QED BY <2>0, <3>2
  <2> QED BY <2>0, <2>1, <2>2, PassingSteps
<1> QED BY <1>1, <1>2, <1>3, PTL DEF Spec, KillTakesEffect
-----------------------------------------------------------------------------
(* TokensAreBrief *)

\* A step that changes neither the clock nor the directory, and mints no token.
LEMMA TokenQuiet ==
  ASSUME TokenInv, TypeOK', UNCHANGED <<clock, idp, knownAt>>,
         \A q \in Runs : run'[q] = run[q] \/ run'[q].token = NoToken
  PROVE  TokenInv'
  BY DEF TokenInv, KnownIsNow, TokenBacked

\* Every step keeps TokenInv; token_exchange is the one that bounds a new token.
LEMMA NextToken == TokenInv /\ [Next]_vars => TokenInv'
<1> SUFFICES ASSUME TokenInv, [Next]_vars PROVE TokenInv'
  OBVIOUS
<1> USE AccessConstants
<1>0. /\ TypeOK /\ TypeOK' /\ clock \in Nat
      /\ \A r \in Runs : run[r] \in RunState /\ run[r].exp \in Nat /\ run[r].token \in Nat
      /\ \A u \in Users : knownAt[u] \in Nat
  BY NextTyped DEF TokenInv, TypeOK, RunState
<1>1. ASSUME NEW r \in Runs, UNCHANGED <<clock, idp, knownAt>>,
             NEW s, run' = [run EXCEPT ![r] = s], s.token = NoToken
      PROVE  TokenInv'
  BY <1>0, <1>1, TokenQuiet DEF TypeOK
<1>2. ASSUME NEW r \in Runs, UNCHANGED <<clock, idp, knownAt>>, NEW at, End(r, at)
      PROVE  TokenInv'
  <2>1. Idle(r, at).token = NoToken
    BY DEF Idle
  <2>2. run' = [run EXCEPT ![r] = Idle(r, at)]
    BY <1>2 DEF End
  <2> QED BY <1>1, <1>2, <2>1, <2>2
<1>3. ASSUME NEW r \in Runs, UNCHANGED <<clock, idp, knownAt>>, NEW at, Go(r, at),
             run[r].pc # "preview"
      PROVE  TokenInv'
  <2>1. run[r].token = NoToken
    BY <1>3 DEF TokenInv, TokenBacked
  <2>2. [run[r] EXCEPT !.pc = at].token = NoToken
    BY <1>0, <2>1 DEF RunState
  <2> QED BY <1>1, <1>3, <2>2 DEF Go
<1>4. ASSUME NEW r \in Runs, Login(r) PROVE TokenInv'
  <2>1. UNCHANGED <<clock, idp, knownAt>>
    BY <1>4 DEF Login, userVars
  <2>2. CASE MayLogin(r)
    <3> DEFINE s == [run[r] EXCEPT !.pc = "login", !.exp = clock + LOGIN_TTL,
                                   !.claim = idp[UserOf[r]]]
    <3>1. run' = [run EXCEPT ![r] = s]
      BY <1>4, <2>2 DEF Login
    <3>2. run[r].token = NoToken
      BY <1>4 DEF TokenInv, TokenBacked, Login
    <3>3. s.token = NoToken
      BY <1>0, <3>2 DEF RunState
    <3> QED BY <1>1, <2>1, <3>1, <3>3
  <2>3. CASE ~MayLogin(r)
    BY <1>2, <1>4, <2>1, <2>3 DEF Login
  <2> QED BY <2>2, <2>3
<1>5. ASSUME NEW r \in Runs, authenticate(r) \/ resolve(r) \/ RunFails(r) \/ NoExchange(r) \/ preview(r)
      PROVE  TokenInv'
  <2>1. UNCHANGED <<clock, idp, knownAt>>
    BY <1>5 DEF authenticate, resolve, RunFails, NoExchange, preview, userVars
  <2>2. \/ \E at : End(r, at)
        \/ run[r].pc # "preview" /\ \E at : Go(r, at)
    BY <1>5 DEF authenticate, resolve, RunFails, NoExchange, preview
  <2> QED BY <1>2, <1>3, <2>1, <2>2
<1>6. ASSUME NEW r \in Runs, NEW d, Answered(r, d), run[r].pc # "preview",
             UNCHANGED <<clock, idp, knownAt>>
      PROVE  TokenInv'
  <2>1. CASE d
    BY <1>2, <1>6, <2>1 DEF Answered
  <2>2. CASE ~d
    <3> DEFINE s == [run[r] EXCEPT !.pc = IF run[r].key = ToolOf[r] THEN "ask" ELSE "authorized",
                                   !.key = AgentOf[r], !.asked = 0, !.reply = FALSE]
    <3>1. run' = [run EXCEPT ![r] = s]
      BY <1>6, <2>2 DEF Answered
    <3>2. run[r].token = NoToken
      BY <1>6 DEF TokenInv, TokenBacked
    <3>3. s.token = NoToken
      BY <1>0, <3>2 DEF RunState
    <3> QED BY <1>1, <1>6, <3>1, <3>3
  <2> QED BY <2>1, <2>2
<1>7. ASSUME NEW r \in Runs, CacheAnswers(r) \/ Resume(r) PROVE TokenInv'
  <2>1. UNCHANGED <<clock, idp, knownAt>> /\ run[r].pc # "preview"
    BY <1>7 DEF CacheAnswers, Resume, userVars
  <2>2. \E d : Answered(r, d)
    BY <1>7 DEF CacheAnswers, Resume
  <2> QED BY <1>6, <2>1, <2>2
<1>8. ASSUME NEW r \in Runs, AskRedis(r) \/ RedisGet(r) PROVE TokenInv'
  <2>1. UNCHANGED <<clock, idp, knownAt>> /\ run[r].token = NoToken
    BY <1>8 DEF AskRedis, RedisGet, userVars, TokenInv, TokenBacked
  <2>2. /\ [run[r] EXCEPT !.pc = "sent", !.asked = clock].token = NoToken
        /\ [run[r] EXCEPT !.pc = "read", !.reply = flag[run[r].key]].token = NoToken
    BY <1>0, <2>1 DEF RunState
  <2>3. \/ run' = [run EXCEPT ![r] = [run[r] EXCEPT !.pc = "sent", !.asked = clock]]
        \/ run' = [run EXCEPT ![r] = [run[r] EXCEPT !.pc = "read", !.reply = flag[run[r].key]]]
    BY <1>8 DEF AskRedis, RedisGet
  <2> QED BY <1>1, <2>1, <2>2, <2>3
<1>9. ASSUME NEW r \in Runs, ExchangeRefused(r) PROVE TokenInv'
  <2>1. UNCHANGED <<clock, idp, knownAt>>
    BY <1>9 DEF ExchangeRefused, Exchanged, userVars
  <2> DEFINE s == [run[r] EXCEPT !.pc = "preview", !.token = NoToken]
  <2>2. s.token = NoToken
    BY <1>0 DEF RunState
  <2>3. run' = [run EXCEPT ![r] = s]
    BY <1>9 DEF ExchangeRefused, Exchanged
  <2> QED BY <1>1, <2>1, <2>2, <2>3
<1>10. ASSUME NEW r \in Runs, token_exchange(r) PROVE TokenInv'
  <2>1. UNCHANGED <<clock, idp, knownAt>> /\ Granted(r)
    BY <1>10 DEF token_exchange, Exchanged, userVars
  <2> DEFINE s == [run[r] EXCEPT !.pc = "preview", !.token = clock + EXCHANGE_TTL]
  <2>2. s.pc = "preview" /\ s.token = clock + EXCHANGE_TTL /\ s.exp = run[r].exp
    BY <1>0 DEF RunState
  <2>3. run'[r] = s /\ \A q \in Runs : q # r => run'[q] = run[q]
    BY <1>0, <1>10 DEF token_exchange, Exchanged, TypeOK
  <2>4. knownAt[UserOf[r]] = clock /\ clock < run[r].exp
    BY <2>1 DEF Granted, Valid, TokenInv, KnownIsNow
  <2>5. s.token <= knownAt[UserOf[r]] + EXCHANGE_TTL /\ s.token < s.exp + EXCHANGE_TTL
    BY <1>0, <2>2, <2>4
  <2>6. TokenBacked'
    BY <2>1, <2>2, <2>3, <2>5 DEF TokenInv, TokenBacked
  <2> QED BY <1>0, <2>1, <2>6 DEF TokenInv, KnownIsNow
<1>11. ASSUME UNCHANGED <<clock, idp, knownAt, run>> PROVE TokenInv'
  BY <1>0, <1>11, TokenQuiet
<1>12. ASSUME NEW p \in Processes, ProcessRestarts(p) PROVE TokenInv'
  <2>1. UNCHANGED <<clock, idp, knownAt>>
    BY <1>12 DEF ProcessRestarts, userVars
  <2>2. \A q \in Runs : run'[q] = run[q] \/ run'[q].token = NoToken
    BY <1>12 DEF ProcessRestarts, Idle
  <2> QED BY <1>0, <2>1, <2>2, TokenQuiet
<1>13. CASE IdpLoads \/ Tick
  <2>1. /\ run' = run /\ clock' \in Nat
        /\ \A u \in Users : knownAt'[u] \in Nat
    BY <1>0, <1>13 DEF IdpLoads, Tick, TypeOK
  <2>2. \A u \in Users : knownAt[u] <= knownAt'[u]
    BY <1>0, <1>13 DEF IdpLoads, Tick, TokenInv, KnownIsNow
  <2>3. KnownIsNow'
    <3>1. CASE IdpLoads
      BY <1>0, <3>1 DEF IdpLoads, TokenInv, KnownIsNow
    <3>2. CASE Tick
      BY <1>0, <3>2 DEF Tick, TokenInv, KnownIsNow
    <3> QED BY <1>13, <3>1, <3>2
  <2>4. TokenBacked'
    <3> SUFFICES ASSUME NEW r \in Runs, run[r].token # NoToken
                 PROVE  run[r].token <= knownAt'[UserOf[r]] + EXCHANGE_TTL
      BY <2>1 DEF TokenInv, TokenBacked
    <3>1. run[r].token <= knownAt[UserOf[r]] + EXCHANGE_TTL /\ UserOf[r] \in Users
      BY DEF TokenInv, TokenBacked
    <3> QED BY <1>0, <2>1, <2>2, <3>1
  <2> QED BY <1>0, <2>3, <2>4 DEF TokenInv
<1> QED BY <1>4, <1>5, <1>7, <1>8, <1>9, <1>10, <1>11, <1>12, <1>13
        DEF Next, vars, userVars, AdminForbidden, WriteFlag, upsert_tool_override, FlipDies,
            RedisLosesFlip, EditSeed, ApiLoads

\* Only the business API's own check accepts a preview.
LEMMA AcceptingStep ==
  ASSUME TypeOK, [Next]_vars, NEW r \in Runs, run[r].pc = "preview", run'[r].pc = "done"
  PROVE  preview(r) /\ TokenVerified(r)
<1> USE AccessConstants
<1>0. \A q \in Runs : run[q] \in RunState
  BY DEF TypeOK
<1>1. ASSUME NEW q \in Runs, q # r,
             \/ Login(q) \/ authenticate(q) \/ resolve(q) \/ AskRedis(q) \/ RedisGet(q)
             \/ RunFails(q) \/ token_exchange(q) \/ ExchangeRefused(q) \/ NoExchange(q) \/ preview(q)
      PROVE  FALSE
  <2>1. PICK s : run' = [run EXCEPT ![q] = s]
    BY <1>1 DEF Login, authenticate, resolve, AskRedis, RedisGet, RunFails, token_exchange,
                ExchangeRefused, Exchanged, NoExchange, preview, Go, End
  <2> QED BY <1>1, <2>1 DEF TypeOK
<1>2. \/ Login(r) \/ authenticate(r) \/ resolve(r) \/ AskRedis(r) \/ RedisGet(r) \/ CacheAnswers(r)
      \/ Resume(r) \/ RunFails(r) \/ token_exchange(r) \/ ExchangeRefused(r) \/ NoExchange(r)
      => FALSE
  BY DEF Login, authenticate, resolve, AskRedis, RedisGet, RunFails, token_exchange, CacheAnswers,
         Resume, ExchangeRefused, Exchanged, NoExchange
<1>3. ASSUME NEW q \in Runs, q # r, CacheAnswers(q) \/ Resume(q) PROVE FALSE
  <2>1. \E d : Answered(q, d)
    BY <1>3 DEF CacheAnswers, Resume
  <2> QED BY <1>3, <2>1, AnsweredRun
<1>4. ASSUME NEW p \in Processes, ProcessRestarts(p) PROVE FALSE
  BY <1>4 DEF ProcessRestarts, TypeOK, Idle
<1>5. run' # run
  OBVIOUS
<1>6. preview(r)
  BY <1>1, <1>2, <1>3, <1>4, <1>5
     DEF Next, vars, AdminForbidden, WriteFlag, upsert_tool_override, FlipDies,
         RedisLosesFlip, EditSeed, IdpLoads, ApiLoads, Tick
<1>7. TokenVerified(r)
  <2>1. run'[r].pc = IF api[UserOf[r]] = "permitted" /\ TokenVerified(r) THEN "done" ELSE "refused"
    BY <1>6 DEF preview, End, Idle, TypeOK
  <2> QED BY <2>1
<1> QED BY <1>6, <1>7

\* No mutation is previewed for a user whom the identity provider stopped knowing, or whose
\* login expired, more than the life of an exchanged token ago.
THEOREM MutationsAreCurrent == Spec => TokensAreBrief
<1>1. Init => TokenInv
  <2> SUFFICES ASSUME Init PROVE TokenInv
    OBVIOUS
  <2>1. KnownIsNow /\ TokenBacked
    BY DEF Init, KnownIsNow, TokenBacked, Idle
  <2> QED BY <2>1, InitTyped DEF TokenInv
<1>2. TokenInv /\ [Next]_vars => TokenInv'
  BY NextToken
<1>3. TokenInv /\ [Next]_vars => [\A r \in Runs : AcceptedInTime(r)]_vars
  <2> SUFFICES ASSUME TokenInv, [Next]_vars, NEW r \in Runs,
                      run[r].pc = "preview", run'[r].pc = "done", ToolOf[r] \in Scoped
               PROVE  /\ clock < knownAt[UserOf[r]] + EXCHANGE_TTL
                      /\ clock + 1 < run[r].exp + EXCHANGE_TTL
    BY DEF AcceptedInTime
  <2>1. /\ clock \in Nat /\ run[r].token \in Nat /\ run[r].exp \in Nat
        /\ knownAt[UserOf[r]] \in Nat /\ EXCHANGE_TTL \in Nat
    BY AccessConstants DEF TokenInv, TypeOK, RunState
  <2>2. run[r].token # NoToken /\ clock < run[r].token
    BY AcceptingStep DEF TokenInv, TokenVerified, Valid
  <2>3. /\ run[r].token <= knownAt[UserOf[r]] + EXCHANGE_TTL
        /\ run[r].token < run[r].exp + EXCHANGE_TTL
    BY <2>2 DEF TokenInv, TokenBacked
  <2> QED BY <2>1, <2>2, <2>3
<1> QED BY <1>1, <1>2, <1>3, PTL DEF Spec, TokensAreBrief
-----------------------------------------------------------------------------
(* LastCleanFlipWins *)

\* Every step keeps FlipInv; a second flip or a mishap marks its tool as disturbed.
LEMMA NextFlip == FlipInv /\ [Next]_vars => FlipInv'
<1> SUFFICES ASSUME FlipInv, [Next]_vars PROVE FlipInv'
  OBVIOUS
<1> USE AccessConstants
<1>0. TypeOK /\ TypeOK'
  BY NextTyped DEF FlipInv
<1>1. CASE UNCHANGED <<plan, fpc, flag, override, disturbed>>
  BY <1>0, <1>1 DEF FlipInv, FlipAlone, LastCleanFlipWins, Between
<1>2. ASSUME NEW f \in Flips, AdminForbidden(f) PROVE FlipInv'
  <2>1. /\ UNCHANGED <<plan, flag, override, disturbed>>
        /\ \A g \in Flips, k \in ToolKeys : Between(g, k)' <=> Between(g, k)
    BY <1>0, <1>2 DEF AdminForbidden, FlipGo, Between, TypeOK
  <2> QED BY <1>0, <2>1 DEF FlipInv, FlipAlone, LastCleanFlipWins
<1>3. ASSUME NEW f \in Flips, upsert_tool_override(f) PROVE FlipInv'
  <2>1. /\ UNCHANGED <<plan, flag, disturbed>>
        /\ \A g \in Flips, k \in ToolKeys : Between(g, k)' <=> Between(g, k) /\ g # f
        /\ \A k \in ToolKeys :
              override'[k] = IF k = plan[f].key THEN plan[f].disabled ELSE override[k]
    BY <1>0, <1>3 DEF upsert_tool_override, FlipGo, Between, TypeOK
  <2>2. \A k \in ToolKeys : k = plan[f].key => Between(f, k)
    BY <1>3 DEF upsert_tool_override, Between
  <2>3. FlipAlone'
    BY <2>1 DEF FlipInv, FlipAlone
  <2>4. LastCleanFlipWins'
    <3> SUFFICES ASSUME NEW k \in ToolKeys, k \notin disturbed,
                        \A g \in Flips : Between(g, k) => g = f
                 PROVE  override'[k] = flag[k]
      BY <2>1 DEF LastCleanFlipWins
    <3>1. CASE k = plan[f].key
      BY <2>1, <2>2, <3>1 DEF FlipInv, FlipAlone
    <3>2. CASE k # plan[f].key
      <4>1. ~Between(f, k)
        BY <3>2 DEF Between
      <4> QED BY <2>1, <3>2, <4>1 DEF FlipInv, LastCleanFlipWins
    <3> QED BY <3>1, <3>2
  <2> QED BY <1>0, <2>3, <2>4 DEF FlipInv
<1>4. ASSUME NEW f \in Flips, FlipDies(f) PROVE FlipInv'
  <2>1. /\ UNCHANGED <<plan, flag, override>>
        /\ \A g \in Flips, k \in ToolKeys : Between(g, k)' <=> Between(g, k) /\ g # f
        /\ disturbed' = disturbed \cup ({plan[f].key} \cap ToolKeys)
    BY <1>0, <1>4 DEF FlipDies, FlipGo, Between, TypeOK
  <2>2. \A k \in ToolKeys : k # plan[f].key => ~Between(f, k)
    BY DEF Between
  <2> QED BY <1>0, <2>1, <2>2 DEF FlipInv, FlipAlone, LastCleanFlipWins
<1>5. ASSUME NEW f \in Flips, WriteFlag(f) PROVE FlipInv'
  <2> DEFINE k == plan[f].key
  <2>1. /\ UNCHANGED <<plan, override>>
        /\ flag' = [flag EXCEPT ![k] = plan[f].disabled]
        /\ disturbed' = IF k \in ToolKeys /\ \E g \in Flips : Between(g, k)
                        THEN disturbed \cup {k} ELSE disturbed \ {k}
        /\ k \in Keys /\ ~Between(f, k)
    BY <1>0, <1>5 DEF WriteFlag, SetFlag, Between, TypeOK
  <2>2. \A g \in Flips, x \in ToolKeys : Between(g, x)' <=> Between(g, x) \/ (g = f /\ x = k)
    BY <1>0, <1>5 DEF WriteFlag, FlipGo, Between, TypeOK
  <2>3. \A x \in Keys : flag'[x] = IF x = k THEN plan[f].disabled ELSE flag[x]
    BY <1>0, <2>1 DEF TypeOK
  <2>4. FlipAlone'
    BY <1>0, <2>1, <2>2, <2>3 DEF FlipInv, FlipAlone, Keys
  <2>5. LastCleanFlipWins'
    BY <1>0, <2>1, <2>2, <2>3 DEF FlipInv, LastCleanFlipWins, Keys
  <2> QED BY <1>0, <2>4, <2>5 DEF FlipInv
<1>6. ASSUME NEW k \in Keys, RedisLosesFlip(k) PROVE FlipInv'
  <2>1. /\ UNCHANGED <<plan, fpc, override>>
        /\ disturbed' = disturbed \cup ({k} \cap ToolKeys)
        /\ \A x \in Keys : x # k => flag'[x] = flag[x]
    BY <1>0, <1>6 DEF RedisLosesFlip, SetFlag, TypeOK
  <2> QED BY <1>0, <2>1 DEF FlipInv, FlipAlone, LastCleanFlipWins, Between, Keys
<1> QED BY <1>1, <1>2, <1>3, <1>4, <1>5, <1>6
        DEF Next, vars, flipVars, Login, authenticate, resolve, CacheAnswers, AskRedis, RedisGet,
            Resume, RunFails, token_exchange, ExchangeRefused, Exchanged, NoExchange, preview,
            ProcessRestarts, EditSeed, IdpLoads, ApiLoads, Tick

\* After a flip of a tool that ran alone, authz.tool_overrides and Redis agree.
THEOREM RecordFollowsRedis == Spec => []LastCleanFlipWins
<1>1. Init => FlipInv
  <2> SUFFICES ASSUME Init PROVE FlipInv
    OBVIOUS
  <2>1. FlipAlone /\ LastCleanFlipWins
    BY DEF Init, FlipAlone, LastCleanFlipWins, Between, Keys
  <2> QED BY <2>1, InitTyped DEF FlipInv
<1>2. FlipInv /\ [Next]_vars => FlipInv'
  BY NextFlip
<1>3. FlipInv => LastCleanFlipWins
  BY DEF FlipInv
<1> QED BY <1>1, <1>2, <1>3, PTL DEF Spec
=============================================================================
