----------------------------- MODULE QuotaProofs -----------------------------
(***************************************************************************)
(* Proofs about Quota for any finite set of runs, any number of sweepers,  *)
(* any limits, windows, deadlines and grace periods: the counter is the    *)
(* sum of what the runs owe, what a window spends is bounded, and nothing  *)
(* leaks from a schedule shorter than the grace period.                    *)
(*                                                                         *)
(* A sum over the runs is a fold, about which nothing can be proved by     *)
(* induction here.  It is counted instead: a non-negative summand f[r] is  *)
(* f[r] tokens <<r, 1>> .. <<r, f[r]>>, and the sum is the number of       *)
(* tokens (a difference of two such numbers when summands are negative),   *)
(* so that what a step does to a sum follows from facts of cardinality.    *)
(***************************************************************************)
EXTENDS Quota, FiniteSetTheorems, WellFoundedInduction, TLAPS

(***************************************************************************)
(* Every script and every tick keeps the variables in their types.         *)
(***************************************************************************)
LEMMA QuotaTypeStep == TypeOK /\ [Next]_vars => TypeOK'
  <1> SUFFICES ASSUME TypeOK, [Next]_vars PROVE TypeOK'
    OBVIOUS
  <1> USE QuotaConstants DEF TypeOK, redisVars, entryVars, history
  <1>1. ASSUME NEW r \in Runs, NEW e \in Estimates, ReserveAccepted(r, e) PROVE TypeOK'
    BY <1>1 DEF ReserveAccepted
  <1>2. ASSUME NEW r \in Runs, NEW e \in Estimates, ReserveRejected(r, e) PROVE TypeOK'
    BY <1>2 DEF ReserveRejected
  <1>3. ASSUME NEW r \in Runs, NEW a \in Actuals, Reconcile(r, a) PROVE TypeOK'
    <2>1. a \in Nat /\ a - est[r] \in Int
      OBVIOUS
    <2> QED
      BY <1>3, <2>1 DEF Reconcile, Adjust, Settle
  <1>4. ASSUME NEW r \in Runs, CallerGone(r) PROVE TypeOK'
    BY <1>4 DEF CallerGone
  <1>5. ASSUME NEW s \in Sweepers, SweepStart(s) PROVE TypeOK'
    BY <1>5 DEF SweepStart, SweepTime
  <1>6. ASSUME NEW s \in Sweepers, NEW r \in Runs, SweepOne(s, r) PROVE TypeOK'
    <2>1. -est[r] \in Int
      OBVIOUS
    <2> QED
      BY <1>6, <2>1 DEF SweepOne, Adjust, Settle
  <1>7. CASE Tick
    BY <1>7 DEF Tick
  <1>8. CASE UNCHANGED vars
    BY <1>8 DEF vars
  <1> QED
    BY <1>1, <1>2, <1>3, <1>4, <1>5, <1>6, <1>7, <1>8 DEF Next

(***************************************************************************)
(* Neither a sweeper with a stale clock nor the TTL takes a reservation    *)
(* before its deadline has passed.                                         *)
(***************************************************************************)
LEMMA DeadlineStep ==
  DeadlineInv /\ [Next]_vars => SweepBehindClock' /\ LiveReservationHeld'
  <1> SUFFICES ASSUME DeadlineInv, [Next]_vars
               PROVE  SweepBehindClock' /\ LiveReservationHeld'
    OBVIOUS
  <1> USE QuotaConstants DEF DeadlineInv, SweepBehindClock, LiveReservationHeld,
          redisVars, entryVars, history
  <1>a. /\ now \in Nat /\ snap \in [Sweepers -> Nat]
        /\ caller \in [Runs -> {"new", "rejected", "running", "done", "gone"}]
        /\ fate \in [Runs -> {"none", "held", "reconciled", "swept", "leaked"}]
        /\ deadline \in [Runs -> Nat]
    BY DEF TypeOK
  <1>1. ASSUME NEW r \in Runs, NEW e \in Estimates,
               ReserveAccepted(r, e) \/ ReserveRejected(r, e)
        PROVE  SweepBehindClock' /\ LiveReservationHeld'
    BY <1>1, <1>a DEF ReserveAccepted, ReserveRejected
  <1>2. ASSUME NEW r \in Runs, NEW a \in Actuals, Reconcile(r, a)
        PROVE  SweepBehindClock' /\ LiveReservationHeld'
    BY <1>2, <1>a DEF Reconcile, Settle
  <1>3. ASSUME NEW r \in Runs, CallerGone(r)
        PROVE  SweepBehindClock' /\ LiveReservationHeld'
    BY <1>3, <1>a DEF CallerGone
  <1>4. ASSUME NEW s \in Sweepers, SweepStart(s)
        PROVE  SweepBehindClock' /\ LiveReservationHeld'
    BY <1>4, <1>a DEF SweepStart, SweepTime
  <1>5. ASSUME NEW s \in Sweepers, NEW r \in Runs, SweepOne(s, r)
        PROVE  SweepBehindClock' /\ LiveReservationHeld'
    <2>1. CASE Overdue(s, r)
      <3>1. now > deadline[r]
        BY <2>1, <1>a DEF Overdue
      <3> QED
        BY <1>5, <3>1, <1>a DEF SweepOne, Settle
    <2>2. CASE ~Overdue(s, r)
      BY <1>5, <2>2, <1>a DEF SweepOne
    <2> QED
      BY <2>1, <2>2
  <1>6. CASE Tick
    <2>1. /\ now' = now + 1 /\ UNCHANGED <<caller, deadline, snap>>
          /\ \A r \in Runs : fate'[r] = fate[r] \/ now + 1 >= deadline[r] + Grace
      BY <1>6, <1>a DEF Tick
    <2> QED
      BY <2>1, <1>a
  <1>7. CASE UNCHANGED vars
    BY <1>7 DEF vars
  <1> QED
    BY <1>1, <1>2, <1>3, <1>4, <1>5, <1>6, <1>7 DEF Next

(***************************************************************************)
(* A caller within its deadline keeps its reservation.                     *)
(***************************************************************************)
THEOREM ReservationsOutliveCallers == Spec => []LiveReservationHeld
  <1>1. Init => DeadlineInv
    BY QuotaConstants DEF Init, DeadlineInv, TypeOK, SweepBehindClock, LiveReservationHeld
  <1>2. DeadlineInv /\ [Next]_vars => DeadlineInv'
    BY QuotaTypeStep, DeadlineStep DEF DeadlineInv
  <1>3. DeadlineInv => LiveReservationHeld
    BY DEF DeadlineInv
  <1> QED
    BY <1>1, <1>2, <1>3, PTL DEF Spec

(***************************************************************************)
(* Every reachable state of counter, reservations and sweepers is typed.   *)
(***************************************************************************)
THEOREM QuotaTyped == Spec => []TypeOK
  <1>1. Init => TypeOK
    BY QuotaConstants DEF Init, TypeOK
  <1> QED
    BY <1>1, QuotaTypeStep, PTL DEF Spec

(***************************************************************************)
(* Every pass starts from all reservations and drops one only when it      *)
(* settles it or finds it not overdue: so a finished pass proves that the  *)
(* held reservations were within their deadlines when it began.            *)
(***************************************************************************)
LEMMA PassStep ==
  LeakInv /\ [Next]_vars => PassIsThorough'
  <1> SUFFICES ASSUME LeakInv, [Next]_vars PROVE PassIsThorough'
    OBVIOUS
  <1> USE QuotaConstants DEF PassIsThorough, redisVars, entryVars, history
  <1>a. /\ now \in Nat /\ snap \in [Sweepers -> Nat] /\ todo \in [Sweepers -> SUBSET Runs]
        /\ fate \in [Runs -> {"none", "held", "reconciled", "swept", "leaked"}]
        /\ deadline \in [Runs -> Nat]
        /\ \A s \in Sweepers : snap[s] <= now
        /\ PassIsThorough
    BY DEF LeakInv, TypeOK, SweepBehindClock
  <1>1. ASSUME NEW r \in Runs, NEW e \in Estimates, ReserveAccepted(r, e)
        PROVE  PassIsThorough'
    <2>1. /\ fate' = [fate EXCEPT ![r] = "held"] /\ UNCHANGED <<snap, todo>>
          /\ deadline' = [deadline EXCEPT ![r] = now + Deadline]
      BY <1>1 DEF ReserveAccepted
    <2> QED
      BY <2>1, <1>a
  <1>2. ASSUME NEW r \in Runs, NEW e \in Estimates, ReserveRejected(r, e)
        PROVE  PassIsThorough'
    BY <1>2, <1>a DEF ReserveRejected
  <1>3. ASSUME NEW r \in Runs, NEW a \in Actuals, Reconcile(r, a)
        PROVE  PassIsThorough'
    <2>1. /\ UNCHANGED <<deadline, snap, todo>>
          /\ fate' = fate \/ fate' = [fate EXCEPT ![r] = "reconciled"]
      BY <1>3 DEF Reconcile, Settle
    <2> QED
      BY <2>1, <1>a
  <1>4. ASSUME NEW r \in Runs, CallerGone(r) PROVE PassIsThorough'
    BY <1>4, <1>a DEF CallerGone
  <1>5. ASSUME NEW s \in Sweepers, SweepStart(s) PROVE PassIsThorough'
    <2>1. /\ UNCHANGED <<fate, deadline>> /\ snap' = [snap EXCEPT ![s] = now]
          /\ todo' = [todo EXCEPT ![s] = {r \in Runs : fate[r] = "held"}]
      BY <1>5 DEF SweepStart, SweepTime
    <2> QED
      BY <2>1, <1>a
  <1>6. ASSUME NEW s \in Sweepers, NEW r \in Runs, SweepOne(s, r) PROVE PassIsThorough'
    <2>1. UNCHANGED <<deadline, snap>> /\ todo' = [todo EXCEPT ![s] = @ \ {r}]
      BY <1>6 DEF SweepOne
    <2>2. CASE fate' = [fate EXCEPT ![r] = "swept"]
      BY <2>1, <2>2, <1>a
    <2>3. CASE ~Overdue(s, r) /\ fate' = fate
      BY <2>1, <2>3, <1>a DEF Overdue
    <2> QED
      BY <1>6, <2>2, <2>3 DEF SweepOne, Settle
  <1>7. CASE Tick
    <2>1. /\ UNCHANGED <<deadline, snap, todo>>
          /\ \A r \in Runs : fate'[r] \in {fate[r], "leaked"}
      BY <1>7, <1>a DEF Tick
    <2> QED
      BY <2>1, <1>a
  <1>8. CASE UNCHANGED vars
    BY <1>8, <1>a DEF vars
  <1> QED
    BY <1>1, <1>2, <1>3, <1>4, <1>5, <1>6, <1>7, <1>8 DEF Next

(***************************************************************************)
(* Only a tick makes a reservation leak, and an instance that swept within *)
(* the last SweepPeriod has left none that is a grace period overdue.      *)
(***************************************************************************)
LEMMA LeakStep ==
  ASSUME SweepPeriod < Grace
  PROVE  LeakInv /\ [Next]_vars => NothingLeaks'
  <1> SUFFICES ASSUME LeakInv, [Next]_vars PROVE NothingLeaks'
    OBVIOUS
  <1> USE QuotaConstants
  <1>a. /\ now \in Nat /\ snap \in [Sweepers -> Nat]
        /\ fate \in [Runs -> {"none", "held", "reconciled", "swept", "leaked"}]
        /\ deadline \in [Runs -> Nat]
        /\ PassIsThorough
    BY DEF LeakInv, TypeOK
  <1>b. NothingLeaks
    BY DEF LeakInv
  <1>1. CASE Tick
    <2> SUFFICES ASSUME sweeping' = "on_schedule", NEW r \in Runs
                 PROVE  fate'[r] # "leaked"
      BY DEF NothingLeaks
    <2>1. sweeping = "on_schedule" /\ OnSchedule
      BY <1>1 DEF Tick
    <2>2. fate[r] # "leaked"
      BY <2>1, <1>b DEF NothingLeaks
    <2>3. PICK s \in Sweepers : now < snap[s] + SweepPeriod /\ todo[s] = {}
      BY <2>1 DEF OnSchedule
    <2>4. fate[r] = "held" => snap[s] <= deadline[r]
      BY <2>3, <1>a DEF PassIsThorough
    <2>5. fate[r] = "held" => now + 1 < deadline[r] + Grace
      BY <2>3, <2>4, <1>a
    <2>6. fate'[r] = IF fate[r] = "held" /\ now + 1 >= deadline[r] + Grace
                     THEN "leaked" ELSE fate[r]
      BY <1>1 DEF Tick
    <2> QED
      BY <2>2, <2>5, <2>6, <1>a
  <1>2. CASE ~Tick
    <2>1. /\ sweeping' = sweeping
          /\ \A r \in Runs : fate'[r] \in {fate[r], "held", "reconciled", "swept"}
      BY <1>2, <1>a DEF Next, ReserveAccepted, ReserveRejected, Reconcile, CallerGone, SweepStart,
         SweepOne, Settle, vars, history
    <2> QED
      BY <2>1, <1>b DEF NothingLeaks
  <1> QED
    BY <1>1, <1>2

(***************************************************************************)
(* With one instance sweeping on schedule, and more often than the grace   *)
(* period is long (30 s and 60 s as configured), no estimate stays charged *)
(* for a reservation that nobody reconciled.                               *)
(***************************************************************************)
THEOREM ScheduledSweepsLeakNothing ==
  ASSUME SweepPeriod < Grace
  PROVE  Spec => []NothingLeaks
  <1>1. Init => LeakInv
    BY QuotaConstants
    DEF Init, LeakInv, TypeOK, SweepBehindClock, PassIsThorough, NothingLeaks
  <1>2. LeakInv /\ DeadlineInv /\ [Next]_vars => LeakInv' /\ DeadlineInv'
    BY QuotaTypeStep, DeadlineStep, PassStep, LeakStep DEF LeakInv, DeadlineInv
  <1>3. Init => DeadlineInv
    BY QuotaConstants DEF Init, DeadlineInv, TypeOK, SweepBehindClock, LiveReservationHeld
  <1>4. LeakInv => NothingLeaks
    BY DEF LeakInv
  <1> QED
    BY <1>1, <1>2, <1>3, <1>4, PTL DEF Spec

-----------------------------------------------------------------------------
(***************************************************************************)
(* Sums.  The community modules define a sum by recursion over the subsets *)
(* of its index set.  It equals a difference of two cardinalities: lay out *)
(* f[r] tokens for each r where f is positive, and -f[r] where it is       *)
(* negative.                                                               *)
(***************************************************************************)
Tokens(f, s) == UNION {{r} \X (1..f[r]) : r \in s}

(***************************************************************************)
(* Finitely many piles of finitely many tokens.                            *)
(***************************************************************************)
LEMMA TokensFinite ==
  ASSUME NEW s, IsFiniteSet(s), NEW f, \A r \in s : f[r] \in Int
  PROVE  IsFiniteSet(Tokens(f, s))
  <1> DEFINE piles == {{r} \X (1..f[r]) : r \in s}
             pile == [r \in s |-> {r} \X (1..f[r])]
  <1>1. pile \in Surjection(s, piles)
    BY DEF Surjection
  <1>2. IsFiniteSet(piles)
    BY <1>1, FS_Surjection
  <1>3. ASSUME NEW r \in s PROVE IsFiniteSet({r} \X (1..f[r]))
    <2>1. IsFiniteSet({r})
      BY FS_Singleton
    <2>2. IsFiniteSet(1..f[r])
      BY FS_Interval
    <2> QED
      BY <2>1, <2>2, FS_Product
  <1> QED
    BY <1>2, <1>3, FS_UNION DEF Tokens

(***************************************************************************)
(* One pile taken away removes its tokens.                                 *)
(***************************************************************************)
LEMMA TokensStep ==
  ASSUME NEW s, IsFiniteSet(s), NEW f, \A r \in s : f[r] \in Int, NEW x \in s
  PROVE  Cardinality(Tokens(f, s)) =
           Cardinality(Tokens(f, s \ {x})) + (IF f[x] > 0 THEN f[x] ELSE 0)
  <1> DEFINE rest == Tokens(f, s \ {x})
             pile == {x} \X (1..f[x])
  <1>1. IsFiniteSet(rest)
    BY TokensFinite, FS_RemoveElement
  <1>2. IsFiniteSet(pile) /\ Cardinality(pile) = IF f[x] > 0 THEN f[x] ELSE 0
    <2>1. IsFiniteSet({x}) /\ Cardinality({x}) = 1
      BY FS_Singleton
    <2>2. IsFiniteSet(1..f[x]) /\ Cardinality(1..f[x]) = IF f[x] > 0 THEN f[x] ELSE 0
      BY FS_Interval
    <2>3. IsFiniteSet(pile) /\ Cardinality(pile) = Cardinality({x}) * Cardinality(1..f[x])
      BY <2>1, <2>2, FS_Product
    <2> QED
      BY <2>1, <2>2, <2>3
  <1>3. Tokens(f, s) = rest \cup pile
    BY DEF Tokens
  <1>4. rest \cap pile = {}
    <2> SUFFICES ASSUME NEW p \in rest, p \in pile PROVE FALSE
      OBVIOUS
    <2>1. PICK r \in s \ {x} : p \in {r} \X (1..f[r])
      BY DEF Tokens
    <2> QED
      BY <2>1
  <1> HIDE DEF rest, pile
  <1>5. Cardinality(rest \cup pile) = Cardinality(rest) + Cardinality(pile) - Cardinality({})
    BY <1>1, <1>2, <1>4, FS_Union
  <1>6. Cardinality(rest) \in Nat /\ Cardinality(pile) \in Nat
    BY <1>1, <1>2, FS_CardinalityType
  <1>7. Cardinality(rest \cup pile) = Cardinality(rest) + Cardinality(pile)
    BY <1>5, <1>6, FS_EmptySet
  <1> QED
    BY <1>2, <1>3, <1>7 DEF rest

Weight(f, s) == Cardinality(Tokens(f, s)) - Cardinality(Tokens([r \in s |-> 0 - f[r]], s))

(***************************************************************************)
(* The recursion of a sum holds for the difference, whichever element is   *)
(* taken out.                                                              *)
(***************************************************************************)
LEMMA WeightStep ==
  ASSUME NEW s, IsFiniteSet(s), NEW f, \A r \in s : f[r] \in Int, NEW x \in s
  PROVE  Weight(f, s) = f[x] + Weight(f, s \ {x})
  <1> DEFINE g == [r \in s |-> 0 - f[r]]
             h == [r \in s \ {x} |-> 0 - f[r]]
  <1>1. \A r \in s : g[r] \in Int /\ g[r] = 0 - f[r]
    OBVIOUS
  <1>2. Tokens(h, s \ {x}) = Tokens(g, s \ {x})
    BY DEF Tokens
  <1>3. Cardinality(Tokens(f, s)) =
           Cardinality(Tokens(f, s \ {x})) + (IF f[x] > 0 THEN f[x] ELSE 0)
    BY TokensStep
  <1> HIDE DEF g
  <1>4. Cardinality(Tokens(g, s)) =
           Cardinality(Tokens(g, s \ {x})) + (IF g[x] > 0 THEN g[x] ELSE 0)
    BY <1>1, TokensStep
  <1>5. /\ Cardinality(Tokens(f, s \ {x})) \in Nat /\ Cardinality(Tokens(g, s \ {x})) \in Nat
    BY <1>1, TokensFinite, FS_CardinalityType, FS_RemoveElement
  <1>6. Weight(f, s) = Cardinality(Tokens(f, s)) - Cardinality(Tokens(g, s))
    BY DEF Weight, g
  <1>7. Weight(f, s \ {x}) = Cardinality(Tokens(f, s \ {x})) - Cardinality(Tokens(h, s \ {x}))
    BY DEF Weight
  <1> QED
    BY <1>1, <1>2, <1>3, <1>4, <1>5, <1>6, <1>7

(***************************************************************************)
(* And so does its base.                                                   *)
(***************************************************************************)
LEMMA WeightEmpty == \A f : Weight(f, {}) = 0
  BY FS_EmptySet DEF Weight, Tokens

(***************************************************************************)
(* A difference of cardinalities of finite sets is a number.               *)
(***************************************************************************)
LEMMA WeightType ==
  ASSUME NEW s, IsFiniteSet(s), NEW f, \A r \in s : f[r] \in Int
  PROVE  Weight(f, s) \in Int
  <1> DEFINE g == [r \in s |-> 0 - f[r]]
  <1>1. \A r \in s : g[r] \in Int
    OBVIOUS
  <1>2. IsFiniteSet(Tokens(f, s))
    BY TokensFinite
  <1> HIDE DEF g
  <1>3. IsFiniteSet(Tokens(g, s))
    BY <1>1, TokensFinite
  <1>4. Cardinality(Tokens(f, s)) \in Nat /\ Cardinality(Tokens(g, s)) \in Nat
    BY <1>2, <1>3, FS_CardinalityType
  <1> QED
    BY <1>4 DEF Weight, g

\* What the recursive function behind SumFunctionOnSet satisfies.
Recurs(f, S, it) ==
  it = [s \in SUBSET S |-> IF s = {} THEN 0
                           ELSE f[CHOOSE x \in s : TRUE] + it[s \ {CHOOSE x \in s : TRUE}]]

(***************************************************************************)
(* The recursion has a solution, the difference; and no other, because a   *)
(* least subset where one differed would have to differ without one of its *)
(* elements as well.                                                       *)
(***************************************************************************)
LEMMA SumIsWeight ==
  ASSUME NEW S, IsFiniteSet(S), NEW f, \A r \in S : f[r] \in Int
  PROVE  SumFunctionOnSet(f, S) = Weight(f, S)
  <1> DEFINE w == [s \in SUBSET S |-> Weight(f, s)]
             it == CHOOSE it : Recurs(f, S, it)
             Wrong == {s \in SUBSET S : it[s] # Weight(f, s)}
  <1>1. ASSUME NEW s \in SUBSET S, s # {}
        PROVE  LET x == CHOOSE x \in s : TRUE IN x \in s /\ Weight(f, s) = f[x] + Weight(f, s \ {x})
    <2>1. (CHOOSE x \in s : TRUE) \in s
      BY <1>1
    <2>2. IsFiniteSet(s) /\ \A r \in s : f[r] \in Int
      BY FS_Subset
    <2> QED
      BY <2>1, <2>2, WeightStep
  <1>2. Recurs(f, S, w)
    BY <1>1, WeightEmpty DEF Recurs
  <1>3. Recurs(f, S, it)
    BY <1>2
  <1>4. SumFunctionOnSet(f, S) = it[S]
    BY DEF SumFunctionOnSet, FoldFunctionOnSet, MapThenFoldSet, Recurs
  <1> HIDE DEF it
  <1>5. Wrong = {}
    <2> SUFFICES ASSUME Wrong # {} PROVE FALSE
      OBVIOUS
    <2>1. IsWellFoundedOn(StrictSubsetOrdering(S), SUBSET S)
      BY FS_StrictSubsetOrderingWellFounded, FS_FiniteSubsetsOfFinite
    <2>2. PICK s \in Wrong : \A t \in Wrong : <<t, s>> \notin StrictSubsetOrdering(S)
      BY <2>1, WFMin
    <2>3. s # {}
      BY <1>3, WeightEmpty DEF Recurs
    <2> DEFINE x == CHOOSE x \in s : TRUE
    <2>4. x \in s /\ Weight(f, s) = f[x] + Weight(f, s \ {x})
      BY <1>1, <2>3
    <2>5. it[s] = f[x] + it[s \ {x}]
      BY <1>3, <2>3 DEF Recurs
    <2> HIDE DEF x
    <2>6. <<s \ {x}, s>> \in StrictSubsetOrdering(S)
      <3>1. s \in SUBSET S /\ s \ {x} \in SUBSET S /\ s \ {x} \subseteq s /\ s \ {x} # s
        BY <2>4
      <3> QED
        BY <3>1 DEF StrictSubsetOrdering
    <2>7. it[s \ {x}] = Weight(f, s \ {x})
      BY <2>2, <2>6
    <2> QED
      BY <2>4, <2>5, <2>7
  <1> QED
    BY <1>4, <1>5

(***************************************************************************)
(* Changing one summand changes the sum by as much.                        *)
(***************************************************************************)
LEMMA SumUpdate ==
  ASSUME NEW S, IsFiniteSet(S), NEW f \in [S -> Int], NEW g \in [S -> Int], NEW x \in S,
         \A r \in S \ {x} : g[r] = f[r]
  PROVE  /\ SumFunction(f) \in Int /\ SumFunction(g) \in Int
         /\ SumFunction(g) = SumFunction(f) - f[x] + g[x]
  <1>1. SumFunction(f) = Weight(f, S) /\ SumFunction(g) = Weight(g, S)
    BY SumIsWeight DEF SumFunction
  <1>2. Weight(f, S) = f[x] + Weight(f, S \ {x}) /\ Weight(g, S) = g[x] + Weight(g, S \ {x})
    BY WeightStep
  <1>3. Weight(f, S \ {x}) = Weight(g, S \ {x})
    <2>1. Tokens(f, S \ {x}) = Tokens(g, S \ {x})
      BY DEF Tokens
    <2>2. [r \in S \ {x} |-> 0 - f[r]] = [r \in S \ {x} |-> 0 - g[r]]
      OBVIOUS
    <2> QED
      BY <2>1, <2>2 DEF Weight
  <1>4. Weight(f, S \ {x}) \in Int
    BY WeightType, FS_RemoveElement
  <1> QED
    BY <1>1, <1>2, <1>3, <1>4

(***************************************************************************)
(* A sum of nothing is 0, and a sum of naturals is none below 0.           *)
(***************************************************************************)
LEMMA SumOfNaturals ==
  ASSUME NEW S, IsFiniteSet(S), NEW f \in [S -> Nat]
  PROVE  /\ SumFunction(f) \in Nat
         /\ (\A r \in S : f[r] = 0) => SumFunction(f) = 0
  <1> DEFINE g == [r \in S |-> 0 - f[r]]
  <1>1. SumFunction(f) = Weight(f, S)
    BY SumIsWeight DEF SumFunction
  <1>2. Tokens(g, S) = {}
    BY DEF Tokens
  <1>3. Weight(f, S) = Cardinality(Tokens(f, S)) - Cardinality({})
    BY <1>2 DEF Weight
  <1>4. Cardinality(Tokens(f, S)) \in Nat
    BY TokensFinite, FS_CardinalityType
  <1>5. SumFunction(f) = Cardinality(Tokens(f, S))
    BY <1>1, <1>3, <1>4, FS_EmptySet
  <1>6. (\A r \in S : f[r] = 0) => Tokens(f, S) = {}
    BY DEF Tokens
  <1> QED
    BY <1>4, <1>5, <1>6, FS_EmptySet

(***************************************************************************)
(* Sums are added term by term.                                            *)
(***************************************************************************)
LEMMA SumOfSums ==
  ASSUME NEW S, IsFiniteSet(S),
         NEW e \in [S -> Int], NEW f \in [S -> Int], NEW g \in [S -> Int], NEW h \in [S -> Int],
         \A r \in S : e[r] = f[r] + g[r] - h[r]
  PROVE  SumFunction(e) = SumFunction(f) + SumFunction(g) - SumFunction(h)
  <1> DEFINE Wrong == {s \in SUBSET S : Weight(e, s) # Weight(f, s) + Weight(g, s) - Weight(h, s)}
  <1>1. Wrong = {}
    <2> SUFFICES ASSUME Wrong # {} PROVE FALSE
      OBVIOUS
    <2>1. IsWellFoundedOn(StrictSubsetOrdering(S), SUBSET S)
      BY FS_StrictSubsetOrderingWellFounded, FS_FiniteSubsetsOfFinite
    <2>2. PICK s \in Wrong : \A t \in Wrong : <<t, s>> \notin StrictSubsetOrdering(S)
      BY <2>1, WFMin
    <2>3. s # {}
      <3>1. Weight(e, {}) = 0 /\ Weight(f, {}) = 0 /\ Weight(g, {}) = 0 /\ Weight(h, {}) = 0
        BY WeightEmpty
      <3>2. {} \notin Wrong
        <4>1. Weight(e, {}) = Weight(f, {}) + Weight(g, {}) - Weight(h, {})
          BY <3>1
        <4> QED
          BY <4>1
      <3> QED
        BY <3>2
    <2>4. PICK x : x \in s
      BY <2>3
    <2>5. <<s \ {x}, s>> \in StrictSubsetOrdering(S)
      <3>1. s \in SUBSET S /\ s \ {x} \in SUBSET S /\ s \ {x} \subseteq s /\ s \ {x} # s
        BY <2>4
      <3> QED
        BY <3>1 DEF StrictSubsetOrdering
    <2>6. Weight(e, s \ {x}) = Weight(f, s \ {x}) + Weight(g, s \ {x}) - Weight(h, s \ {x})
      BY <2>2, <2>5
    <2>7. IsFiniteSet(s) /\ IsFiniteSet(s \ {x})
      BY FS_Subset, FS_RemoveElement
    <2>8. /\ Weight(e, s) = e[x] + Weight(e, s \ {x}) /\ Weight(f, s) = f[x] + Weight(f, s \ {x})
          /\ Weight(g, s) = g[x] + Weight(g, s \ {x}) /\ Weight(h, s) = h[x] + Weight(h, s \ {x})
      BY <2>4, <2>7, WeightStep
    <2>9. /\ Weight(f, s \ {x}) \in Int /\ Weight(g, s \ {x}) \in Int
          /\ Weight(h, s \ {x}) \in Int
      BY <2>7, WeightType
    <2>10. x \in S /\ Weight(e, s) # Weight(f, s) + Weight(g, s) - Weight(h, s)
      BY <2>4
    <2> QED
      BY <2>6, <2>8, <2>9, <2>10
  <1>2. Weight(e, S) = Weight(f, S) + Weight(g, S) - Weight(h, S)
    BY <1>1
  <1>3. /\ SumFunction(e) = Weight(e, S) /\ SumFunction(f) = Weight(f, S)
        /\ SumFunction(g) = Weight(g, S) /\ SumFunction(h) = Weight(h, S)
    BY SumIsWeight DEF SumFunction
  <1> QED
    BY <1>2, <1>3
-----------------------------------------------------------------------------
(***************************************************************************)
(* A grant or a settlement is dated with the current window, once.         *)
(***************************************************************************)
LEMMA WindowStep == TypeOK /\ WindowInv /\ [Next]_vars => WindowInv'
  <1> SUFFICES ASSUME TypeOK, WindowInv, [Next]_vars PROVE WindowInv'
    OBVIOUS
  <1> USE QuotaConstants DEF WindowInv, redisVars, entryVars, history
  <1>a. /\ window \in Nat /\ grantWin \in [Runs -> Nat] /\ settleWin \in [Runs -> Nat]
        /\ used \in [Runs -> Nat] /\ est \in [Runs -> Int]
        /\ caller \in [Runs -> {"new", "rejected", "running", "done", "gone"}]
        /\ fate \in [Runs -> {"none", "held", "reconciled", "swept", "leaked"}]
    BY DEF TypeOK
  <1>1. ASSUME NEW r \in Runs, NEW e \in Estimates, ReserveAccepted(r, e) PROVE WindowInv'
    <2>1. /\ caller[r] = "new" /\ UNCHANGED <<window, settleWin, used>>
          /\ fate' = [fate EXCEPT ![r] = "held"] /\ est' = [est EXCEPT ![r] = e]
          /\ grantWin' = [grantWin EXCEPT ![r] = window]
          /\ caller' = [caller EXCEPT ![r] = "running"]
      BY <1>1 DEF ReserveAccepted
    <2> QED
      BY <2>1, <1>a
  <1>2. ASSUME NEW r \in Runs, NEW e \in Estimates, ReserveRejected(r, e) PROVE WindowInv'
    BY <1>2, <1>a DEF ReserveRejected
  <1>3. ASSUME NEW r \in Runs, NEW a \in Actuals, Reconcile(r, a) PROVE WindowInv'
    <2>1. /\ UNCHANGED <<window, grantWin, est>> /\ caller' = [caller EXCEPT ![r] = "done"]
          /\ caller[r] \in {"running", "done"}
      BY <1>3 DEF Reconcile
    <2>2. CASE EntryFound(r)
      <3>1. /\ fate[r] = "held" /\ fate' = [fate EXCEPT ![r] = "reconciled"]
            /\ settleWin' = [settleWin EXCEPT ![r] = window] /\ used' = [used EXCEPT ![r] = a]
        BY <1>3, <2>2 DEF Reconcile, EntryFound, Settle
      <3> QED
        BY <2>1, <3>1, <1>a
    <2>3. CASE ~EntryFound(r)
      BY <1>3, <2>1, <2>3, <1>a DEF Reconcile
    <2> QED
      BY <2>2, <2>3
  <1>4. ASSUME NEW r \in Runs, CallerGone(r) PROVE WindowInv'
    BY <1>4, <1>a DEF CallerGone
  <1>5. ASSUME NEW s \in Sweepers, SweepStart(s) PROVE WindowInv'
    BY <1>5, <1>a DEF SweepStart
  <1>6. ASSUME NEW s \in Sweepers, NEW r \in Runs, SweepOne(s, r) PROVE WindowInv'
    <2>1. UNCHANGED <<window, grantWin, est, caller>>
      BY <1>6 DEF SweepOne
    <2>2. CASE Overdue(s, r)
      <3>1. /\ fate[r] = "held" /\ fate' = [fate EXCEPT ![r] = "swept"]
            /\ settleWin' = [settleWin EXCEPT ![r] = window] /\ used' = [used EXCEPT ![r] = 0]
        BY <1>6, <2>2 DEF SweepOne, Overdue, Settle
      <3> QED
        BY <2>1, <3>1, <1>a
    <2>3. CASE ~Overdue(s, r)
      BY <1>6, <2>1, <2>3, <1>a DEF SweepOne
    <2> QED
      BY <2>2, <2>3
  <1>7. CASE Tick
    <2>1. /\ UNCHANGED <<caller, est, grantWin, settleWin, used>>
          /\ window' \in {window, window + 1}
      BY <1>7, <1>a DEF Tick
    <2>2. fate' = [r \in Runs |-> IF fate[r] = "held" /\ now + 1 >= deadline[r] + Grace
                                  THEN "leaked" ELSE fate[r]]
      BY <1>7 DEF Tick
    <2>3. ASSUME NEW r \in Runs
          PROVE  fate'[r] = fate[r] \/ (fate[r] = "held" /\ fate'[r] = "leaked")
      <3>1. fate'[r] = IF fate[r] = "held" /\ now + 1 >= deadline[r] + Grace
                       THEN "leaked" ELSE fate[r]
        BY <2>2
      <3> QED
        BY <3>1
    <2> QED
      BY <2>1, <2>3, <1>a
  <1>8. CASE UNCHANGED vars
    BY <1>8, <1>a DEF vars
  <1> QED
    BY <1>1, <1>2, <1>3, <1>4, <1>5, <1>6, <1>7, <1>8 DEF Next

(***************************************************************************)
(* A step that changes what one run should have added changes the sum by   *)
(* as much.                                                                *)
(***************************************************************************)
LEMMA ShareSum ==
  ASSUME TypeOK, TypeOK', NEW r \in Runs, \A q \in Runs \ {r} : Share(q)' = Share(q)
  PROVE  /\ Sum(Share) \in Int
         /\ Sum(Share)' = Sum(Share) - Share(r) + Share(r)'
  <1> DEFINE f == [q \in Runs |-> Share(q)]
             g == [q \in Runs |-> Share(q)']
  <1>1. f \in [Runs -> Int] /\ g \in [Runs -> Int]
    BY DEF TypeOK, Share
  <1>2. IsFiniteSet(Runs) /\ \A q \in Runs \ {r} : g[q] = f[q]
    BY QuotaConstants
  <1>3. Sum(Share) = SumFunction(f) /\ Sum(Share)' = SumFunction(g)
    BY DEF Sum
  <1>4. f[r] = Share(r) /\ g[r] = Share(r)'
    OBVIOUS
  <1> HIDE DEF f, g
  <1>5. SumFunction(f) \in Int /\ SumFunction(g) = SumFunction(f) - f[r] + g[r]
    BY <1>1, <1>2, SumUpdate
  <1> QED
    BY <1>3, <1>4, <1>5

(***************************************************************************)
(* What a step does to the ledger.  Only a grant, a settlement and the     *)
(* ticks touch it: a run's date, estimate, use and fate stay as they are   *)
(* in all other steps, and for all other runs.                             *)
(***************************************************************************)
Granted(r, e) ==
  /\ fate[r] = "none" /\ WithinLimit(e) /\ e \in Int /\ counter' = counter + e
  /\ fate' = [fate EXCEPT ![r] = "held"] /\ est' = [est EXCEPT ![r] = e]
  /\ grantWin' = [grantWin EXCEPT ![r] = window]
  /\ UNCHANGED <<window, settleWin, used>>

Settled(r, how, tokens) ==
  /\ fate[r] = "held" /\ how \in {"reconciled", "swept"} /\ tokens \in Nat
  /\ how = "swept" => tokens = 0
  /\ counter' = counter + (tokens - est[r])
  /\ fate' = [fate EXCEPT ![r] = how] /\ used' = [used EXCEPT ![r] = tokens]
  /\ settleWin' = [settleWin EXCEPT ![r] = window]
  /\ UNCHANGED <<window, est, grantWin>>

WindowOver == counter' = 0 /\ window' = window + 1 /\ UNCHANGED history

NothingBooked ==
  /\ UNCHANGED <<counter, window, est, history>>
  /\ \A r \in Runs : fate'[r] = fate[r] \/ (fate[r] = "held" /\ fate'[r] = "leaked")

\* What each step does to the books: a grant, a settlement, a window that ends, or nothing.
LEMMA LedgerShapes ==
  ASSUME TypeOK, WindowInv, [Next]_vars
  PROVE  \/ \E r \in Runs, e \in Estimates : Granted(r, e)
         \/ \E r \in Runs, how \in {"reconciled", "swept"}, tokens \in Nat :
              Settled(r, how, tokens)
         \/ WindowOver
         \/ NothingBooked
  <1> USE QuotaConstants
  <1>a. /\ counter \in Int /\ est \in [Runs -> Int]
        /\ fate \in [Runs -> {"none", "held", "reconciled", "swept", "leaked"}]
        /\ \A r \in Runs : caller[r] = "new" => fate[r] = "none"
    BY DEF TypeOK, WindowInv
  <1>1. ASSUME NEW r \in Runs, NEW e \in Estimates, ReserveAccepted(r, e) PROVE Granted(r, e)
    BY <1>1, <1>a DEF ReserveAccepted, Granted
  <1>2. ASSUME NEW r \in Runs, NEW e \in Estimates, ReserveRejected(r, e) PROVE NothingBooked
    BY <1>2, <1>a DEF ReserveRejected, NothingBooked, redisVars, entryVars, history
  <1>3. ASSUME NEW r \in Runs, NEW a \in Actuals, Reconcile(r, a)
        PROVE  Settled(r, "reconciled", a) \/ NothingBooked
    <2>1. CASE EntryFound(r)
      BY <1>3, <2>1, <1>a DEF Reconcile, EntryFound, Adjust, Settle, Settled, entryVars
    <2>2. CASE ~EntryFound(r)
      BY <1>3, <2>2, <1>a DEF Reconcile, NothingBooked, redisVars, entryVars, history
    <2> QED
      BY <2>1, <2>2
  <1>4. ASSUME NEW r \in Runs, CallerGone(r) PROVE NothingBooked
    BY <1>4, <1>a DEF CallerGone, NothingBooked, redisVars, entryVars, history
  <1>5. ASSUME NEW s \in Sweepers, SweepStart(s) PROVE NothingBooked
    BY <1>5, <1>a DEF SweepStart, NothingBooked, redisVars, entryVars, history
  <1>6. ASSUME NEW s \in Sweepers, NEW r \in Runs, SweepOne(s, r)
        PROVE  Settled(r, "swept", 0) \/ NothingBooked
    <2>1. CASE Overdue(s, r)
      <3>1. counter' = counter + (-est[r]) /\ est[r] \in Int
        BY <1>6, <2>1, <1>a DEF SweepOne, Adjust
      <3>2. counter' = counter + (0 - est[r])
        BY <3>1, <1>a
      <3> QED
        BY <1>6, <2>1, <3>2 DEF SweepOne, Overdue, Settle, Settled, entryVars
    <2>2. CASE ~Overdue(s, r)
      BY <1>6, <2>2, <1>a DEF SweepOne, NothingBooked, redisVars, entryVars, history
    <2> QED
      BY <2>1, <2>2
  <1>7. CASE Tick
    <2>1. UNCHANGED <<est, history>>
      BY <1>7 DEF Tick, entryVars, history
    <2>2. ASSUME NEW r \in Runs
          PROVE  fate'[r] = fate[r] \/ (fate[r] = "held" /\ fate'[r] = "leaked")
      <3>1. fate'[r] = IF fate[r] = "held" /\ now + 1 >= deadline[r] + Grace
                       THEN "leaked" ELSE fate[r]
        BY <1>7 DEF Tick
      <3> QED
        BY <3>1
    <2>3. CASE key = "expiring" /\ now + 1 >= keyEnd
      BY <1>7, <2>1, <2>3 DEF Tick, WindowOver
    <2>4. CASE ~(key = "expiring" /\ now + 1 >= keyEnd)
      BY <1>7, <2>1, <2>2, <2>4 DEF Tick, NothingBooked
    <2> QED
      BY <2>3, <2>4
  <1>8. CASE UNCHANGED vars
    BY <1>8, <1>a DEF vars, NothingBooked, redisVars, entryVars, history
  <1>9. \A a \in Actuals : a \in Nat
    OBVIOUS
  <1> QED
    BY <1>1, <1>2, <1>3, <1>4, <1>5, <1>6, <1>7, <1>8, <1>9 DEF Next

(***************************************************************************)
(* A grant adds its estimate to the counter and to the run's share, a      *)
(* settlement the difference between use and estimate; a new window starts *)
(* both from 0.                                                            *)
(***************************************************************************)
LEMMA LedgerStep == LedgerInv /\ [Next]_vars => LedgerBalanced'
  <1> SUFFICES ASSUME LedgerInv, [Next]_vars PROVE LedgerBalanced'
    OBVIOUS
  <1>a. TypeOK /\ WindowInv /\ TypeOK' /\ WindowInv' /\ counter = Sum(Share)
    BY QuotaTypeStep, WindowStep DEF LedgerInv, LedgerBalanced
  <1>b. /\ window \in Nat /\ grantWin \in [Runs -> Nat] /\ settleWin \in [Runs -> Nat]
        /\ used \in [Runs -> Nat] /\ est \in [Runs -> Int] /\ counter \in Int
        /\ fate \in [Runs -> {"none", "held", "reconciled", "swept", "leaked"}]
    BY <1>a DEF TypeOK
  <1>c. window >= 1
    BY <1>a DEF WindowInv
  <1>1. ASSUME NEW r \in Runs, NEW e \in Estimates, Granted(r, e) PROVE LedgerBalanced'
    <2>1. \A q \in Runs \ {r} : Share(q)' = Share(q)
      BY <1>1, <1>b DEF Granted, Share, Here, SettledHere
    <2>2. Share(r) = 0
      <3>1. fate[r] = "none" /\ grantWin[r] = 0
        BY <1>1, <1>a DEF Granted, WindowInv
      <3>2. ~Here(r) /\ ~SettledHere(r)
        BY <3>1, <1>b, <1>c DEF Here, SettledHere
      <3> QED
        BY <3>2 DEF Share
    <2>3. Share(r)' = e /\ e \in Int
      BY <1>1, <1>b DEF Granted, Share, Here, SettledHere
    <2>4. Sum(Share) \in Int /\ Sum(Share)' = Sum(Share) - Share(r) + Share(r)'
      BY <1>a, <2>1, ShareSum
    <2> QED
      BY <1>1, <1>a, <2>2, <2>3, <2>4 DEF Granted, LedgerBalanced
  <1>2. ASSUME NEW r \in Runs, NEW how \in {"reconciled", "swept"}, NEW tokens \in Nat,
               Settled(r, how, tokens)
        PROVE  LedgerBalanced'
    <2>1. \A q \in Runs \ {r} : Share(q)' = Share(q)
      BY <1>2, <1>b DEF Settled, Share, Here, SettledHere
    <2>2. Share(r) = (IF Here(r) THEN est[r] ELSE 0) + 0
      BY <1>2, <1>b DEF Settled, Share, SettledHere
    <2>3. Share(r)' = (IF Here(r) THEN est[r] ELSE 0) + (tokens - est[r])
      BY <1>2, <1>b DEF Settled, Share, Here, SettledHere
    <2>4. Sum(Share) \in Int /\ Sum(Share)' = Sum(Share) - Share(r) + Share(r)'
      BY <1>a, <2>1, ShareSum
    <2>5. counter' = counter + (tokens - est[r]) /\ est[r] \in Int
      BY <1>2, <1>b DEF Settled
    <2> QED
      BY <1>a, <2>2, <2>3, <2>4, <2>5 DEF LedgerBalanced
  <1>3. CASE WindowOver
    <2>1. \A r \in Runs : Share(r)' = 0
      <3> SUFFICES ASSUME NEW r \in Runs PROVE Share(r)' = 0
        OBVIOUS
      <3>1. grantWin[r] <= window /\ settleWin[r] <= window
        BY <1>a DEF WindowInv
      <3>2. ~Here(r)' /\ ~SettledHere(r)'
        BY <1>3, <1>b, <3>1 DEF WindowOver, Here, SettledHere, history
      <3> QED
        BY <3>2 DEF Share
    <2> DEFINE g == [q \in Runs |-> Share(q)']
    <2>2. g \in [Runs -> Nat] /\ \A q \in Runs : g[q] = 0
      BY <2>1
    <2>3. Sum(Share)' = SumFunction(g)
      BY DEF Sum
    <2> HIDE DEF g
    <2>4. SumFunction(g) = 0
      BY <2>2, SumOfNaturals, QuotaConstants
    <2> QED
      BY <1>3, <2>3, <2>4 DEF WindowOver, LedgerBalanced
  <1>4. CASE NothingBooked
    <2>1. \A q \in Runs : Share(q)' = Share(q)
      BY <1>4, <1>b DEF NothingBooked, Share, Here, SettledHere, history
    <2>2. Sum(Share)' = Sum(Share)
      BY <2>1 DEF Sum
    <2> QED
      BY <1>4, <1>a, <2>2 DEF NothingBooked, LedgerBalanced
  <1> QED
    BY <1>a, <1>1, <1>2, <1>3, <1>4, LedgerShapes

(***************************************************************************)
(* At the start nothing is charged.                                        *)
(***************************************************************************)
LEMMA LedgerStart == Init => LedgerInv
  <1> SUFFICES ASSUME Init PROVE LedgerInv
    OBVIOUS
  <1>1. TypeOK
    BY QuotaConstants DEF Init, TypeOK
  <1>2. WindowInv
    BY DEF Init, WindowInv
  <1> DEFINE g == [q \in Runs |-> Share(q)]
  <1>3. g \in [Runs -> Nat] /\ \A q \in Runs : g[q] = 0
    BY DEF Init, Share, Here, SettledHere
  <1>4. Sum(Share) = SumFunction(g)
    BY DEF Sum
  <1> HIDE DEF g
  <1>5. SumFunction(g) = 0
    BY <1>3, SumOfNaturals, QuotaConstants
  <1> QED
    BY <1>1, <1>2, <1>4, <1>5 DEF Init, LedgerInv, LedgerBalanced

(***************************************************************************)
(* The window counter is the sum of what each run should have added to it: *)
(* whatever the interleaving of reservations, repeated reconciliations,    *)
(* sweeps of several instances and expiring windows, no estimate is        *)
(* returned twice or charged twice.                                        *)
(***************************************************************************)
THEOREM CounterIsSumOfRuns == Spec => []LedgerBalanced
  <1>1. Init => LedgerInv
    BY LedgerStart
  <1>2. LedgerInv /\ [Next]_vars => LedgerInv'
    BY QuotaTypeStep, WindowStep, LedgerStep DEF LedgerInv
  <1>3. LedgerInv => LedgerBalanced
    BY DEF LedgerInv
  <1> QED
    BY <1>1, <1>2, <1>3, PTL DEF Spec

(***************************************************************************)
(* The terms of the spending bound are naturals, and so are their sums.    *)
(***************************************************************************)
LEMMA SpendTypes ==
  ASSUME TypeOK
  PROVE  \A r \in Runs : /\ Spent(r) \in Nat /\ Overrun(r) \in Nat
                        /\ Credit(r) \in Nat /\ Repaid(r) \in Nat
  <1>1. \A r \in Runs : est[r] \in Int /\ used[r] \in Nat
    BY DEF TypeOK
  <1>2. \A r \in Runs : Spent(r) \in Nat
    BY <1>1 DEF Spent, AtLeast0
  <1>3. \A r \in Runs : Overrun(r) \in Nat
    BY <1>1 DEF Overrun
  <1>4. \A r \in Runs : Credit(r) \in Nat
    BY <1>1 DEF Credit, Lowered, Carried, AtLeast0
  <1>5. \A r \in Runs : Repaid(r) \in Nat
    BY <1>1 DEF Repaid, Lowered, AtLeast0
  <1> QED
    BY <1>2, <1>3, <1>4, <1>5

\* The four sums are naturals, and nothing spent by any run is nothing spent in all.
LEMMA SpendSumTypes ==
  ASSUME TypeOK
  PROVE  /\ Sum(Spent) \in Nat /\ Sum(Overrun) \in Nat
         /\ Sum(Credit) \in Nat /\ Sum(Repaid) \in Nat
         /\ (\A r \in Runs : Spent(r) = 0) => Sum(Spent) = 0
  <1>1. \A r \in Runs : /\ Spent(r) \in Nat /\ Overrun(r) \in Nat
                       /\ Credit(r) \in Nat /\ Repaid(r) \in Nat
    BY SpendTypes
  <1>2. Sum(Spent) \in Nat /\ ((\A r \in Runs : Spent(r) = 0) => Sum(Spent) = 0)
    <2> DEFINE f == [r \in Runs |-> Spent(r)]
    <2>1. f \in [Runs -> Nat] /\ \A r \in Runs : f[r] = Spent(r)
      BY <1>1
    <2>2. Sum(Spent) = SumFunction(f)
      BY DEF Sum
    <2> HIDE DEF f
    <2> QED
      BY <2>1, <2>2, SumOfNaturals, QuotaConstants
  <1>3. Sum(Overrun) \in Nat
    <2> DEFINE f == [r \in Runs |-> Overrun(r)]
    <2>1. f \in [Runs -> Nat]
      BY <1>1
    <2>2. Sum(Overrun) = SumFunction(f)
      BY DEF Sum
    <2> HIDE DEF f
    <2> QED
      BY <2>1, <2>2, SumOfNaturals, QuotaConstants
  <1>4. Sum(Credit) \in Nat
    <2> DEFINE f == [r \in Runs |-> Credit(r)]
    <2>1. f \in [Runs -> Nat]
      BY <1>1
    <2>2. Sum(Credit) = SumFunction(f)
      BY DEF Sum
    <2> HIDE DEF f
    <2> QED
      BY <2>1, <2>2, SumOfNaturals, QuotaConstants
  <1>5. Sum(Repaid) \in Nat
    <2> DEFINE f == [r \in Runs |-> Repaid(r)]
    <2>1. f \in [Runs -> Nat]
      BY <1>1
    <2>2. Sum(Repaid) = SumFunction(f)
      BY DEF Sum
    <2> HIDE DEF f
    <2> QED
      BY <2>1, <2>2, SumOfNaturals, QuotaConstants
  <1> QED
    BY <1>2, <1>3, <1>4, <1>5

(***************************************************************************)
(* The counter, read as spending: what was let through and what was        *)
(* charged beside it, less what was credited.                              *)
(***************************************************************************)
LEMMA CounterIsSpending ==
  ASSUME LedgerInv
  PROVE  counter = Sum(Spent) + Sum(Repaid) - Sum(Credit)
  <1> DEFINE e == [r \in Runs |-> Share(r)]
             f == [r \in Runs |-> Spent(r)]
             g == [r \in Runs |-> Repaid(r)]
             h == [r \in Runs |-> Credit(r)]
  <1>a. TypeOK /\ WindowInv
    BY DEF LedgerInv
  <1>b. counter = Sum(Share)
    BY DEF LedgerInv, LedgerBalanced
  <1>1. ASSUME NEW r \in Runs PROVE Share(r) = Spent(r) + Repaid(r) - Credit(r)
    <2>1. /\ est[r] \in Int /\ used[r] \in Nat /\ window \in Nat
          /\ grantWin[r] \in Nat /\ settleWin[r] \in Nat
          /\ fate[r] \in {"none", "held", "reconciled", "swept", "leaked"}
      BY <1>a DEF TypeOK
    <2>2. /\ settleWin[r] <= window /\ window >= 1
          /\ fate[r] = "none" => grantWin[r] = 0
          /\ fate[r] \in {"reconciled", "swept"} => settleWin[r] >= grantWin[r]
      BY <1>a DEF WindowInv
    <2>3. CASE fate[r] = "none"
      BY <2>1, <2>2, <2>3 DEF Share, Spent, Repaid, Credit, Lowered, Carried, AtLeast0,
         Here, SettledHere
    <2>4. CASE fate[r] \in {"held", "leaked"}
      BY <2>1, <2>2, <2>4 DEF Share, Spent, Repaid, Credit, Lowered, Carried, AtLeast0,
         Here, SettledHere
    <2>5. CASE fate[r] \in {"reconciled", "swept"}
      <3>1. Here(r) => SettledHere(r)
        BY <2>1, <2>2, <2>5 DEF Here, SettledHere
      <3>2. CASE Here(r)
        BY <2>1, <2>5, <3>1, <3>2 DEF Share, Spent, Repaid, Credit, Lowered, Carried, AtLeast0
      <3>3. CASE ~Here(r)
        BY <2>1, <2>5, <3>3 DEF Share, Spent, Repaid, Credit, Lowered, Carried, AtLeast0
      <3> QED
        BY <3>2, <3>3
    <2> QED
      BY <2>1, <2>3, <2>4, <2>5
  <1>2. e \in [Runs -> Int]
    BY <1>a DEF TypeOK, Share
  <1>3. f \in [Runs -> Int] /\ g \in [Runs -> Int] /\ h \in [Runs -> Int]
    BY <1>a, SpendTypes
  <1>4. \A r \in Runs : e[r] = f[r] + g[r] - h[r]
    BY <1>1
  <1>5. /\ Sum(Share) = SumFunction(e) /\ Sum(Spent) = SumFunction(f)
        /\ Sum(Repaid) = SumFunction(g) /\ Sum(Credit) = SumFunction(h)
    BY DEF Sum
  <1> HIDE DEF e, f, g, h
  <1>6. SumFunction(e) = SumFunction(f) + SumFunction(g) - SumFunction(h)
    BY <1>2, <1>3, <1>4, SumOfSums, QuotaConstants
  <1> QED
    BY <1>b, <1>5, <1>6

(***************************************************************************)
(* The same facts, of the state after a step.                              *)
(***************************************************************************)
LEMMA SpendSumTypesAfter ==
  TypeOK' => (/\ Sum(Spent) \in Nat /\ Sum(Overrun) \in Nat
              /\ Sum(Credit) \in Nat /\ Sum(Repaid) \in Nat
              /\ (\A r \in Runs : Spent(r) = 0) => Sum(Spent) = 0)'
  <1>1. TypeOK => /\ Sum(Spent) \in Nat /\ Sum(Overrun) \in Nat
                  /\ Sum(Credit) \in Nat /\ Sum(Repaid) \in Nat
                  /\ (\A r \in Runs : Spent(r) = 0) => Sum(Spent) = 0
    BY SpendSumTypes
  <1> QED
    BY <1>1, PTL

\* CounterIsSpending of the next state.
LEMMA CounterIsSpendingAfter ==
  LedgerInv' => (counter = Sum(Spent) + Sum(Repaid) - Sum(Credit))'
  <1>1. LedgerInv => counter = Sum(Spent) + Sum(Repaid) - Sum(Credit)
    BY CounterIsSpending
  <1> QED
    BY <1>1, PTL

(***************************************************************************)
(* A step that books something on one run moves each of the three sums by  *)
(* what it moves that run's term.                                          *)
(***************************************************************************)
LEMMA SpendSums ==
  ASSUME TypeOK, TypeOK', NEW r \in Runs,
         \A q \in Runs \ {r} : /\ Spent(q)' = Spent(q) /\ Overrun(q)' = Overrun(q)
                              /\ Credit(q)' = Credit(q)
  PROVE  /\ Sum(Spent)' = Sum(Spent) - Spent(r) + Spent(r)'
         /\ Sum(Overrun)' = Sum(Overrun) - Overrun(r) + Overrun(r)'
         /\ Sum(Credit)' = Sum(Credit) - Credit(r) + Credit(r)'
  <1> USE QuotaConstants
  <1>a. \A q \in Runs : Spent(q) \in Int /\ Overrun(q) \in Int /\ Credit(q) \in Int
    BY SpendTypes
  <1>b. \A q \in Runs : Spent(q)' \in Int /\ Overrun(q)' \in Int /\ Credit(q)' \in Int
    <2>1. \A q \in Runs : est'[q] \in Int /\ used'[q] \in Nat
      BY DEF TypeOK
    <2> QED
      BY <2>1 DEF Spent, Overrun, Credit, Lowered, Carried, AtLeast0
  <1>1. Sum(Spent)' = Sum(Spent) - Spent(r) + Spent(r)'
    <2> DEFINE f == [q \in Runs |-> Spent(q)]
               g == [q \in Runs |-> Spent(q)']
    <2>1. /\ f \in [Runs -> Int] /\ g \in [Runs -> Int]
          /\ f[r] = Spent(r) /\ g[r] = Spent(r)' /\ \A q \in Runs \ {r} : g[q] = f[q]
      BY <1>a, <1>b
    <2>2. Sum(Spent) = SumFunction(f) /\ Sum(Spent)' = SumFunction(g)
      BY DEF Sum
    <2> HIDE DEF f, g
    <2>3. SumFunction(g) = SumFunction(f) - f[r] + g[r]
      BY <2>1, SumUpdate
    <2> QED
      BY <2>1, <2>2, <2>3
  <1>2. Sum(Overrun)' = Sum(Overrun) - Overrun(r) + Overrun(r)'
    <2> DEFINE f == [q \in Runs |-> Overrun(q)]
               g == [q \in Runs |-> Overrun(q)']
    <2>1. /\ f \in [Runs -> Int] /\ g \in [Runs -> Int]
          /\ f[r] = Overrun(r) /\ g[r] = Overrun(r)' /\ \A q \in Runs \ {r} : g[q] = f[q]
      BY <1>a, <1>b
    <2>2. Sum(Overrun) = SumFunction(f) /\ Sum(Overrun)' = SumFunction(g)
      BY DEF Sum
    <2> HIDE DEF f, g
    <2>3. SumFunction(g) = SumFunction(f) - f[r] + g[r]
      BY <2>1, SumUpdate
    <2> QED
      BY <2>1, <2>2, <2>3
  <1>3. Sum(Credit)' = Sum(Credit) - Credit(r) + Credit(r)'
    <2> DEFINE f == [q \in Runs |-> Credit(q)]
               g == [q \in Runs |-> Credit(q)']
    <2>1. /\ f \in [Runs -> Int] /\ g \in [Runs -> Int]
          /\ f[r] = Credit(r) /\ g[r] = Credit(r)' /\ \A q \in Runs \ {r} : g[q] = f[q]
      BY <1>a, <1>b
    <2>2. Sum(Credit) = SumFunction(f) /\ Sum(Credit)' = SumFunction(g)
      BY DEF Sum
    <2> HIDE DEF f, g
    <2>3. SumFunction(g) = SumFunction(f) - f[r] + g[r]
      BY <2>1, SumUpdate
    <2> QED
      BY <2>1, <2>2, <2>3
  <1> QED
    BY <1>1, <1>2, <1>3

(***************************************************************************)
(* A grant respects the limit, by the counter it reads.  A settlement in   *)
(* the window of the grant replaces the estimate by the use, and what is   *)
(* more is overrun; one in a later window leaves its spending alone.  A    *)
(* negative estimate stays a credit of its window when it is swept.        *)
(***************************************************************************)
LEMMA SpendStep == SpendInv /\ [Next]_vars => SpendBounded'
  <1> SUFFICES ASSUME SpendInv, [Next]_vars PROVE SpendBounded'
    OBVIOUS
  <1>a. TypeOK /\ WindowInv /\ TypeOK' /\ WindowInv'
    BY QuotaTypeStep, WindowStep DEF SpendInv, LedgerInv
  <1>b. /\ window \in Nat /\ grantWin \in [Runs -> Nat] /\ settleWin \in [Runs -> Nat]
        /\ used \in [Runs -> Nat] /\ est \in [Runs -> Int] /\ counter \in Int
        /\ fate \in [Runs -> {"none", "held", "reconciled", "swept", "leaked"}]
        /\ Limit \in Nat
    BY <1>a, QuotaConstants DEF TypeOK
  <1>c. Sum(Spent) <= Limit + Sum(Overrun) + Sum(Credit)
    BY DEF SpendInv, SpendBounded
  <1>d. Sum(Spent) \in Nat /\ Sum(Overrun) \in Nat /\ Sum(Credit) \in Nat
    BY <1>a, SpendSumTypes
  <1>e. /\ Sum(Spent)' \in Nat /\ Sum(Overrun)' \in Nat /\ Sum(Credit)' \in Nat
        /\ Sum(Repaid)' \in Nat
        /\ (\A r \in Runs : Spent(r)' = 0) => Sum(Spent)' = 0
    BY <1>a, SpendSumTypesAfter
  <1>1. ASSUME NEW r \in Runs, NEW e \in Estimates, Granted(r, e) PROVE SpendBounded'
    <2>1. counter' <= Limit
      BY <1>1 DEF Granted, WithinLimit
    <2>2. LedgerInv'
      BY <1>a, LedgerStep DEF SpendInv, LedgerInv
    <2>3. counter' = Sum(Spent)' + Sum(Repaid)' - Sum(Credit)'
      BY <2>2, CounterIsSpendingAfter
    <2> QED
      BY <2>1, <2>3, <1>b, <1>e DEF SpendBounded
  <1>2. ASSUME NEW r \in Runs, NEW how \in {"reconciled", "swept"}, NEW tokens \in Nat,
               Settled(r, how, tokens)
        PROVE  SpendBounded'
    <2>1. /\ fate[r] = "held" /\ fate'[r] = how /\ used'[r] = tokens /\ est'[r] = est[r]
          /\ settleWin'[r] = window /\ window' = window /\ grantWin'[r] = grantWin[r]
          /\ how = "swept" => tokens = 0
      BY <1>2, <1>b DEF Settled
    <2>2. \A q \in Runs \ {r} : /\ Spent(q)' = Spent(q) /\ Overrun(q)' = Overrun(q)
                               /\ Credit(q)' = Credit(q)
      BY <1>2, <1>b DEF Settled, Spent, Overrun, Credit, Lowered, Carried, AtLeast0, Here,
         SettledHere
    <2>3. /\ Sum(Spent)' = Sum(Spent) - Spent(r) + Spent(r)'
          /\ Sum(Overrun)' = Sum(Overrun) - Overrun(r) + Overrun(r)'
          /\ Sum(Credit)' = Sum(Credit) - Credit(r) + Credit(r)'
      BY <1>a, <2>2, SpendSums
    <2>4. est[r] \in Int
      BY <1>b
    <2>5. Overrun(r) = 0 /\ Carried(r) = 0
      BY <2>1 DEF Overrun, Carried, SettledHere
    <2>6. CASE Here(r)
      <3>1. Here(r)'
        BY <2>1, <2>6 DEF Here
      <3>2. Spent(r) = AtLeast0(est[r]) /\ Spent(r)' = tokens
        BY <2>1, <2>6, <3>1 DEF Spent
      <3>3. Credit(r)' = Credit(r) /\ Credit(r) \in Nat
        BY <2>1, <2>4, <2>6, <3>1 DEF Credit, Lowered, Carried, AtLeast0
      <3>4. Overrun(r)' \in Nat /\ Overrun(r)' >= tokens - AtLeast0(est[r])
        <4>1. fate'[r] = "reconciled" \/ tokens = 0
          BY <2>1
        <4>2. Overrun(r)' = IF fate'[r] = "reconciled" /\ tokens > est[r]
                            THEN tokens - est[r] ELSE 0
          BY <2>1, <3>1 DEF Overrun
        <4> QED
          BY <4>1, <4>2, <2>4 DEF AtLeast0
      <3>5. AtLeast0(est[r]) \in Nat
        BY <2>4 DEF AtLeast0
      <3>6. Sum(Spent)' = Sum(Spent) - AtLeast0(est[r]) + tokens
        BY <2>3, <3>2
      <3>7. Sum(Credit)' = Sum(Credit)
        <4>1. Sum(Credit)' = Sum(Credit) - Credit(r) + Credit(r)
          BY <2>3, <3>3
        <4>2. Credit(r) \in Nat
          BY <3>3
        <4>3. Sum(Credit) \in Nat
          BY <1>d
        <4>4. \A x, c \in Nat : x - c + c = x
          OBVIOUS
        <4> QED
          BY <4>1, <4>2, <4>3, <4>4
      <3>8. Sum(Overrun)' = Sum(Overrun) + Overrun(r)'
        BY <2>3, <2>5, <3>4, <1>d
      <3>9. Sum(Spent)' <= Limit + Sum(Overrun)' + Sum(Credit)'
        BY <3>4, <3>5, <3>6, <3>7, <3>8, <1>b, <1>c, <1>d
      <3> QED
        BY <3>9 DEF SpendBounded
    <2>7. CASE ~Here(r)
      <3>1. ~Here(r)'
        BY <2>1, <2>7 DEF Here
      <3>2. Spent(r) = 0 /\ Spent(r)' = 0 /\ Overrun(r)' = 0
        BY <2>7, <3>1 DEF Spent, Overrun
      <3>3. Credit(r) = 0 /\ Credit(r)' \in Nat
        BY <2>1, <2>4, <2>5, <2>7, <3>1 DEF Credit, Lowered, Carried, AtLeast0
      <3> QED
        BY <2>3, <2>5, <3>2, <3>3, <1>b, <1>c, <1>d DEF SpendBounded
    <2> QED
      BY <2>6, <2>7
  <1>3. CASE WindowOver
    <2>1. \A r \in Runs : Spent(r)' = 0
      <3> SUFFICES ASSUME NEW r \in Runs PROVE Spent(r)' = 0
        OBVIOUS
      <3>1. grantWin[r] <= window
        BY <1>a DEF WindowInv
      <3>2. ~Here(r)'
        BY <1>3, <1>b, <3>1 DEF WindowOver, Here, history
      <3> QED
        BY <3>2 DEF Spent, AtLeast0
    <2>2. Sum(Spent)' = 0
      BY <2>1, <1>e
    <2>3. Sum(Overrun)' \in Nat /\ Sum(Credit)' \in Nat
      BY <1>e
    <2> QED
      BY <2>2, <2>3, <1>b DEF SpendBounded
  <1>4. CASE NothingBooked
    <2>1. \A q \in Runs : /\ Spent(q)' = Spent(q) /\ Overrun(q)' = Overrun(q)
                         /\ Credit(q)' = Credit(q)
      BY <1>4, <1>b DEF NothingBooked, Spent, Overrun, Credit, Lowered, Carried, AtLeast0, Here,
         SettledHere, history
    <2>2. /\ Sum(Spent)' = Sum(Spent) /\ Sum(Overrun)' = Sum(Overrun)
          /\ Sum(Credit)' = Sum(Credit)
      <3>1. /\ [q \in Runs |-> Spent(q)'] = [q \in Runs |-> Spent(q)]
            /\ [q \in Runs |-> Overrun(q)'] = [q \in Runs |-> Overrun(q)]
            /\ [q \in Runs |-> Credit(q)'] = [q \in Runs |-> Credit(q)]
        BY <2>1
      <3> QED
        BY <3>1 DEF Sum
    <2> QED
      BY <2>2, <1>c DEF SpendBounded
  <1> QED
    BY <1>a, <1>1, <1>2, <1>3, <1>4, LedgerShapes

(***************************************************************************)
(* No window lets through more than the limit, its runs' use beyond their  *)
(* estimates, and what was credited to it: by reservations of earlier      *)
(* windows, and by the negative estimates it accepted.  Estimates are any  *)
(* integers, as max_output_tokens is.                                      *)
(***************************************************************************)
THEOREM WindowSpendIsBounded == Spec => []SpendBounded
  <1>1. Init => SpendBounded
    <2> SUFFICES ASSUME Init PROVE SpendBounded
      OBVIOUS
    <2>1. TypeOK
      BY QuotaConstants DEF Init, TypeOK
    <2>2. \A r \in Runs : Spent(r) = 0
      BY DEF Init, Spent, Here
    <2>3. Sum(Spent) = 0 /\ Sum(Overrun) \in Nat /\ Sum(Credit) \in Nat
      BY <2>1, <2>2, SpendSumTypes
    <2> QED
      BY <2>3, QuotaConstants DEF SpendBounded
  <1>2. Init => LedgerInv
    BY LedgerStart
  <1>3. SpendInv /\ [Next]_vars => SpendInv'
    BY QuotaTypeStep, WindowStep, LedgerStep, SpendStep DEF SpendInv, LedgerInv
  <1>4. Init => SpendInv
    BY <1>1, <1>2 DEF SpendInv
  <1>5. SpendInv => SpendBounded
    BY DEF SpendInv
  <1> QED
    BY <1>3, <1>4, <1>5, PTL DEF Spec
=============================================================================
