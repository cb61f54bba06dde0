---------------------------- MODULE GatewayProofs ----------------------------
(***************************************************************************)
(* Proofs about Gateway for any number of requests and keys, any bodies,   *)
(* any mix of endpoints and any number of requests that die.               *)
(***************************************************************************)
EXTENDS Gateway, TLAPS

(***************************************************************************)
(* Every step keeps the variables in their types.                          *)
(***************************************************************************)
LEMMA GatewayTypeStep == TypeOK /\ [Next]_vars => TypeOK'
  <1> SUFFICES ASSUME TypeOK, [Next]_vars PROVE TypeOK'
    OBVIOUS
  <1> USE RequestsOK DEF TypeOK, PCs, Success, Failure, Refusal, Goto
  <1>1. ASSUME NEW r \in Requests, BeginWon(r) PROVE TypeOK'
    BY <1>1 DEF BeginWon
  <1>2. ASSUME NEW r \in Requests, BeginLost(r) PROVE TypeOK'
    <2>1. /\ ExistingVerdict(r) \in {"internal_error"} \cup Success \cup Refusal
          /\ winner[KeyOf[r]] \in Requests \cup {NoOne}
      BY DEF ExistingVerdict
    <2> QED
      BY <1>2, <2>1 DEF BeginLost
  <1>3. ASSUME NEW r \in Requests, Reserve(r) PROVE TypeOK'
    BY <1>3 DEF Reserve
  <1>4. ASSUME NEW r \in Requests, CallHarness(r) PROVE TypeOK'
    BY <1>4 DEF CallHarness
  <1>5. ASSUME NEW r \in Requests, Reconcile(r) PROVE TypeOK'
    BY <1>5 DEF Reconcile
  <1>6. ASSUME NEW r \in Requests, InsertJob(r) PROVE TypeOK'
    BY <1>6 DEF InsertJob
  <1>7. ASSUME NEW r \in Requests, PublishJob(r) PROVE TypeOK'
    BY <1>7 DEF PublishJob
  <1>8. ASSUME NEW r \in Requests, Complete(r) PROVE TypeOK'
    BY <1>8 DEF Complete
  <1>9. ASSUME NEW r \in Requests, Reply(r) PROVE TypeOK'
    BY <1>9 DEF Reply
  <1>10. ASSUME NEW r \in Requests, RequestDies(r) PROVE TypeOK'
    BY <1>10 DEF RequestDies
  <1>11. CASE UNCHANGED vars
    BY <1>11 DEF vars
  <1> QED
    BY <1>1, <1>2, <1>3, <1>4, <1>5, <1>6, <1>7, <1>8, <1>9, <1>10, <1>11 DEF Next, Handle

(***************************************************************************)
(* A key is won once: try_begin takes only a key without a row, and no     *)
(* step deletes a row or changes whose it is.                              *)
(***************************************************************************)
LEMMA OwnsKeyStep == TypeOK /\ OwnsKey /\ [Next]_vars => OwnsKey'
  <1> SUFFICES ASSUME TypeOK, OwnsKey, [Next]_vars PROVE OwnsKey'
    OBVIOUS
  <1> USE RequestsOK DEF OwnsKey, Active, Worked
  <1>a. /\ row \in [Keys -> {"absent", "in_progress"} \cup Success \cup Failure]
        /\ winner \in [Keys -> Requests \cup {NoOne}]
        /\ pc \in [Requests -> PCs]
        /\ \A r \in Requests : KeyOf[r] \in Keys
        /\ called \subseteq Requests /\ inserted \subseteq Requests
    BY DEF TypeOK
  <1>1. ASSUME NEW r \in Requests, BeginWon(r) PROVE OwnsKey'
    BY <1>1, <1>a DEF BeginWon, KeyFree, Goto
  \* Everything else leaves the owner of every key alone, and works for the owner.
  <1>2. ASSUME NEW r \in Requests, winner' = winner,
               \A k \in Keys : row[k] # "absent" => row'[k] # "absent",
               called' \cup inserted' \subseteq called \cup inserted \cup {r},
               \A q \in Requests : q # r => pc'[q] = pc[q],
               Active(r) \/ (~Active(r)' /\ UNCHANGED <<called, inserted>>)
        PROVE  OwnsKey'
    BY <1>2, <1>a
  <1>3. ASSUME NEW r \in Requests, BeginLost(r) PROVE OwnsKey'
    BY <1>3, <1>2, <1>a DEF BeginLost, Goto
  <1>4. ASSUME NEW r \in Requests, Complete(r) PROVE OwnsKey'
    <2>1. verdict[r] # "absent"
      BY <1>4 DEF Complete, TypeOK, Success, Failure
    <2> QED
      BY <1>4, <2>1, <1>2, <1>a DEF Complete, Goto
  <1>5. ASSUME NEW r \in Requests,
               \/ Reserve(r) \/ CallHarness(r) \/ Reconcile(r) \/ InsertJob(r)
               \/ PublishJob(r) \/ Reply(r) \/ RequestDies(r)
        PROVE  OwnsKey'
    BY <1>5, <1>2, <1>a
    DEF Reserve, CallHarness, Reconcile, InsertJob, PublishJob, Reply, RequestDies, Goto
  <1>6. CASE UNCHANGED vars
    BY <1>6 DEF vars
  <1> QED
    BY <1>1, <1>3, <1>4, <1>5, <1>6 DEF Next, Handle

(***************************************************************************)
(* Of all requests with one Idempotency-Key at most one starts an agent    *)
(* run or a job.                                                           *)
(***************************************************************************)
THEOREM KeyedWorkIsUnique == Spec => []OneWorkPerKey
  <1> USE RequestsOK DEF OwnsKey, Worked
  <1>1. Init => TypeOK /\ OwnsKey
    BY DEF Init, TypeOK, Active, PCs, Success, Failure, Refusal
  <1>2. TypeOK /\ OwnsKey /\ [Next]_vars => (TypeOK /\ OwnsKey)'
    BY GatewayTypeStep, OwnsKeyStep
  <1>3. TypeOK /\ OwnsKey => OneWorkPerKey
    BY DEF OneWorkPerKey
  <1> QED
    BY <1>1, <1>2, <1>3, PTL DEF Spec

(***************************************************************************)
(* What a handler is about to store or answer is backed by the work of the *)
(* request that owns the key.                                              *)
(***************************************************************************)
LEMMA VerdictStep ==
  TypeOK /\ OwnsKey /\ VerdictsBacked /\ [Next]_vars => VerdictsBacked'
  <1> SUFFICES ASSUME TypeOK, OwnsKey, VerdictsBacked, [Next]_vars PROVE VerdictsBacked'
    OBVIOUS
  <1> USE RequestsOK DEF OwnsKey, VerdictsBacked, Backed, Active
  <1>a. /\ row \in [Keys -> {"absent", "in_progress"} \cup Success \cup Failure]
        /\ winner \in [Keys -> Requests \cup {NoOne}]
        /\ pc \in [Requests -> PCs]
        /\ verdict \in [Requests -> {"none", "internal_error"} \cup Success \cup Failure \cup Refusal]
        /\ \A r \in Requests : KeyOf[r] \in Keys
    BY DEF TypeOK
  <1>1. ASSUME NEW r \in Requests, BeginWon(r) PROVE VerdictsBacked'
    BY <1>1, <1>a DEF BeginWon, Goto
  <1>2. ASSUME NEW r \in Requests, BeginLost(r) PROVE VerdictsBacked'
    BY <1>2, <1>a DEF BeginLost, Goto
  <1>3. ASSUME NEW r \in Requests, Reserve(r) \/ CallHarness(r) PROVE VerdictsBacked'
    BY <1>3, <1>a DEF Reserve, CallHarness, Goto
  <1>4. ASSUME NEW r \in Requests, Reconcile(r) \/ Reply(r) PROVE VerdictsBacked'
    BY <1>4, <1>a DEF Reconcile, Reply, Goto
  <1>5. ASSUME NEW r \in Requests, InsertJob(r) \/ PublishJob(r) PROVE VerdictsBacked'
    BY <1>5, <1>a DEF InsertJob, PublishJob, Goto
  <1>6. ASSUME NEW r \in Requests, Complete(r) PROVE VerdictsBacked'
    BY <1>6, <1>a DEF Complete, Goto
  <1>7. ASSUME NEW r \in Requests, RequestDies(r) PROVE VerdictsBacked'
    BY <1>7, <1>a DEF RequestDies, Goto
  <1>8. CASE UNCHANGED vars
    BY <1>8 DEF vars
  <1> QED
    BY <1>1, <1>2, <1>3, <1>4, <1>5, <1>6, <1>7, <1>8 DEF Next, Handle

(***************************************************************************)
(* A success that was answered belongs to the owner of the key.            *)
(***************************************************************************)
LEMMA AnswerStep == GatewayInv /\ [Next]_vars => AnswersOwned'
  <1> SUFFICES ASSUME GatewayInv, [Next]_vars PROVE AnswersOwned'
    OBVIOUS
  <1> USE RequestsOK DEF GatewayInv, AnswersOwned, Backed
  <1>a. /\ row \in [Keys -> {"absent", "in_progress"} \cup Success \cup Failure]
        /\ winner \in [Keys -> Requests \cup {NoOne}]
        /\ answer \in [Requests -> {"none", "internal_error"} \cup Success \cup Failure \cup Refusal]
        /\ answerOf \in [Requests -> Requests \cup {NoOne}]
        /\ \A r \in Requests : KeyOf[r] \in Keys
    BY DEF TypeOK
  \* Steps that answer nobody and keep the owners of the keys that have a row.
  <1>b. ASSUME UNCHANGED <<answer, answerOf>>,
               \A k \in Keys : row[k] # "absent" => row'[k] # "absent" /\ winner'[k] = winner[k],
               called \subseteq called', published \subseteq published'
        PROVE  AnswersOwned'
    BY <1>b, <1>a
  <1>1. ASSUME NEW r \in Requests, BeginWon(r) PROVE AnswersOwned'
    BY <1>1, <1>a, <1>b DEF BeginWon, KeyFree
  <1>2. ASSUME NEW r \in Requests, BeginLost(r) PROVE AnswersOwned'
    <2> DEFINE k == KeyOf[r]
    <2>1. ExistingVerdict(r) \in Success =>
            /\ row[k] = ExistingVerdict(r) /\ row[k] # "absent"
            /\ BodyOf[winner[k]] = BodyOf[r] /\ Backed(row[k], winner[k])
      BY <1>a DEF ExistingVerdict, VerdictsBacked, Success
    <2>2. /\ UNCHANGED <<row, winner, called, published>>
          /\ answer' = [answer EXCEPT ![r] = ExistingVerdict(r)]
          /\ answerOf' = [answerOf EXCEPT ![r] =
                            IF ExistingVerdict(r) \in Success THEN winner[k] ELSE NoOne]
      BY <1>2 DEF BeginLost
    <2> QED
      BY <2>1, <2>2, <1>a
  <1>3. ASSUME NEW r \in Requests, Reply(r) PROVE AnswersOwned'
    <2>1. row[KeyOf[r]] # "absent" /\ winner[KeyOf[r]] = r /\ Backed(verdict[r], r)
      BY <1>3 DEF Reply, OwnsKey, VerdictsBacked, Active
    <2> QED
      BY <1>3, <2>1, <1>a DEF Reply
  <1>4. ASSUME NEW r \in Requests, Complete(r) PROVE AnswersOwned'
    <2>1. verdict[r] # "absent"
      BY <1>4 DEF Complete, TypeOK, Success, Failure
    <2> QED
      BY <1>4, <2>1, <1>a, <1>b DEF Complete
  <1>5. ASSUME NEW r \in Requests,
               \/ Reserve(r) \/ CallHarness(r) \/ Reconcile(r) \/ InsertJob(r)
               \/ PublishJob(r) \/ RequestDies(r)
        PROVE  AnswersOwned'
    BY <1>5, <1>b DEF Reserve, CallHarness, Reconcile, InsertJob, PublishJob, RequestDies
  <1>6. CASE UNCHANGED vars
    BY <1>6, <1>b DEF vars
  <1> QED
    BY <1>1, <1>2, <1>3, <1>4, <1>5, <1>6 DEF Next, Handle

(***************************************************************************)
(* Every success answered under one key is about the same run or job, that *)
(* was started for the body the client sent.                               *)
(***************************************************************************)
THEOREM RepliesAlwaysAgree == Spec => []RepliesAgree
  <1> USE RequestsOK
  <1>1. Init => GatewayInv
    BY DEF Init, GatewayInv, TypeOK, OwnsKey, VerdictsBacked, AnswersOwned, Backed, Worked,
           Active, PCs, Success, Failure, Refusal
  <1>2. GatewayInv /\ [Next]_vars => GatewayInv'
    BY GatewayTypeStep, OwnsKeyStep, VerdictStep, AnswerStep DEF GatewayInv
  <1>3. GatewayInv => RepliesAgree
    BY DEF GatewayInv, AnswersOwned, RepliesAgree, Backed
  <1> QED
    BY <1>1, <1>2, <1>3, PTL DEF Spec
(***************************************************************************)
(* Every reachable state of the endpoints is typed.                        *)
(***************************************************************************)
THEOREM GatewayTyped == Spec => []TypeOK
  <1>1. Init => TypeOK
    BY RequestsOK DEF Init, TypeOK, PCs, Success, Failure, Refusal
  <1> QED
    BY <1>1, GatewayTypeStep, PTL DEF Spec
=============================================================================
