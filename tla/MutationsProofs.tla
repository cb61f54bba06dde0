--------------------------- MODULE MutationsProofs ---------------------------
(***************************************************************************)
(* Proofs about Mutations for any set of mutations and deciders, any mix   *)
(* of decisions, and any number of restarts of the business API.           *)
(***************************************************************************)
EXTENDS Mutations, TLAPS

(***************************************************************************)
(* A preview token is issued once, by the run's preview, and spent by the  *)
(* effect it allows.                                                       *)
(***************************************************************************)
LEMMA TokenStep == TokenInv /\ [Next]_vars => TokenInv'
  <1> SUFFICES ASSUME TokenInv, [Next]_vars PROVE TokenInv'
    OBVIOUS
  <1> USE MutationConstants DEF TokenInv, harnessVars, apiVars
  <1>1. ASSUME NEW m \in Mutations, Run(m) PROVE TokenInv'
    BY <1>1 DEF Run, Preview, PreviewRefused, RunSendsExecute, RunGetsResult, PersistRun, RunLost
  <1>2. ASSUME NEW m \in Mutations, TokenExpires(m) PROVE TokenInv'
    BY <1>2 DEF TokenExpires
  <1>3. ASSUME NEW d \in Deciders, Decide(d) \/ DecisionLost(d) PROVE TokenInv'
    <2>1. UNCHANGED <<run, token, executions>>
      BY <1>3 DEF Decide, ReadRequest, ClaimWon, ClaimLost, SendExecute, RecordExecuted,
                  ExecuteFailed, ExecuteAbandoned, DecisionLost
    <2> QED
      BY <2>1
  <1>4. ASSUME NEW c \in Callers, Execute(c) PROVE TokenInv'
    <2>1. CASE ExecuteConsumes(c)
      <3>1. MutationOf(c) \in Mutations
        BY DEF MutationOf, Callers
      <3> QED
        BY <2>1, <3>1 DEF ExecuteConsumes
    <2>2. CASE ExecuteReplayed(c) \/ ExecuteBadToken(c) \/ ExecuteRefused(c)
      BY <2>2 DEF ExecuteReplayed, ExecuteBadToken, ExecuteRefused
    <2> QED
      BY <1>4, <2>1, <2>2 DEF Execute
  <1>5. CASE reset
    BY <1>5 DEF reset
  <1>6. CASE Restart
    BY <1>6 DEF Restart
  <1>7. CASE UNCHANGED vars
    BY <1>7 DEF vars
  <1> QED
    BY <1>1, <1>2, <1>3, <1>4, <1>5, <1>6, <1>7 DEF Next

(***************************************************************************)
(* A mutation takes effect at most once, through every retry, race,        *)
(* timeout, reset and restart.                                             *)
(***************************************************************************)
THEOREM MutationsHappenOnce == Spec => []ExecutedAtMostOnce
  <1>1. Init => TokenInv
    BY DEF Init, TokenInv
  <1>2. TokenInv => ExecutedAtMostOnce
    <2> SUFFICES ASSUME TokenInv, NEW m \in Mutations PROVE executions[m] <= 1
      BY DEF ExecutedAtMostOnce
    <2> QED
      BY DEF TokenInv
  <1> QED
    BY <1>1, <1>2, TokenStep, PTL DEF Spec

(***************************************************************************)
(* Every step keeps the variables in their types.                          *)
(***************************************************************************)
LEMMA MutationTypeStep == TypeOK /\ [Next]_vars => TypeOK'
  <1> SUFFICES ASSUME TypeOK, [Next]_vars PROVE TypeOK'
    OBVIOUS
  <1> USE MutationConstants DEF TypeOK, harnessVars, apiVars, RowStatuses
  <1>1. ASSUME NEW m \in Mutations, Run(m) PROVE TypeOK'
    <2>1. CASE Preview(m)
      BY <2>1 DEF Preview, Executed
    <2>2. CASE PreviewRefused(m) \/ RunLost(m)
      BY <2>2 DEF PreviewRefused, RunLost
    <2>3. CASE RunSendsExecute(m)
      BY <2>3 DEF RunSendsExecute
    <2>4. CASE RunGetsResult(m)
      BY <2>4 DEF RunGetsResult
    <2>5. CASE PersistRun(m)
      BY <2>5 DEF PersistRun
    <2> QED
      BY <1>1, <2>1, <2>2, <2>3, <2>4, <2>5 DEF Run
  <1>2. ASSUME NEW m \in Mutations, TokenExpires(m) PROVE TypeOK'
    BY <1>2 DEF TokenExpires
  <1>3. ASSUME NEW d \in Deciders, Decide(d) \/ DecisionLost(d) PROVE TypeOK'
    <2>1. CASE ReadRequest(d)
      BY <2>1 DEF ReadRequest, Answer
    <2>2. CASE ClaimWon(d)
      BY <2>2 DEF ClaimWon, Answer
    <2>3. CASE ClaimLost(d)
      BY <2>3 DEF ClaimLost, Answer
    <2>4. CASE SendExecute(d)
      BY <2>4 DEF SendExecute
    <2>5. CASE RecordExecuted(d)
      BY <2>5 DEF RecordExecuted, ResultStatus, Answer
    <2>6. CASE ExecuteFailed(d) \/ ExecuteAbandoned(d) \/ DecisionLost(d)
      BY <2>6 DEF ExecuteFailed, ExecuteAbandoned, DecisionLost, Answer
    <2> QED
      BY <1>3, <2>1, <2>2, <2>3, <2>4, <2>5, <2>6 DEF Decide
  <1>4. ASSUME NEW c \in Callers, Execute(c) PROVE TypeOK'
    <2>1. MutationOf(c) \in Mutations
      BY DEF MutationOf, Callers
    <2>2. CASE ExecuteConsumes(c)
      BY <2>1, <2>2 DEF ExecuteConsumes
    <2>3. CASE ExecuteReplayed(c) \/ ExecuteBadToken(c) \/ ExecuteRefused(c)
      BY <2>3 DEF ExecuteReplayed, ExecuteBadToken, ExecuteRefused
    <2> QED
      BY <1>4, <2>2, <2>3 DEF Execute
  <1>5. CASE reset \/ Restart
    BY <1>5 DEF reset, Restart
  <1>6. CASE UNCHANGED vars
    BY <1>6 DEF vars
  <1> QED
    BY <1>1, <1>2, <1>3, <1>4, <1>5, <1>6 DEF Next

(***************************************************************************)
(* A row is written by the end of its run, before anybody can decide on    *)
(* it, and then only by the transaction whose claim found it undecided.    *)
(***************************************************************************)
LEMMA DecisionStep == DecisionInv /\ [Next]_vars => DecisionInv' /\ FinalStep
  <1> SUFFICES ASSUME DecisionInv, [Next]_vars PROVE DecisionInv' /\ FinalStep
    OBVIOUS
  <1>0. TypeOK'
    BY MutationTypeStep DEF DecisionInv
  <1> USE MutationConstants DEF DecisionInv, ClaimsHold, RowAfterRun, FinalStep, HoldsRow,
          harnessVars, apiVars
  <1>a. /\ row \in [Mutations -> RowStatuses] /\ run \in [Mutations ->
             {"preview", "execute", "wait", "persist", "ended", "lost"}]
        /\ pc \in [Deciders -> {"read", "claim", "execute", "wait", "answered"}]
        /\ \A d \in Deciders : Target[d] \in Mutations
    BY DEF TypeOK
  \* Steps that leave the rows alone, end no run, and give no decider the row.
  <1>b. ASSUME UNCHANGED row,
               \A d \in Deciders : HoldsRow(d)' => HoldsRow(d),
               \A m \in Mutations : run[m] = "ended" => run'[m] = "ended"
        PROVE  DecisionInv' /\ FinalStep
    BY <1>0, <1>a, <1>b
  <1>1. ASSUME NEW m \in Mutations, Run(m) PROVE DecisionInv' /\ FinalStep
    <2>1. CASE PersistRun(m)
      BY <1>0, <1>a, <2>1 DEF PersistRun
    <2>2. CASE Preview(m) \/ PreviewRefused(m) \/ RunSendsExecute(m) \/ RunGetsResult(m) \/ RunLost(m)
      BY <1>a, <1>b, <2>2
      DEF Preview, PreviewRefused, RunSendsExecute, RunGetsResult, RunLost
    <2> QED
      BY <1>1, <2>1, <2>2 DEF Run
  <1>2. ASSUME NEW d \in Deciders, Decide(d) \/ DecisionLost(d)
        PROVE  DecisionInv' /\ FinalStep
    <2>1. CASE ClaimWon(d)
      BY <1>0, <1>a, <2>1 DEF ClaimWon, RowFree, Undecided, Answer
    <2>2. CASE RecordExecuted(d)
      BY <1>0, <1>a, <2>2 DEF RecordExecuted, ResultStatus, Answer
    <2>3. CASE ReadRequest(d) \/ ClaimLost(d) \/ ExecuteFailed(d) \/ ExecuteAbandoned(d)
                 \/ DecisionLost(d)
      BY <1>a, <1>b, <2>3
      DEF ReadRequest, ClaimLost, ExecuteFailed, ExecuteAbandoned, DecisionLost, Answer
    <2>4. CASE SendExecute(d)
      BY <1>a, <1>b, <2>4 DEF SendExecute
    <2> QED
      BY <1>2, <2>1, <2>2, <2>3, <2>4 DEF Decide
  <1>3. ASSUME NEW m \in Mutations, TokenExpires(m) PROVE DecisionInv' /\ FinalStep
    BY <1>3, <1>b DEF TokenExpires
  <1>4. ASSUME NEW c \in Callers, Execute(c) PROVE DecisionInv' /\ FinalStep
    BY <1>4, <1>b
    DEF Execute, ExecuteReplayed, ExecuteConsumes, ExecuteBadToken, ExecuteRefused
  <1>5. CASE reset \/ Restart
    BY <1>5, <1>b DEF reset, Restart
  <1>6. CASE UNCHANGED vars
    BY <1>6, <1>b DEF vars
  <1> QED
    BY <1>1, <1>2, <1>3, <1>4, <1>5, <1>6 DEF Next

(***************************************************************************)
(* No step changes the status of a row that has been decided.              *)
(***************************************************************************)
THEOREM DecisionsAreFinal == Spec => DecidedIsFinal
  <1>1. Init => DecisionInv
    BY MutationConstants
    DEF Init, DecisionInv, TypeOK, ClaimsHold, RowAfterRun, HoldsRow, RowStatuses
  <1>2. DecisionInv /\ [Next]_vars => DecisionInv' /\ [FinalStep]_row
    BY DecisionStep
  <1> QED
    BY <1>1, <1>2, PTL DEF Spec, DecidedIsFinal, FinalStep

(***************************************************************************)
(* Every reachable state is typed.                                         *)
(***************************************************************************)
THEOREM MutationsTyped == Spec => []TypeOK
  <1>1. Init => TypeOK
    BY MutationConstants DEF Init, TypeOK, RowStatuses
  <1> QED
    BY <1>1, MutationTypeStep, PTL DEF Spec

(***************************************************************************)
(* A step that leaves the balance, the effects and what previews saw alone *)
(* keeps what BalanceInv says of them, if it lets no further mutation      *)
(* pass.                                                                   *)
(***************************************************************************)
LEMMA BalanceQuiet ==
    ASSUME BalanceInv, UNCHANGED <<balance, executions, basis>>,
           \A m \in Mutations : Passed(m)' => Passed(m),
           DecisionInv', TokenInv', RunsFirst', OnlyAwaiting'
    PROVE  BalanceInv'
  <1>1. UNCHANGED Executed /\ UNCHANGED OverdraftNeedsRace /\ UNCHANGED BasisPast
    BY DEF Executed, OverdraftNeedsRace, Raced, BasisPast
  <1>2. \A m \in Mutations : Covered(m)' <=> Covered(m)
    BY <1>1 DEF Covered
  <1>3. PassedCovered'
    BY <1>2 DEF BalanceInv, PassedCovered
  <1> QED
    BY <1>1, <1>3 DEF BalanceInv

\* The mutation of a caller whose execute request is under way has passed its preview.
LEMMA SentHasPassed ==
    ASSUME BalanceInv, NEW c \in Callers, call[c] # "none"
    PROVE  MutationOf(c) \in Mutations /\ Passed(MutationOf(c))
  <1>1. CASE c \in Mutations
    BY <1>1 DEF MutationOf, Passed
  <1>2. CASE c \notin Mutations
    BY <1>2, MutationConstants DEF Callers, MutationOf, Passed, BalanceInv, OnlyAwaiting
  <1> QED
    BY <1>1, <1>2

\* A mutation that takes effect: those still waiting have not seen it, and if it overdraws
\* the balance it has itself not seen another.
LEMMA BalanceEffect ==
    ASSUME BalanceInv, NEW c \in Callers, ExecuteConsumes(c), DecisionInv', TokenInv'
    PROVE  BalanceInv'
  <1> DEFINE x == MutationOf(c)
  <1> USE DEF BalanceInv
  <1>1. /\ x \in Mutations /\ Passed(x)
        /\ executions[x] = 0
    BY SentHasPassed DEF ExecuteConsumes, TokenInv
  <1>2. /\ balance' = balance - Days[x]
        /\ executions' = [executions EXCEPT ![x] = @ + 1]
        /\ UNCHANGED <<run, record, row, pc, basis>>
        /\ call' = [call EXCEPT ![c] = "ok"] /\ call[c] = "sent"
    BY DEF ExecuteConsumes, harnessVars
  <1>3. /\ balance \in Int /\ Days[x] \in Nat /\ Seed \in Nat
        /\ executions \in [Mutations -> Nat] /\ basis \in [Mutations -> SUBSET Mutations]
        /\ call \in [Callers -> {"none", "sent", "ok", "refused", "used"}]
    BY <1>1, MutationConstants DEF DecisionInv, TypeOK
  <1> HIDE DEF x
  <1>4. /\ \A m \in Mutations : executions[m] > 0 => executions'[m] > 0
        /\ \A m \in Mutations : executions'[m] = 0 => executions[m] = 0
        /\ executions'[x] > 0
    BY <1>1, <1>2, <1>3
  <1>5. Executed' = Executed \cup {x}
    BY <1>1, <1>2, <1>3 DEF Executed
  <1>6. balance' <= Seed
    BY <1>2, <1>3
  <1>7. BasisPast'
    BY <1>2, <1>4 DEF BasisPast
  <1>8. \A m \in Mutations : x \notin basis[m]
    BY <1>1 DEF BasisPast
  <1>9. \A m \in Mutations : Covered(m)'
    BY <1>2, <1>5, <1>8 DEF Covered
  <1>10. PassedCovered'
    BY <1>9 DEF PassedCovered
  <1>11. /\ \A m \in Mutations : call'[m] = "none" <=> call[m] = "none"
         /\ \A d \in Deciders : call'[d] = "none" <=> call[d] = "none"
    BY <1>2, <1>3 DEF Callers
  <1>12. RunsFirst' /\ OnlyAwaiting'
    BY <1>2, <1>11 DEF RunsFirst, OnlyAwaiting, HoldsRow
  <1>13. OverdraftNeedsRace'
    <2> SUFFICES ASSUME balance' < 0
                 PROVE  \E m, n \in Executed' : m # n /\ Raced(m, n)'
      BY DEF OverdraftNeedsRace
    <2>1. ~(Days[x] <= balance)
      BY <1>2, <1>3
    <2>2. PICK k \in Executed : k \notin basis[x]
      BY <1>1, <2>1 DEF PassedCovered, Covered
    <2>3. k \in Mutations /\ k # x
      BY <1>1, <2>2 DEF Executed
    <2>4. Raced(k, x)'
      BY <1>2, <1>8, <2>2, <2>3 DEF Raced
    <2> QED
      BY <1>5, <2>2, <2>3, <2>4
  <1> QED
    BY <1>6, <1>7, <1>10, <1>12, <1>13

\* A preview that passes does so against the balance that all effects so far have left.
LEMMA BalancePreview ==
    ASSUME BalanceInv, NEW x \in Mutations, Preview(x), DecisionInv', TokenInv'
    PROVE  BalanceInv'
  <1> USE DEF BalanceInv
  <1>1. /\ UNCHANGED <<balance, executions, call, row, pc>>
        /\ basis' = [basis EXCEPT ![x] = Executed]
        /\ run[x] = "preview" /\ call[x] = "none" /\ record[x] = "none"
    BY DEF Preview, RunsFirst
  <1>2. /\ run' = [run EXCEPT ![x] = run'[x]] /\ record' = [record EXCEPT ![x] = record'[x]]
        /\ \/ run'[x] = "persist" /\ record'[x] = "none"
           \/ Days[x] <= balance /\ run'[x] = "persist" /\ record'[x] = "awaiting_approval"
           \/ Days[x] <= balance /\ run'[x] = "execute" /\ record'[x] = "none"
    BY <1>1 DEF Preview, DecisionInv, TypeOK
  <1>3. /\ run \in [Mutations -> {"preview", "execute", "wait", "persist", "ended", "lost"}]
        /\ record \in [Mutations -> {"none", "awaiting_approval", "executed", "failed"}]
        /\ basis \in [Mutations -> SUBSET Mutations]
        /\ Target \in [Deciders -> Mutations]
    BY MutationConstants DEF DecisionInv, TypeOK
  <1>4. UNCHANGED Executed
    BY <1>1 DEF Executed
  <1>5. BasisPast'
    BY <1>1, <1>3 DEF BasisPast, Executed
  <1>6. PassedCovered'
    <2> SUFFICES ASSUME NEW m \in Mutations, Passed(m)', executions[m] = 0 PROVE Covered(m)'
      BY <1>1 DEF PassedCovered
    <2>1. CASE m = x
      BY <1>1, <1>2, <2>1 DEF Covered, Passed
    <2>2. CASE m # x
      <3>1. Passed(m) /\ basis'[m] = basis[m]
        BY <1>1, <1>2, <1>3, <2>2 DEF Passed
      <3> QED
        BY <1>1, <1>4, <3>1 DEF PassedCovered, Covered
    <2> QED
      BY <2>1, <2>2
  <1>7. RunsFirst'
    BY <1>1, <1>2, <1>3 DEF RunsFirst, DecisionInv, RowAfterRun
  <1>8. OnlyAwaiting'
    BY <1>1, <1>2, <1>3 DEF OnlyAwaiting, HoldsRow
  <1>9. \A m \in Mutations : m \in Executed => m # x
    BY <1>1 DEF Executed, TokenInv
  <1>10. OverdraftNeedsRace'
    <2> SUFFICES ASSUME balance < 0
                 PROVE  \E m, n \in Executed : m # n /\ Raced(m, n)'
      BY <1>1, <1>4 DEF OverdraftNeedsRace
    <2>1. PICK m \in Executed, n \in Executed : m # n /\ Raced(m, n)
      BY DEF OverdraftNeedsRace
    <2>2. m \in Mutations /\ n \in Mutations /\ m # x /\ n # x
      BY <1>9 DEF Executed
    <2>3. Raced(m, n)'
      BY <1>1, <1>3, <2>1, <2>2 DEF Raced
    <2> QED
      BY <2>1, <2>3
  <1> QED
    BY <1>1, <1>5, <1>6, <1>7, <1>8, <1>10

(***************************************************************************)
(* Every step keeps BalanceInv.                                            *)
(***************************************************************************)
LEMMA BalanceStep == BalanceInv /\ [Next]_vars => BalanceInv'
  <1> SUFFICES ASSUME BalanceInv, [Next]_vars PROVE BalanceInv'
    OBVIOUS
  <1>0. DecisionInv' /\ TokenInv'
    BY DecisionStep, TokenStep DEF BalanceInv
  <1>a. /\ run \in [Mutations -> {"preview", "execute", "wait", "persist", "ended", "lost"}]
        /\ record \in [Mutations -> {"none", "awaiting_approval", "executed", "failed"}]
        /\ row \in [Mutations -> RowStatuses]
        /\ pc \in [Deciders -> {"read", "claim", "execute", "wait", "answered"}]
        /\ call \in [Callers -> {"none", "sent", "ok", "refused", "used"}]
        /\ Target \in [Deciders -> Mutations] /\ Mutations \cap Deciders = {}
    BY MutationConstants DEF BalanceInv, DecisionInv, TypeOK
  <1>b. RunsFirst /\ OnlyAwaiting /\ RowAfterRun
    BY DEF BalanceInv, DecisionInv
  <1>1. ASSUME NEW x \in Mutations, Run(x) PROVE BalanceInv'
    <2> USE DEF harnessVars, apiVars
    <2>1. CASE Preview(x)
      BY <1>0, <2>1, BalancePreview
    <2>2. CASE PreviewRefused(x) \/ RunLost(x)
      <3>1. UNCHANGED <<balance, executions, basis, record, row, pc, call>>
        BY <2>2 DEF PreviewRefused, RunLost
      <3>2. \A m \in Mutations : run'[m] # run[m] => run'[m] \in {"persist", "lost"}
        BY <1>a, <2>2 DEF PreviewRefused, RunLost
      <3>3. RunsFirst' /\ OnlyAwaiting'
        BY <1>b, <3>1, <3>2 DEF RunsFirst, OnlyAwaiting, HoldsRow
      <3>4. \A m \in Mutations : Passed(m)' => Passed(m)
        BY <3>1, <3>2 DEF Passed
      <3> QED
        BY <1>0, <3>1, <3>3, <3>4, BalanceQuiet
    <2>3. CASE RunSendsExecute(x)
      <3>1. /\ UNCHANGED <<balance, executions, basis, record, row, pc>>
            /\ run[x] = "execute"
            /\ \A m \in Mutations : m # x => run'[m] = run[m] /\ call'[m] = call[m]
            /\ run'[x] = "wait"
            /\ \A d \in Deciders : call'[d] = call[d]
        BY <1>a, <2>3 DEF RunSendsExecute, Callers
      <3>2. RunsFirst' /\ OnlyAwaiting'
        BY <1>b, <3>1 DEF RunsFirst, OnlyAwaiting, HoldsRow
      <3>3. \A m \in Mutations : Passed(m)' => Passed(m)
        BY <3>1 DEF Passed
      <3> QED
        BY <1>0, <3>1, <3>2, <3>3, BalanceQuiet
    <2>4. CASE RunGetsResult(x)
      <3>1. /\ UNCHANGED <<balance, executions, basis, row, pc, call>>
            /\ run[x] = "wait" /\ record[x] = "none"
            /\ \A m \in Mutations : m # x => run'[m] = run[m] /\ record'[m] = record[m]
            /\ run'[x] = "persist" /\ record'[x] \in {"executed", "failed"}
        BY <1>a, <1>b, <2>4 DEF RunGetsResult, RunsFirst
      <3>2. RunsFirst'
        BY <1>b, <3>1 DEF RunsFirst
      <3>3. OnlyAwaiting'
        BY <1>a, <1>b, <3>1 DEF OnlyAwaiting, HoldsRow
      <3>4. \A m \in Mutations : Passed(m)' => Passed(m)
        BY <3>1 DEF Passed
      <3> QED
        BY <1>0, <3>1, <3>2, <3>3, <3>4, BalanceQuiet
    <2>5. CASE PersistRun(x)
      <3>1. /\ UNCHANGED <<balance, executions, basis, record, pc, call>>
            /\ \A m \in Mutations : m # x => run'[m] = run[m] /\ row'[m] = row[m]
            /\ run'[x] = "ended" /\ row'[x] = record[x]
        BY <1>a, <2>5 DEF PersistRun
      <3>2. RunsFirst' /\ OnlyAwaiting'
        BY <1>b, <3>1 DEF RunsFirst, OnlyAwaiting, HoldsRow
      <3>3. \A m \in Mutations : Passed(m)' => Passed(m)
        BY <3>1 DEF Passed
      <3> QED
        BY <1>0, <3>1, <3>2, <3>3, BalanceQuiet
    <2> QED
      BY <1>1, <2>1, <2>2, <2>3, <2>4, <2>5 DEF Run
  <1>2. ASSUME NEW d \in Deciders, Decide(d) \/ DecisionLost(d) PROVE BalanceInv'
    <2> USE DEF harnessVars, apiVars
    <2>1. /\ UNCHANGED <<balance, executions, basis, record, run>>
          /\ \A m \in Mutations : call'[m] = call[m]
      BY <1>2, <1>a
      DEF Decide, ReadRequest, ClaimWon, ClaimLost, SendExecute, RecordExecuted, ExecuteFailed,
          ExecuteAbandoned, DecisionLost, Callers
    <2>2. \A m \in Mutations : Passed(m)' => Passed(m)
      BY <2>1 DEF Passed
    <2>3. \A m \in Mutations : row'[m] = "awaiting_approval" => row[m] = "awaiting_approval"
      BY <1>2, <1>a
      DEF Decide, ReadRequest, ClaimWon, ClaimLost, SendExecute, RecordExecuted, ExecuteFailed,
          ExecuteAbandoned, DecisionLost, ResultStatus
    <2>4. RunsFirst'
      BY <1>b, <2>1, <2>3 DEF RunsFirst
    <2>5. /\ \A e \in Deciders : e # d => pc'[e] = pc[e] /\ call'[e] = call[e]
          /\ HoldsRow(d)' \/ call'[d] # "none" =>
               HoldsRow(d) \/ call[d] # "none" \/ row[Target[d]] = "awaiting_approval"
      BY <1>2, <1>a
      DEF Decide, ReadRequest, ClaimWon, ClaimLost, SendExecute, RecordExecuted, ExecuteFailed,
          ExecuteAbandoned, DecisionLost, Answer, HoldsRow, Undecided, Callers
    <2>6. OnlyAwaiting'
      BY <1>a, <1>b, <2>1, <2>5 DEF OnlyAwaiting, RunsFirst, HoldsRow
    <2> QED
      BY <1>0, <2>1, <2>2, <2>4, <2>6, BalanceQuiet
  <1>3. ASSUME NEW m \in Mutations, TokenExpires(m) PROVE BalanceInv'
    <2>1. UNCHANGED <<balance, executions, basis, record, run, row, pc, call>>
      BY <1>3 DEF TokenExpires, harnessVars
    <2> QED
      BY <1>0, <1>b, <2>1, BalanceQuiet DEF RunsFirst, OnlyAwaiting, HoldsRow, Passed
  <1>4. ASSUME NEW c \in Callers, Execute(c) PROVE BalanceInv'
    <2>1. CASE ExecuteConsumes(c)
      BY <1>0, <2>1, BalanceEffect
    <2>2. CASE ExecuteReplayed(c) \/ ExecuteBadToken(c) \/ ExecuteRefused(c)
      <3>1. /\ UNCHANGED <<balance, executions, basis, record, run, row, pc>>
            /\ \A b \in Callers : call'[b] = "none" <=> call[b] = "none"
        BY <1>a, <2>2
        DEF ExecuteReplayed, ExecuteBadToken, ExecuteRefused, harnessVars, apiVars
      <3>2. RunsFirst' /\ OnlyAwaiting'
        BY <1>b, <3>1 DEF RunsFirst, OnlyAwaiting, HoldsRow, Callers
      <3>3. \A m \in Mutations : Passed(m)' => Passed(m)
        BY <3>1 DEF Passed, Callers
      <3> QED
        BY <1>0, <3>1, <3>2, <3>3, BalanceQuiet
    <2> QED
      BY <1>4, <2>1, <2>2 DEF Execute
  \* The seed balance covers whatever the balance covered.
  <1>5. CASE reset \/ Restart
    <2>1. UNCHANGED <<executions, basis, record, run, row, pc, call>> /\ balance' = Seed
      BY <1>5 DEF reset, Restart, harnessVars
    <2>2. balance \in Int /\ Seed \in Nat /\ balance <= Seed /\ Days \in [Mutations -> Nat]
      BY MutationConstants DEF BalanceInv, DecisionInv, TypeOK
    <2>3. RunsFirst' /\ OnlyAwaiting' /\ BasisPast'
      BY <1>b, <2>1 DEF RunsFirst, OnlyAwaiting, HoldsRow, BasisPast, BalanceInv
    <2>4. ASSUME NEW m \in Mutations, Covered(m) PROVE Covered(m)'
      BY <2>1, <2>2, <2>4 DEF Covered, Executed
    <2>5. PassedCovered'
      BY <2>1, <2>4 DEF PassedCovered, Passed, BalanceInv
    <2>6. OverdraftNeedsRace'
      BY <2>1, <2>2 DEF OverdraftNeedsRace
    <2> QED
      BY <1>0, <2>1, <2>2, <2>3, <2>5, <2>6 DEF BalanceInv
  <1>6. CASE UNCHANGED vars
    <2>1. UNCHANGED <<balance, executions, basis, record, run, row, pc, call>>
      BY <1>6 DEF vars, harnessVars, apiVars
    <2> QED
      BY <1>0, <1>b, <2>1, BalanceQuiet DEF RunsFirst, OnlyAwaiting, HoldsRow, Passed
  <1> QED
    BY <1>1, <1>2, <1>3, <1>4, <1>5, <1>6 DEF Next

(***************************************************************************)
(* The leave balance only becomes negative through two mutations neither   *)
(* of whose previews saw the other.                                        *)
(***************************************************************************)
THEOREM OverdraftsAreRaces == Spec => []OverdraftNeedsRace
  <1>1. Init => BalanceInv
    <2> SUFFICES ASSUME Init PROVE BalanceInv
      OBVIOUS
    <2> USE MutationConstants DEF Init
    <2>1. DecisionInv
      BY DEF DecisionInv, TypeOK, ClaimsHold, RowAfterRun, HoldsRow, RowStatuses
    <2>2. TokenInv
      BY DEF TokenInv
    <2>3. BasisPast /\ PassedCovered
      BY DEF BasisPast, PassedCovered, Passed, Callers
    <2>4. RunsFirst /\ OnlyAwaiting
      BY DEF RunsFirst, OnlyAwaiting, HoldsRow, Callers
    <2>5. balance <= Seed /\ OverdraftNeedsRace
      BY DEF OverdraftNeedsRace
    <2> QED
      BY <2>1, <2>2, <2>3, <2>4, <2>5 DEF BalanceInv
  <1>2. BalanceInv => OverdraftNeedsRace
    BY DEF BalanceInv
  <1> QED
    BY <1>1, <1>2, BalanceStep, PTL DEF Spec

(***************************************************************************)
(* Every step keeps ApprovalInv: only ReadRequest lets a request on to its *)
(* claim, and only the claim of an approval lets it on to execute.         *)
(***************************************************************************)
LEMMA ApprovalStep == ApprovalInv /\ [Next]_vars => ApprovalInv'
  <1> SUFFICES ASSUME ApprovalInv, [Next]_vars PROVE ApprovalInv'
    OBVIOUS
  <1>0. TypeOK'
    BY MutationTypeStep DEF ApprovalInv
  <1>a. /\ run \in [Mutations -> {"preview", "execute", "wait", "persist", "ended", "lost"}]
        /\ pc \in [Deciders -> {"read", "claim", "execute", "wait", "answered"}]
        /\ call \in [Callers -> {"none", "sent", "ok", "refused", "used"}]
        /\ executions \in [Mutations -> Nat]
        /\ Target \in [Deciders -> Mutations] /\ Mutations \cap Deciders = {}
        /\ NeedsApproval \subseteq Mutations /\ Permitted \subseteq Deciders
        /\ Decision \in [Deciders -> {"approve", "reject"}]
    BY MutationConstants DEF ApprovalInv, TypeOK
  <1>b. RunsDefer /\ ClaimantsMay /\ SendersApprove /\ EffectNeedsApproval
    BY DEF ApprovalInv
  \* Requests under way stay so: an effect that had its approver keeps it.
  <1>c. ASSUME UNCHANGED executions,
               \A d \in Deciders : call[d] # "none" => call'[d] # "none"
        PROVE  EffectNeedsApproval'
    BY <1>a, <1>b, <1>c DEF EffectNeedsApproval
  <1> USE DEF harnessVars, apiVars
  <1>1. ASSUME NEW x \in Mutations, Run(x) PROVE ApprovalInv'
    <2>1. UNCHANGED <<pc, executions>> /\ \A d \in Deciders : call'[d] = call[d]
      BY <1>a, <1>1
      DEF Run, Preview, PreviewRefused, RunSendsExecute, RunGetsResult, PersistRun, RunLost,
          Callers
    <2>2. ClaimantsMay' /\ SendersApprove' /\ EffectNeedsApproval'
      BY <1>b, <1>c, <2>1 DEF ClaimantsMay, SendersApprove, HoldsRow
    <2>3. RunsDefer'
      BY <1>a, <1>b, <1>1
      DEF Run, Preview, PreviewRefused, RunSendsExecute, RunGetsResult, PersistRun, RunLost,
          RunsDefer, Callers
    <2> QED
      BY <1>0, <2>2, <2>3 DEF ApprovalInv
  <1>2. ASSUME NEW x \in Deciders, Decide(x) \/ DecisionLost(x) PROVE ApprovalInv'
    <2>1. /\ UNCHANGED <<run, executions>>
          /\ \A m \in Mutations : call'[m] = call[m]
          /\ \A d \in Deciders : d # x => pc'[d] = pc[d] /\ call'[d] = call[d]
          /\ call'[x] # call[x] => pc[x] = "execute" /\ call'[x] = "sent"
      BY <1>a, <1>2
      DEF Decide, ReadRequest, ClaimWon, ClaimLost, SendExecute, RecordExecuted, ExecuteFailed,
          ExecuteAbandoned, DecisionLost, Answer, Callers
    <2>2. /\ pc'[x] = "claim" => MayDecide(x)
          /\ pc'[x] = "execute" => pc[x] = "claim" /\ Decision[x] = "approve"
          /\ pc'[x] = "wait" => pc[x] = "execute"
      BY <1>a, <1>b, <1>2
      DEF Decide, ReadRequest, ClaimWon, ClaimLost, SendExecute, RecordExecuted, ExecuteFailed,
          ExecuteAbandoned, DecisionLost, Answer
    <2>3. RunsDefer'
      BY <1>a, <1>b, <2>1 DEF RunsDefer
    <2>4. ClaimantsMay'
      BY <1>b, <2>1, <2>2 DEF ClaimantsMay
    <2>5. SendersApprove'
      BY <1>b, <2>1, <2>2 DEF SendersApprove, ClaimantsMay, HoldsRow
    <2>6. EffectNeedsApproval'
      BY <1>c, <2>1
    <2> QED
      BY <1>0, <2>3, <2>4, <2>5, <2>6 DEF ApprovalInv
  <1>3. ASSUME NEW c \in Callers, Execute(c) PROVE ApprovalInv'
    <2>1. /\ UNCHANGED <<run, pc>>
          /\ call[c] = "sent"
          /\ \A b \in Callers : call'[b] = "none" <=> call[b] = "none"
      BY <1>a, <1>3
      DEF Execute, ExecuteReplayed, ExecuteConsumes, ExecuteBadToken, ExecuteRefused
    <2>2. RunsDefer' /\ ClaimantsMay' /\ SendersApprove'
      BY <1>a, <1>b, <2>1 DEF RunsDefer, ClaimantsMay, SendersApprove, HoldsRow, Callers
    <2>3. EffectNeedsApproval'
      <3>1. CASE ExecuteConsumes(c)
        <4> SUFFICES ASSUME NEW m \in NeedsApproval, executions'[m] > 0
                     PROVE  \E d \in Permitted \ Actors :
                              Target[d] = m /\ Decision[d] = "approve" /\ call'[d] # "none"
          BY DEF EffectNeedsApproval
        <4>1. CASE m = MutationOf(c)
          <5>1. c \in Deciders /\ Target[c] = m
            BY <1>a, <1>b, <2>1, <4>1 DEF RunsDefer, MutationOf, Callers
          <5> QED
            BY <1>b, <2>1, <5>1 DEF SendersApprove, MayDecide
        <4>2. CASE m # MutationOf(c)
          <5>1. executions[m] > 0
            BY <1>a, <3>1, <4>2 DEF ExecuteConsumes
          <5> QED
            BY <1>a, <1>b, <2>1, <5>1 DEF EffectNeedsApproval, Callers
        <4> QED
          BY <4>1, <4>2
      <3>2. CASE ExecuteReplayed(c) \/ ExecuteBadToken(c) \/ ExecuteRefused(c)
        BY <1>c, <2>1, <3>2 DEF ExecuteReplayed, ExecuteBadToken, ExecuteRefused, Callers
      <3> QED
        BY <1>3, <3>1, <3>2 DEF Execute
    <2> QED
      BY <1>0, <2>2, <2>3 DEF ApprovalInv
  <1>4. CASE reset \/ Restart \/ (\E m \in Mutations : TokenExpires(m)) \/ UNCHANGED vars
    <2>1. UNCHANGED <<run, pc, call, executions>>
      BY <1>4 DEF reset, Restart, TokenExpires, vars
    <2> QED
      BY <1>0, <1>b, <2>1
      DEF ApprovalInv, RunsDefer, ClaimantsMay, SendersApprove, HoldsRow, EffectNeedsApproval
  <1> QED
    BY <1>1, <1>2, <1>3, <1>4 DEF Next

\* At first nobody has called, claimed or approved anything.
LEMMA ApprovalStart == Init => ApprovalInv
  BY MutationConstants
  DEF Init, ApprovalInv, TypeOK, RowStatuses, RunsDefer, ClaimantsMay, SendersApprove, HoldsRow,
      EffectNeedsApproval, Callers

(***************************************************************************)
(* A mutation of high risk takes effect only on the request of a permitted *)
(* approver other than the user the run acted for.                         *)
(***************************************************************************)
THEOREM EffectsAreApproved == Spec => []EffectNeedsApproval
  <1>1. ApprovalInv => EffectNeedsApproval
    BY DEF ApprovalInv
  <1> QED
    BY <1>1, ApprovalStart, ApprovalStep, PTL DEF Spec

(***************************************************************************)
(* Every step keeps TruthInv.  The status a decider read is not locked     *)
(* until its claim; it is still worth an answer because a final status     *)
(* never changes (FinalStep).                                              *)
(***************************************************************************)
LEMMA TruthStep == TruthInv /\ [Next]_vars => TruthInv'
  <1> SUFFICES ASSUME TruthInv, [Next]_vars PROVE TruthInv'
    OBVIOUS
  <1>0. DecisionInv' /\ ApprovalInv' /\ FinalStep
    BY DecisionStep, ApprovalStep DEF TruthInv
  <1>a. /\ run \in [Mutations -> {"preview", "execute", "wait", "persist", "ended", "lost"}]
        /\ record \in [Mutations -> {"none", "awaiting_approval", "executed", "failed"}]
        /\ row \in [Mutations -> RowStatuses]
        /\ pc \in [Deciders -> {"read", "claim", "execute", "wait", "answered"}]
        /\ seen \in [Deciders -> RowStatuses]
        /\ answer \in [Deciders -> {0, 200, 403, 404, 409, 500, 502}]
        /\ call \in [Callers -> {"none", "sent", "ok", "refused", "used"}]
        /\ executions \in [Mutations -> Nat] /\ stored \subseteq Mutations
        /\ Target \in [Deciders -> Mutations] /\ Mutations \cap Deciders = {}
        /\ Decision \in [Deciders -> {"approve", "reject"}]
    BY MutationConstants DEF TruthInv, DecisionInv, TypeOK
  <1>b. StoreTrue /\ OkTrue /\ RecordTrue /\ SeenStands /\ RowTellsTruth
    BY DEF TruthInv
  <1>c. \A b \in Callers : MutationOf(b) \in Mutations
    BY <1>a DEF MutationOf, Callers
  <1> USE DEF harnessVars, apiVars
  \* A step that reads no row and answers nobody: final statuses stand.
  <1>d. ASSUME UNCHANGED <<seen, answer, executions>>,
               \A m \in Mutations : row'[m] = "executed" /\ row[m] # "executed" => executions[m] > 0
        PROVE  SeenStands' /\ RowTellsTruth'
    BY <1>0, <1>a, <1>b, <1>d DEF SeenStands, RowTellsTruth, FinalStep
  <1>1. ASSUME NEW x \in Mutations, Run(x) PROVE TruthInv'
    <2>1. UNCHANGED <<seen, answer, executions, stored>>
      BY <1>1
      DEF Run, Preview, PreviewRefused, RunSendsExecute, RunGetsResult, PersistRun, RunLost
    <2>2. StoreTrue' /\ OkTrue'
      BY <1>a, <1>b, <1>1, <2>1
      DEF Run, Preview, PreviewRefused, RunSendsExecute, RunGetsResult, PersistRun, RunLost,
          StoreTrue, OkTrue, Callers
    <2>3. RecordTrue'
      BY <1>a, <1>b, <1>1, <2>1
      DEF Run, Preview, PreviewRefused, RunSendsExecute, RunGetsResult, PersistRun, RunLost,
          RecordTrue, OkTrue, Callers, MutationOf
    <2>4. \A m \in Mutations : row'[m] = "executed" /\ row[m] # "executed" => executions[m] > 0
      BY <1>a, <1>b, <1>1
      DEF Run, Preview, PreviewRefused, RunSendsExecute, RunGetsResult, PersistRun, RunLost,
          RecordTrue
    <2> QED
      BY <1>0, <1>d, <2>1, <2>2, <2>3, <2>4 DEF TruthInv
  <1>2. ASSUME NEW x \in Deciders, Decide(x) \/ DecisionLost(x) PROVE TruthInv'
    <2>1. UNCHANGED <<executions, stored, record>>
      BY <1>2
      DEF Decide, ReadRequest, ClaimWon, ClaimLost, SendExecute, RecordExecuted, ExecuteFailed,
          ExecuteAbandoned, DecisionLost
    <2>2. \A b \in Callers : call'[b] = "ok" => call[b] = "ok"
      BY <1>a, <1>2
      DEF Decide, ReadRequest, ClaimWon, ClaimLost, SendExecute, RecordExecuted, ExecuteFailed,
          ExecuteAbandoned, DecisionLost
    <2>3. StoreTrue' /\ OkTrue' /\ RecordTrue'
      BY <1>b, <2>1, <2>2 DEF StoreTrue, OkTrue, RecordTrue
    <2>4. SeenStands'
      <3>1. \A d \in Deciders : seen'[d] = seen[d] \/ seen'[d] = row[Target[d]]
        BY <1>a, <1>2
        DEF Decide, ReadRequest, ClaimWon, ClaimLost, SendExecute, RecordExecuted, ExecuteFailed,
            ExecuteAbandoned, DecisionLost
      <3> QED
        BY <1>0, <1>a, <1>b, <3>1 DEF SeenStands, FinalStep
    <2>5. \A m \in Mutations : row'[m] = "executed" => executions[m] > 0
      <3>1. CASE RecordExecuted(x)
        <4>1. executions[Target[x]] > 0
          BY <1>a, <1>b, <3>1 DEF RecordExecuted, OkTrue, MutationOf, Callers
        <4> QED
          BY <1>a, <1>b, <3>1, <4>1 DEF RecordExecuted, RowTellsTruth
      <3>2. CASE ~RecordExecuted(x)
        BY <1>a, <1>b, <1>2, <3>2
        DEF Decide, ReadRequest, ClaimWon, ClaimLost, SendExecute, ExecuteFailed,
            ExecuteAbandoned, DecisionLost, RowTellsTruth
      <3> QED
        BY <3>1, <3>2
    <2>6. ASSUME NEW d \in Deciders, answer'[d] = 200
          PROVE  row'[Target[d]] = IF Decision[d] = "approve" THEN "executed" ELSE "rejected"
      <3>1. CASE answer[d] = 200
        BY <1>0, <1>a, <1>b, <3>1 DEF RowTellsTruth, FinalStep
      <3>2. CASE answer[d] # 200
        <4>1. d = x
          BY <1>a, <1>2, <2>6, <3>2
          DEF Decide, ReadRequest, ClaimWon, ClaimLost, SendExecute, RecordExecuted,
              ExecuteFailed, ExecuteAbandoned, DecisionLost, Answer
        <4>2. CASE ClaimWon(x)
          BY <1>a, <2>6, <3>2, <4>1, <4>2 DEF ClaimWon, Answer
        <4>3. CASE ClaimLost(x)
          <5>1. AlreadyMatches(x) /\ UNCHANGED row
            BY <1>a, <2>6, <4>1, <4>3 DEF ClaimLost, Answer
          <5> QED
            BY <1>a, <1>b, <4>1, <5>1 DEF AlreadyMatches, SeenStands
        <4>4. CASE RecordExecuted(x)
          <5>1. Decision[x] = "approve"
            BY <4>4 DEF RecordExecuted, TruthInv, ApprovalInv, SendersApprove, HoldsRow
          <5> QED
            BY <1>a, <4>1, <4>4, <5>1 DEF RecordExecuted, ResultStatus
        <4>5. CASE ~(ClaimWon(x) \/ ClaimLost(x) \/ RecordExecuted(x))
          BY <1>a, <1>2, <2>6, <3>2, <4>1, <4>5
          DEF Decide, ReadRequest, SendExecute, ExecuteFailed, ExecuteAbandoned, DecisionLost,
              Answer
        <4> QED
          BY <4>2, <4>3, <4>4, <4>5
      <3> QED
        BY <3>1, <3>2
    <2>7. RowTellsTruth'
      BY <2>1, <2>5, <2>6 DEF RowTellsTruth
    <2> QED
      BY <1>0, <2>3, <2>4, <2>7 DEF TruthInv
  <1>3. ASSUME NEW c \in Callers, Execute(c) PROVE TruthInv'
    <2>1. UNCHANGED <<seen, answer, row, record>>
      BY <1>3 DEF Execute, ExecuteReplayed, ExecuteConsumes, ExecuteBadToken, ExecuteRefused
    <2>2. CASE ExecuteConsumes(c)
      <3> DEFINE x == MutationOf(c)
      <3>1. /\ x \in Mutations /\ executions' = [executions EXCEPT ![x] = @ + 1]
            /\ stored' = stored \cup {x} /\ call' = [call EXCEPT ![c] = "ok"]
        BY <1>c, <2>2 DEF ExecuteConsumes
      <3> HIDE DEF x
      <3>2. executions'[x] > 0 /\ \A m \in Mutations : executions[m] > 0 => executions'[m] > 0
        BY <1>a, <3>1
      <3>3. StoreTrue' /\ RecordTrue'
        BY <1>a, <1>b, <2>1, <3>1, <3>2 DEF StoreTrue, RecordTrue
      <3>4. OkTrue'
        BY <1>a, <1>b, <1>c, <3>1, <3>2 DEF OkTrue, x
      <3>5. SeenStands' /\ RowTellsTruth'
        BY <1>b, <2>1, <3>2 DEF SeenStands, RowTellsTruth
      <3> QED
        BY <1>0, <3>3, <3>4, <3>5 DEF TruthInv
    <2>3. CASE ExecuteReplayed(c) \/ ExecuteBadToken(c) \/ ExecuteRefused(c)
      <3>1. /\ UNCHANGED <<executions, stored>>
            /\ \A b \in Callers : call'[b] = "ok" => call[b] = "ok" \/ MutationOf(b) \in stored
        BY <1>a, <2>3 DEF ExecuteReplayed, ExecuteBadToken, ExecuteRefused
      <3>2. StoreTrue' /\ OkTrue' /\ RecordTrue'
        BY <1>b, <2>1, <3>1 DEF StoreTrue, OkTrue, RecordTrue
      <3> QED
        BY <1>0, <1>d, <2>1, <3>1, <3>2 DEF TruthInv
    <2> QED
      BY <1>3, <2>2, <2>3 DEF Execute
  <1>4. CASE reset \/ Restart \/ (\E m \in Mutations : TokenExpires(m)) \/ UNCHANGED vars
    <2>1. UNCHANGED <<seen, answer, row, record, call, executions>> /\ stored' \subseteq stored
      BY <1>4 DEF reset, Restart, TokenExpires, vars
    <2>2. StoreTrue' /\ OkTrue' /\ RecordTrue'
      BY <1>b, <2>1 DEF StoreTrue, OkTrue, RecordTrue
    <2> QED
      BY <1>0, <1>d, <2>1, <2>2 DEF TruthInv
  <1> QED
    BY <1>1, <1>2, <1>3, <1>4 DEF Next

(***************************************************************************)
(* An audit row that says "executed" is about an effect that happened, and *)
(* an answer of 200 about a decision that is in the row.                   *)
(***************************************************************************)
THEOREM RowsTellTruth == Spec => []RowTellsTruth
  <1>1. Init => TruthInv
    <2> SUFFICES ASSUME Init PROVE TruthInv
      OBVIOUS
    <2>1. DecisionInv
      BY MutationConstants
      DEF Init, DecisionInv, TypeOK, ClaimsHold, RowAfterRun, HoldsRow, RowStatuses
    <2>2. StoreTrue /\ OkTrue /\ RecordTrue /\ SeenStands /\ RowTellsTruth
      BY MutationConstants DEF Init, StoreTrue, OkTrue, RecordTrue, SeenStands, RowTellsTruth
    <2> QED
      BY <2>1, <2>2, ApprovalStart DEF TruthInv
  <1>2. TruthInv => RowTellsTruth
    BY DEF TruthInv
  <1> QED
    BY <1>1, <1>2, TruthStep, PTL DEF Spec
=============================================================================
