---------------------------- MODULE EvalGateProofs ----------------------------
(***************************************************************************)
(* Proofs about EvalGate for any golden set, any number of concurrent      *)
(* pipelines and gates by hand, and any outcomes of the items: what a run  *)
(* that became the baseline is known to be, and what its promotion kept.   *)
(* And about the sampler, for any golden set, tagging, quota and size.     *)
(*                                                                         *)
(* Sums and the walk over the tags are recursive functions.  A sum is      *)
(* counted (SumIsCount); the walk is shown to exist (TakesExists) and is   *)
(* then followed by induction over the sets of tags (SubsetInduction).     *)
(***************************************************************************)
EXTENDS EvalGate, FiniteSetTheorems, WellFoundedInduction, TLAPS

(***************************************************************************)
(* A promoted run held up: a judge metric whose paired items did not all   *)
(* fall has one that did not.                                              *)
(***************************************************************************)
LEMMA HeldUpMeans ==
  ASSUME NEW new, NEW old, MustHaveRegressed(new, old) = {}, NEW n \in Judged,
         \A i \in Scored(new, n) : Score(new, n, i) \in Int,
         \A i \in Scored(old, n) : Score(old, n, i) \in Int
  PROVE  LET Paired == Scored(new, n) \cap Scored(old, n)
         IN  Paired = {} \/ \E i \in Paired : Score(new, n, i) >= Score(old, n, i) - 2
  <1> DEFINE Paired == Scored(new, n) \cap Scored(old, n)
             deltas == paired_deltas(new, old, n)
  <1>1. DOMAIN deltas = Paired /\ \A i \in Paired : deltas[i] = Score(new, n, i) - Score(old, n, i)
    BY DEF paired_deltas
  <1>2. Fell(deltas) = {i \in Paired : deltas[i] < -2}
    BY <1>1 DEF Fell, CI_REGRESSION_THRESHOLD
  <1>3. Fell(deltas) = {} \/ Fell(deltas) # Paired
    BY <1>1 DEF MustHaveRegressed, MayHaveRegressed
  <1>4. SUFFICES ASSUME Paired # {} PROVE \E i \in Paired : Score(new, n, i) >= Score(old, n, i) - 2
    OBVIOUS
  <1>5. PICK i \in Paired : ~(deltas[i] < -2)
    BY <1>2, <1>3, <1>4
  <1> QED
    BY <1>1, <1>5

(***************************************************************************)
(* The steps of `run` and of the golden set, and those of a gate.          *)
(***************************************************************************)
RunStep ==
  \/ \E i \in Items : EditGoldenSet(i)
  \/ \E s \in Sessions :
      \/ sync_golden_set(s) \/ Gathered(s) \/ insert_run(s) \/ WriteRunId(s) \/ RunFails(s)
      \/ \E i \in sample[s], outcome \in Outcomes : run_item(s, i, outcome)

GateStep(s) ==
  \/ \E run \in rows, regressed \in SUBSET Judged : compute_verdict(s, run, regressed)
  \/ ClearBaseline(s) \/ ClearWaits(s) \/ ClearResumes(s) \/ SetBaseline(s)
  \/ RecordChange(s) \/ GateDies(s)

\* A step either runs items and stores their results, or is one of a gate.
LEMMA StepsSplit == Next <=> RunStep \/ \E s \in Sessions : GateStep(s)
  BY DEF Next, RunStep, GateStep

(***************************************************************************)
(* A run adds scores only before it has its row, and no gate touches them. *)
(***************************************************************************)
Plus(s, i, outcome) ==
  [j \in DOMAIN results[s] \cup {i} |-> IF j = i THEN outcome ELSE results[s][j]]

\* Runs never touch a gate, a baseline or the results of a stored run.
LEMMA RunStepShape ==
  ASSUME ScoresFinal, RunsHaveRows, RunStep
  PROVE  /\ UNCHANGED gateVars
         /\ rows \subseteq rows' /\ rows' \subseteq Sessions
         /\ \A r \in rows : results'[r] = results[r]
         /\ pc' \in [Sessions -> {"start", "run", "persist", "write", "gate"} \cup Changing \cup Ended]
         /\ \A s \in Sessions : pc'[s] = pc[s] \/ pc'[s] \notin Changing
         /\ ScoresFinal'
  <1>a. /\ rows \subseteq Sessions /\ DOMAIN results = Sessions
        /\ pc \in [Sessions -> {"start", "run", "persist", "write", "gate"} \cup Changing \cup Ended]
        /\ \A s \in rows : pc[s] \notin {"start", "run", "persist"}
    BY DEF ScoresFinal, RunsHaveRows
  <1> USE DEF Changing, Ended
  <1>1. ASSUME NEW i \in Items, EditGoldenSet(i) PROVE UNCHANGED <<gateVars, pc, rows, results>>
    BY <1>1 DEF EditGoldenSet
  <1>2. ASSUME NEW s \in Sessions, NEW i \in sample[s], NEW outcome \in Outcomes,
               run_item(s, i, outcome)
        PROVE  /\ UNCHANGED <<gateVars, pc, rows>> /\ s \notin rows
               /\ results' = [results EXCEPT ![s] = Plus(s, i, outcome)]
    BY <1>2, <1>a DEF run_item, Plus
  <1>3. ASSUME NEW s \in Sessions,
               sync_golden_set(s) \/ Gathered(s) \/ WriteRunId(s) \/ RunFails(s)
        PROVE  /\ UNCHANGED <<gateVars, rows, results>>
               /\ \E at \in {"run", "persist", "gate", "failed"} :
                    /\ pc' = [pc EXCEPT ![s] = at]
                    /\ at \in {"run", "persist"} => s \notin rows
    BY <1>3, <1>a DEF sync_golden_set, Gathered, WriteRunId, RunFails, Goto, runVars
  <1>4. ASSUME NEW s \in Sessions, insert_run(s)
        PROVE  /\ UNCHANGED <<gateVars, results>> /\ rows' = rows \cup {s}
               /\ pc' = [pc EXCEPT ![s] = "write"]
    BY <1>4 DEF insert_run, Goto
  <1>5. ASSUME UNCHANGED <<pc, rows, results>> PROVE ScoresFinal'
    BY <1>5 DEF ScoresFinal
  <1>6. ASSUME NEW s \in Sessions, NEW i, NEW outcome \in Outcomes, s \notin rows,
               UNCHANGED <<pc, rows>>,
               results' = [results EXCEPT ![s] = Plus(s, i, outcome)]
        PROVE  ScoresFinal' /\ \A r \in rows : results'[r] = results[r]
    <2>1. /\ DOMAIN results' = Sessions /\ \A r \in Sessions \ {s} : results'[r] = results[r]
          /\ results'[s] = Plus(s, i, outcome)
      BY <1>6, <1>a
    <2>2. /\ DOMAIN results'[s] = DOMAIN results[s] \cup {i}
          /\ \A j \in DOMAIN results'[s] :
                results'[s][j] = IF j = i THEN outcome ELSE results[s][j]
      BY <2>1 DEF Plus
    <2>3. IsFiniteSet(DOMAIN results[s] \cup {i})
      BY FS_AddElement DEF ScoresFinal
    <2>4. \A j \in DOMAIN results'[s] : results'[s][j] \in Outcomes
      BY <2>2 DEF ScoresFinal
    <2> QED
      BY <1>6, <1>a, <2>1, <2>2, <2>3, <2>4 DEF ScoresFinal
  <1>7. ASSUME NEW s \in Sessions, NEW at \in {"run", "persist", "gate", "failed"},
               UNCHANGED <<rows, results>>, pc' = [pc EXCEPT ![s] = at],
               at \in {"run", "persist"} => s \notin rows
        PROVE  ScoresFinal'
    BY <1>7, <1>a DEF ScoresFinal
  <1>8. ASSUME NEW s \in Sessions, UNCHANGED results, rows' = rows \cup {s},
               pc' = [pc EXCEPT ![s] = "write"]
        PROVE  ScoresFinal'
    BY <1>8, <1>a DEF ScoresFinal
  <1>9. CASE \E i \in Items : EditGoldenSet(i)
    BY <1>1, <1>5, <1>9, <1>a
  <1>10. CASE \E s \in Sessions : \E i \in sample[s], outcome \in Outcomes : run_item(s, i, outcome)
    BY <1>2, <1>6, <1>10, <1>a
  <1>11. CASE \E s \in Sessions : sync_golden_set(s) \/ Gathered(s) \/ WriteRunId(s) \/ RunFails(s)
    BY <1>3, <1>7, <1>11, <1>a
  <1>12. CASE \E s \in Sessions : insert_run(s)
    BY <1>4, <1>8, <1>12, <1>a
  <1> QED
    BY <1>9, <1>10, <1>11, <1>12 DEF RunStep

(***************************************************************************)
(* The run a promotion replaced has a row.                                 *)
(***************************************************************************)
LEMMA ReplacedIsRow ==
  ASSUME changes \in Seq([from : Sessions \cup {NoRun}, to : Sessions, by : Sessions]),
         \A k \in DOMAIN changes : changes[k].to \in rows,
         NEW k \in 1..(Len(changes) + 1)
  PROVE  Replaced(k) \in rows \cup {NoRun}
  <1>1. Len(changes) \in Nat /\ DOMAIN changes = 1..Len(changes)
    OBVIOUS
  <1>2. k # 1 => k - 1 \in DOMAIN changes
    BY <1>1
  <1> QED
    BY <1>2 DEF Replaced

(***************************************************************************)
(* With final scores, a step of a run leaves the judgements as they were.  *)
(***************************************************************************)
LEMMA RunStepInv == GateInv /\ RunStep => GateInv'
  <1> SUFFICES ASSUME GateInv, RunStep PROVE GateInv'
    OBVIOUS
  <1>a. ScoresFinal /\ RunsHaveRows
    BY DEF GateInv
  <1>b. /\ UNCHANGED <<target, seen, baseline, changes, raced>>
        /\ rows \subseteq rows' /\ rows' \subseteq Sessions
        /\ \A r \in rows : results'[r] = results[r]
        /\ pc' \in [Sessions -> {"start", "run", "persist", "write", "gate"} \cup Changing \cup Ended]
        /\ \A s \in Sessions : pc'[s] = pc[s] \/ pc'[s] \notin Changing
        /\ ScoresFinal'
    BY <1>a, RunStepShape DEF gateVars
  <1>c. /\ target \in [Sessions -> rows \cup {NoRun}] /\ seen \in [Sessions -> rows \cup {NoRun}]
        /\ changes \in Seq([from : Sessions \cup {NoRun}, to : Sessions, by : Sessions])
        /\ \A k \in DOMAIN changes : changes[k].from \in rows \cup {NoRun} /\ changes[k].to \in rows
    BY <1>a DEF RunsHaveRows
  <1>d. \A r \in rows \cup {NoRun} : ResultsOf(r)' = ResultsOf(r)
    BY <1>b DEF ResultsOf
  <1>e. \A k : Replaced(k)' = Replaced(k)
    BY <1>b DEF Replaced
  <1>f. \A k \in DOMAIN changes : Replaced(k) \in rows \cup {NoRun}
    <2> SUFFICES ASSUME NEW k \in DOMAIN changes PROVE Replaced(k) \in rows \cup {NoRun}
      OBVIOUS
    <2>1. k \in 1..(Len(changes) + 1)
      BY <1>c
    <2> QED
      BY <1>c, <2>1, ReplacedIsRow
  <1>1. RunsHaveRows'
    <2>1. \A k \in DOMAIN changes : changes[k].from \in rows' \cup {NoRun} /\ changes[k].to \in rows'
      BY <1>b, <1>c
    <2>2. baseline' = Replaced(Len(changes) + 1)'
      BY <1>a, <1>b, <1>e DEF RunsHaveRows
    <2> QED
      BY <1>b, <1>c, <2>1, <2>2 DEF RunsHaveRows
  <1>2. GatesJudged'
    <2> SUFFICES ASSUME NEW s \in Sessions, pc'[s] \in Changing
                 PROVE  /\ target[s] \in rows' /\ Clean(results'[target[s]])
                        /\ MustHaveRegressed(results'[target[s]], ResultsOf(seen[s])') = {}
                        /\ s \notin raced => seen[s] = baseline
      BY <1>b DEF GatesJudged, HeldUp
    <2>1. pc[s] \in Changing
      BY <1>b
    <2>2. /\ target[s] \in rows /\ Clean(results[target[s]])
          /\ MustHaveRegressed(results[target[s]], ResultsOf(seen[s])) = {}
          /\ s \notin raced => seen[s] = baseline
      BY <2>1 DEF GateInv, GatesJudged, HeldUp
    <2>3. results'[target[s]] = results[target[s]] /\ ResultsOf(seen[s])' = ResultsOf(seen[s])
      BY <1>b, <1>c, <1>d, <2>2
    <2> QED
      BY <1>b, <2>2, <2>3
  <1>3. PromotionsJudged'
    <2> SUFFICES ASSUME NEW k \in DOMAIN changes
                 PROVE  /\ Clean(results'[changes[k].to])
                        /\ changes[k].by \notin raced =>
                             /\ changes[k].from = Replaced(k)
                             /\ MustHaveRegressed(results'[changes[k].to], ResultsOf(Replaced(k))') = {}
      BY <1>b, <1>e DEF PromotionsJudged, HeldUp
    <2>1. /\ Clean(results[changes[k].to])
          /\ changes[k].by \notin raced =>
               /\ changes[k].from = Replaced(k)
               /\ MustHaveRegressed(results[changes[k].to], ResultsOf(Replaced(k))) = {}
      BY DEF GateInv, PromotionsJudged, HeldUp
    <2>2. /\ results'[changes[k].to] = results[changes[k].to]
          /\ ResultsOf(Replaced(k))' = ResultsOf(Replaced(k))
      BY <1>b, <1>c, <1>d, <1>e, <1>f
    <2> QED
      BY <2>1, <2>2
  <1> QED
    BY <1>b, <1>1, <1>2, <1>3 DEF GateInv

(***************************************************************************)
(* A verdict, a promotion, and the steps in between.  A run that passed is *)
(* clean and held up: Passed leaves no metric in `regressed`.              *)
(***************************************************************************)
Judges(s, run, at) ==
  /\ pc' = [pc EXCEPT ![s] = at]
  /\ at = "clear" => Clean(results[run]) /\ HeldUp(run, baseline)
  /\ target' = [target EXCEPT ![s] = run] /\ seen' = [seen EXCEPT ![s] = baseline]
  /\ UNCHANGED <<rows, results, baseline, changes, raced>>

Moves(s, at) ==
  /\ pc[s] \in Changing /\ pc' = [pc EXCEPT ![s] = at]
  /\ UNCHANGED <<rows, results, target, seen, baseline, changes, raced>>

\* compute_verdict blocks, passes, or goes on to promote, and only by the results it read.
LEMMA VerdictShape ==
  ASSUME NEW s \in Sessions, NEW run \in rows, NEW regressed \in SUBSET Judged,
         compute_verdict(s, run, regressed)
  PROVE  \E at \in {"blocked", "passed", "clear"} : Judges(s, run, at)
  <1>1. /\ MustHaveRegressed(results[run], BaselineResults) \subseteq regressed
        /\ target' = [target EXCEPT ![s] = run] /\ seen' = [seen EXCEPT ![s] = baseline]
        /\ UNCHANGED <<rows, results, baseline, changes, raced>>
    BY DEF compute_verdict, runVars
  <1>2. \/ pc' = [pc EXCEPT ![s] = "blocked"] \/ pc' = [pc EXCEPT ![s] = "passed"]
        \/ pc' = [pc EXCEPT ![s] = "clear"] /\ Passed(results[run], regressed)
    <2>1. CASE ~Passed(results[run], regressed)
      BY <2>1 DEF compute_verdict, Goto
    <2>2. CASE Passed(results[run], regressed) /\ s \in Promotes
      BY <2>2 DEF compute_verdict, Goto
    <2>3. CASE Passed(results[run], regressed) /\ s \notin Promotes
      BY <2>3 DEF compute_verdict, Goto
    <2> QED
      BY <2>1, <2>2, <2>3
  <1>3. ASSUME Passed(results[run], regressed) PROVE Clean(results[run]) /\ HeldUp(run, baseline)
    <2>1. /\ gate_deterministic(results[run]) = {} /\ regressed = {}
          /\ \A n \in Judged : ~breaches_absolute_floor(results[run], n)
      BY <1>3 DEF Passed, gate_ragas
    <2>2. MustHaveRegressed(results[run], ResultsOf(baseline)) = {}
      BY <1>1, <2>1 DEF BaselineResults, ResultsOf
    <2> QED
      BY <2>1, <2>2 DEF Clean, HeldUp
  <1> QED
    BY <1>1, <1>2, <1>3 DEF Judges

\* A step of a gate is a verdict, the end of a promotion, or changes no row.
LEMMA GateStepShape ==
  ASSUME NEW s \in Sessions, GateStep(s)
  PROVE  \/ \E run \in rows, at \in {"blocked", "passed", "clear"} : Judges(s, run, at)
         \/ \E at \in Changing \cup {"failed"} : Moves(s, at)
         \/ RecordChange(s)
  <1> USE DEF Changing, runVars, Goto, Moves
  <1>1. ASSUME NEW run \in rows, NEW regressed \in SUBSET Judged,
               compute_verdict(s, run, regressed)
        PROVE  \E at \in {"blocked", "passed", "clear"} : Judges(s, run, at)
    BY <1>1, VerdictShape
  <1>2. CASE ClearBaseline(s)
    BY <1>2 DEF ClearBaseline
  <1>3. CASE ClearWaits(s)
    BY <1>3 DEF ClearWaits
  <1>4. CASE ClearResumes(s)
    BY <1>4 DEF ClearResumes
  <1>5. CASE SetBaseline(s)
    <2>1. CASE IndexAccepts(s)
      BY <1>5, <2>1 DEF SetBaseline
    <2>2. CASE ~IndexAccepts(s)
      BY <1>5, <2>2 DEF SetBaseline
    <2> QED
      BY <2>1, <2>2
  <1>6. CASE GateDies(s)
    BY <1>6 DEF GateDies
  <1> QED
    BY <1>1, <1>2, <1>3, <1>4, <1>5, <1>6 DEF GateStep

(***************************************************************************)
(* A verdict is about the baseline of the moment; until the gate commits,  *)
(* only another gate's commit changes that, and marks this gate as raced.  *)
(***************************************************************************)
LEMMA JudgeInv ==
  ASSUME GateInv, NEW s \in Sessions, NEW run \in rows, NEW at \in {"blocked", "passed", "clear"},
         Judges(s, run, at)
  PROVE  GateInv'
  <1>a. /\ rows \subseteq Sessions
        /\ pc \in [Sessions -> {"start", "run", "persist", "write", "gate"} \cup Changing \cup Ended]
        /\ target \in [Sessions -> rows \cup {NoRun}] /\ seen \in [Sessions -> rows \cup {NoRun}]
        /\ changes \in Seq([from : Sessions \cup {NoRun}, to : Sessions, by : Sessions])
        /\ \A k \in DOMAIN changes : changes[k].from \in rows \cup {NoRun} /\ changes[k].to \in rows
        /\ baseline = Replaced(Len(changes) + 1)
    BY DEF GateInv, RunsHaveRows
  <1>b. /\ pc' = [pc EXCEPT ![s] = at] /\ UNCHANGED <<rows, results, baseline, changes, raced>>
        /\ target' = [target EXCEPT ![s] = run] /\ seen' = [seen EXCEPT ![s] = baseline]
    BY DEF Judges
  <1>c. baseline \in rows \cup {NoRun}
    <2>1. Len(changes) + 1 \in 1..(Len(changes) + 1)
      BY <1>a
    <2> QED
      BY <1>a, <2>1, ReplacedIsRow
  <1>1. ScoresFinal'
    BY <1>a, <1>b DEF GateInv, ScoresFinal
  <1>2. RunsHaveRows'
    <2>1. pc' \in [Sessions -> {"start", "run", "persist", "write", "gate"} \cup Changing \cup Ended]
      BY <1>a, <1>b DEF Changing, Ended
    <2>2. target' \in [Sessions -> rows \cup {NoRun}] /\ seen' \in [Sessions -> rows \cup {NoRun}]
      BY <1>a, <1>b, <1>c
    <2>3. Replaced(Len(changes) + 1)' = Replaced(Len(changes) + 1)
      BY <1>b DEF Replaced
    <2> QED
      BY <1>a, <1>b, <2>1, <2>2, <2>3 DEF RunsHaveRows
  <1>3. GatesJudged'
    <2> SUFFICES ASSUME NEW t \in Sessions, pc'[t] \in Changing
                 PROVE  /\ target'[t] \in rows /\ Clean(results[target'[t]])
                        /\ HeldUp(target[t], seen[t])'
                        /\ t \notin raced => seen'[t] = baseline
      BY <1>b DEF GatesJudged
    <2>1. CASE t = s
      <3>1. target'[t] = run /\ seen'[t] = baseline /\ at = "clear"
        BY <1>a, <1>b, <2>1 DEF Changing
      <3>2. Clean(results[run]) /\ HeldUp(run, baseline)
        BY <3>1 DEF Judges
      <3>3. HeldUp(target[t], seen[t])'
        BY <3>1, <3>2, <1>b DEF HeldUp, ResultsOf
      <3> QED
        BY <3>1, <3>2, <3>3
    <2>2. CASE t # s
      <3>1. target'[t] = target[t] /\ seen'[t] = seen[t] /\ pc[t] \in Changing
        BY <1>a, <1>b, <2>2
      <3>2. /\ target[t] \in rows /\ Clean(results[target[t]]) /\ HeldUp(target[t], seen[t])
            /\ t \notin raced => seen[t] = baseline
        BY <3>1 DEF GateInv, GatesJudged
      <3>3. HeldUp(target[t], seen[t])'
        BY <3>1, <3>2, <1>b DEF HeldUp, ResultsOf
      <3> QED
        BY <3>1, <3>2, <3>3
    <2> QED
      BY <2>1, <2>2
  <1>4. PromotionsJudged'
    BY <1>b DEF GateInv, PromotionsJudged, HeldUp, ResultsOf, Replaced
  <1> QED
    BY <1>1, <1>2, <1>3, <1>4 DEF GateInv

\* A gate that waits, resumes or dies changes no row of eval.runs.
LEMMA MoveInv ==
  ASSUME GateInv, NEW s \in Sessions, NEW at \in Changing \cup {"failed"}, Moves(s, at)
  PROVE  GateInv'
  <1>a. pc \in [Sessions -> {"start", "run", "persist", "write", "gate"} \cup Changing \cup Ended]
    BY DEF GateInv, RunsHaveRows
  <1>b. /\ pc[s] \in Changing /\ pc' = [pc EXCEPT ![s] = at]
        /\ UNCHANGED <<rows, results, target, seen, baseline, changes, raced>>
    BY DEF Moves
  <1>1. ScoresFinal'
    BY <1>a, <1>b DEF GateInv, ScoresFinal, Changing
  <1>2. RunsHaveRows'
    <2>1. pc' \in [Sessions -> {"start", "run", "persist", "write", "gate"} \cup Changing \cup Ended]
      BY <1>a, <1>b DEF Changing, Ended
    <2> QED
      BY <1>b, <2>1 DEF GateInv, RunsHaveRows, Replaced
  <1>3. GatesJudged'
    <2>1. \A t \in Sessions : pc'[t] \in Changing => pc[t] \in Changing
      BY <1>a, <1>b
    <2> QED
      BY <1>b, <2>1 DEF GateInv, GatesJudged, HeldUp, ResultsOf
  <1>4. PromotionsJudged'
    BY <1>b DEF GateInv, PromotionsJudged, HeldUp, ResultsOf, Replaced
  <1> QED
    BY <1>1, <1>2, <1>3, <1>4 DEF GateInv

(***************************************************************************)
(* A commit makes the gate's run the baseline, and every gate that is      *)
(* still between its reads and its commit a raced one.                     *)
(***************************************************************************)
LEMMA RecordInv ==
  ASSUME GateInv, NEW s \in Sessions, RecordChange(s)
  PROVE  GateInv'
  <1> DEFINE Change == [from : Sessions \cup {NoRun}, to : Sessions, by : Sessions]
             new == [from |-> seen[s], to |-> target[s], by |-> s]
             len == Len(changes)
  <1>a. /\ rows \subseteq Sessions
        /\ pc \in [Sessions -> {"start", "run", "persist", "write", "gate"} \cup Changing \cup Ended]
        /\ target \in [Sessions -> rows \cup {NoRun}] /\ seen \in [Sessions -> rows \cup {NoRun}]
        /\ changes \in Seq(Change)
        /\ \A k \in DOMAIN changes : changes[k].from \in rows \cup {NoRun} /\ changes[k].to \in rows
        /\ baseline = Replaced(len + 1)
    BY DEF GateInv, RunsHaveRows
  <1>b. /\ pc[s] = "record" /\ pc' = [pc EXCEPT ![s] = "promoted"]
        /\ baseline' = target[s] /\ changes' = Append(changes, new)
        /\ raced' = raced \cup {t \in Sessions \ {s} : pc[t] \in Changing}
        /\ UNCHANGED <<rows, results, target, seen>>
    BY DEF RecordChange, Goto, runVars
  <1>c. /\ target[s] \in rows /\ Clean(results[target[s]]) /\ HeldUp(target[s], seen[s])
        /\ s \notin raced => seen[s] = baseline
    BY <1>b DEF GateInv, GatesJudged, Changing
  <1>d. new \in Change /\ new.to = target[s] /\ new.from = seen[s] /\ new.by = s
    BY <1>a, <1>c
  <1> HIDE DEF Change, new
  <1>e. /\ len \in Nat /\ DOMAIN changes = 1..len
        /\ changes' \in Seq(Change) /\ Len(changes') = len + 1 /\ DOMAIN changes' = 1..(len + 1)
        /\ changes'[len + 1] = new /\ \A k \in 1..len : changes'[k] = changes[k]
    BY <1>a, <1>b, <1>d
  <1> HIDE DEF len
  <1>f. \A k \in 1..(len + 1) : Replaced(k)' = Replaced(k)
    BY <1>e DEF Replaced
  <1>1. ScoresFinal'
    BY <1>a, <1>b DEF GateInv, ScoresFinal
  <1>2. RunsHaveRows'
    <2>1. pc' \in [Sessions -> {"start", "run", "persist", "write", "gate"} \cup Changing \cup Ended]
      BY <1>a, <1>b DEF Changing, Ended
    <2>2. \A k \in DOMAIN changes' : changes'[k].from \in rows \cup {NoRun} /\ changes'[k].to \in rows
      BY <1>a, <1>c, <1>d, <1>e
    <2>3. baseline' = Replaced(Len(changes) + 1)'
      <3>1. Replaced(Len(changes) + 1)' = changes'[len + 1].to
        BY <1>e DEF Replaced
      <3> QED
        BY <1>b, <1>d, <1>e, <3>1
    <2> QED
      BY <1>a, <1>b, <1>e, <2>1, <2>2, <2>3 DEF RunsHaveRows, Change
  <1>3. GatesJudged'
    <2> SUFFICES ASSUME NEW t \in Sessions, pc'[t] \in Changing
                 PROVE  /\ target[t] \in rows /\ Clean(results[target[t]])
                        /\ HeldUp(target[t], seen[t])' /\ t \in raced'
      BY <1>b DEF GatesJudged
    <2>1. t # s /\ pc[t] \in Changing
      BY <1>a, <1>b DEF Changing
    <2>2. target[t] \in rows /\ Clean(results[target[t]]) /\ HeldUp(target[t], seen[t])
      BY <2>1 DEF GateInv, GatesJudged
    <2>3. HeldUp(target[t], seen[t])'
      BY <2>2, <1>b DEF HeldUp, ResultsOf
    <2> QED
      BY <1>b, <2>1, <2>2, <2>3
  <1>4. PromotionsJudged'
    <2> SUFFICES ASSUME NEW k \in 1..(len + 1)
                 PROVE  /\ Clean(results[changes'[k].to])
                        /\ changes'[k].by \notin raced' =>
                             /\ changes'[k].from = Replaced(k)
                             /\ HeldUp(changes[k].to, Replaced(k))'
      BY <1>b, <1>e, <1>f DEF PromotionsJudged
    <2>1. CASE k = len + 1
      <3>1. changes'[k].to = target[s] /\ changes'[k].from = seen[s] /\ changes'[k].by = s
        BY <1>d, <1>e, <2>1
      <3>2. s \notin raced' => seen[s] = Replaced(k)
        BY <1>a, <1>b, <1>c, <2>1
      <3>3. s \notin raced' => HeldUp(changes[k].to, Replaced(k))'
        BY <1>b, <1>c, <1>f, <3>1, <3>2 DEF HeldUp, ResultsOf
      <3> QED
        BY <1>c, <3>1, <3>2, <3>3
    <2>2. CASE k \in 1..len
      <3>1. changes'[k] = changes[k]
        BY <1>e, <2>2
      <3>2. /\ Clean(results[changes[k].to])
            /\ changes[k].by \notin raced =>
                 changes[k].from = Replaced(k) /\ HeldUp(changes[k].to, Replaced(k))
        BY <1>e, <2>2 DEF GateInv, PromotionsJudged
      <3>3. changes[k].by \notin raced => HeldUp(changes[k].to, Replaced(k))'
        BY <1>b, <1>f, <3>1, <3>2 DEF HeldUp, ResultsOf
      <3> QED
        BY <1>b, <3>1, <3>2, <3>3
    <2> QED
      BY <1>e, <2>1, <2>2
  <1> QED
    BY <1>1, <1>2, <1>3, <1>4 DEF GateInv

\* Every step keeps GateInv.
LEMMA GateInvStep == GateInv /\ [Next]_vars => GateInv'
  <1> SUFFICES ASSUME GateInv, [Next]_vars PROVE GateInv'
    OBVIOUS
  <1>1. CASE RunStep
    BY <1>1, RunStepInv
  <1>2. ASSUME NEW s \in Sessions, GateStep(s) PROVE GateInv'
    BY <1>2, GateStepShape, JudgeInv, MoveInv, RecordInv
  <1>3. CASE UNCHANGED vars
    BY <1>3 DEF vars, runVars, gateVars, GateInv, ScoresFinal, RunsHaveRows, GatesJudged,
       PromotionsJudged, HeldUp, ResultsOf, Replaced
  <1> QED
    BY <1>1, <1>2, <1>3, StepsSplit

\* At first nothing is stored, judged or promoted.
LEMMA GateInvStart == Init => GateInv
  <1> SUFFICES ASSUME Init PROVE GateInv
    OBVIOUS
  <1>1. ScoresFinal
    BY FS_EmptySet DEF Init, ScoresFinal
  <1>2. RunsHaveRows
    BY EvalConstants DEF Init, RunsHaveRows, Replaced
  <1>3. GatesJudged
    BY DEF Init, GatesJudged, Changing
  <1>4. PromotionsJudged
    BY DEF Init, PromotionsJudged
  <1> QED
    BY <1>1, <1>2, <1>3, <1>4 DEF GateInv

(***************************************************************************)
(* Judge scores are numbers.                                               *)
(***************************************************************************)
LEMMA ScoresAreNumbers ==
  ASSUME ScoresFinal, NEW r \in Sessions, NEW n \in Judged, NEW i \in Scored(results[r], n)
  PROVE  Score(results[r], n, i) \in Int
  <1>1. results[r][i] \in Outcome
    BY EvalConstants DEF ScoresFinal, Scored
  <1>2. results[r][i].ragas \in [Judged -> 0..100 \cup {NoScore}]
    BY <1>1 DEF Outcome, JudgeScores
  <1> QED
    BY <1>2 DEF Score, NoScore

(***************************************************************************)
(* A promotion that raced with no other names the baseline it replaced,    *)
(* and on no judge metric did every paired item fall by more than two      *)
(* points.                                                                 *)
(***************************************************************************)
THEOREM BaselineNeverFalls == Spec => []BaselineRatchets
  <1>1. GateInv => BaselineRatchets
    <2> SUFFICES ASSUME GateInv, NEW k \in DOMAIN changes, changes[k].by \notin raced
                 PROVE  /\ changes[k].from = Replaced(k)
                        /\ Replaced(k) # NoRun =>
                            LET new == results[changes[k].to]
                                old == results[Replaced(k)]
                            IN  \A n \in Judged :
                                  LET Paired == Scored(new, n) \cap Scored(old, n)
                                  IN  Paired = {} \/
                                      \E i \in Paired : Score(new, n, i) >= Score(old, n, i) - 2
      BY DEF BaselineRatchets
    <2>1. changes[k].from = Replaced(k) /\ HeldUp(changes[k].to, Replaced(k))
      BY DEF GateInv, PromotionsJudged
    <2>2. /\ changes \in Seq([from : Sessions \cup {NoRun}, to : Sessions, by : Sessions])
          /\ \A j \in DOMAIN changes : changes[j].to \in rows
          /\ rows \subseteq Sessions /\ ScoresFinal
      BY DEF GateInv, RunsHaveRows
    <2>3. Replaced(k) \in rows \cup {NoRun}
      <3>1. k \in 1..(Len(changes) + 1)
        BY <2>2
      <3> QED
        BY <2>2, <3>1, ReplacedIsRow
    <2> SUFFICES ASSUME Replaced(k) # NoRun, NEW n \in Judged
                 PROVE  LET Paired == Scored(results[changes[k].to], n) \cap Scored(results[Replaced(k)], n)
                        IN  Paired = {} \/
                            \E i \in Paired : Score(results[changes[k].to], n, i)
                                               >= Score(results[Replaced(k)], n, i) - 2
      BY <2>1
    <2>4. MustHaveRegressed(results[changes[k].to], results[Replaced(k)]) = {}
      BY <2>1 DEF HeldUp, ResultsOf
    <2>5. /\ \A i \in Scored(results[changes[k].to], n) : Score(results[changes[k].to], n, i) \in Int
          /\ \A i \in Scored(results[Replaced(k)], n) : Score(results[Replaced(k)], n, i) \in Int
      BY <2>2, <2>3, ScoresAreNumbers
    <2> QED
      BY <2>4, <2>5, HeldUpMeans
  <1> QED
    BY <1>1, GateInvStart, GateInvStep, PTL DEF Spec
-----------------------------------------------------------------------------
(***************************************************************************)
(* Sums of naturals.  Lay out f[r] tokens for each r: the sum, which the   *)
(* community modules define by recursion over the subsets of its index     *)
(* set, is the number of tokens.                                           *)
(***************************************************************************)
Tokens(f, s) == UNION {{r} \X (1..f[r]) : r \in s}

\* Finitely many piles of finitely many tokens.
LEMMA TokensFinite ==
  ASSUME NEW s, IsFiniteSet(s), NEW f, \A r \in s : f[r] \in Nat
  PROVE  IsFiniteSet(Tokens(f, s))
  <1> DEFINE piles == {{r} \X (1..f[r]) : r \in s}
             pile == [r \in s |-> {r} \X (1..f[r])]
  <1>1. pile \in Surjection(s, piles)
    BY DEF Surjection
  <1>2. IsFiniteSet(piles)
    BY <1>1, FS_Surjection
  <1>3. ASSUME NEW r \in s PROVE IsFiniteSet({r} \X (1..f[r]))
    <2>1. IsFiniteSet({r})
      BY FS_Singleton
    <2>2. IsFiniteSet(1..f[r])
      BY FS_Interval
    <2> QED
      BY <2>1, <2>2, FS_Product
  <1> QED
    BY <1>2, <1>3, FS_UNION DEF Tokens

\* One pile taken away removes its tokens.
LEMMA TokensStep ==
  ASSUME NEW s, IsFiniteSet(s), NEW f, \A r \in s : f[r] \in Nat, NEW x \in s
  PROVE  Cardinality(Tokens(f, s)) =
           Cardinality(Tokens(f, s \ {x})) + f[x]
  <1> DEFINE rest == Tokens(f, s \ {x})
             pile == {x} \X (1..f[x])
  <1>1. IsFiniteSet(rest)
    BY TokensFinite, FS_RemoveElement
  <1>2. IsFiniteSet(pile) /\ Cardinality(pile) = f[x]
    <2>1. IsFiniteSet({x}) /\ Cardinality({x}) = 1
      BY FS_Singleton
    <2>2. IsFiniteSet(1..f[x]) /\ Cardinality(1..f[x]) = f[x]
      BY FS_Interval
    <2>3. IsFiniteSet(pile) /\ Cardinality(pile) = Cardinality({x}) * Cardinality(1..f[x])
      BY <2>1, <2>2, FS_Product
    <2> QED
      BY <2>1, <2>2, <2>3
  <1>3. Tokens(f, s) = rest \cup pile
    BY DEF Tokens
  <1>4. rest \cap pile = {}
    <2> SUFFICES ASSUME NEW p \in rest, p \in pile PROVE FALSE
      OBVIOUS
    <2>1. PICK r \in s \ {x} : p \in {r} \X (1..f[r])
      BY DEF Tokens
    <2> QED
      BY <2>1
  <1> HIDE DEF rest, pile
  <1>5. Cardinality(rest \cup pile) = Cardinality(rest) + Cardinality(pile) - Cardinality({})
    BY <1>1, <1>2, <1>4, FS_Union
  <1>6. Cardinality(rest) \in Nat /\ Cardinality(pile) \in Nat
    BY <1>1, <1>2, FS_CardinalityType
  <1>7. Cardinality(rest \cup pile) = Cardinality(rest) + Cardinality(pile)
    BY <1>5, <1>6, FS_EmptySet
  <1> QED
    BY <1>2, <1>3, <1>7 DEF rest

\* What the recursive function behind SumFunctionOnSet satisfies.
Recurs(f, S, it) ==
  it = [s \in SUBSET S |-> IF s = {} THEN 0
                           ELSE f[CHOOSE x \in s : TRUE] + it[s \ {CHOOSE x \in s : TRUE}]]

(***************************************************************************)
(* The count of tokens satisfies the recursion, and nothing else does: a   *)
(* least subset where a solution differed would have to differ without one *)
(* of its elements as well.                                                *)
(***************************************************************************)
LEMMA SumIsCount ==
  ASSUME NEW S, IsFiniteSet(S), NEW f \in [S -> Nat]
  PROVE  SumFunction(f) = Cardinality(Tokens(f, S))
  <1> DEFINE Count(s) == Cardinality(Tokens(f, s))
             w == [s \in SUBSET S |-> Count(s)]
             it == CHOOSE it : Recurs(f, S, it)
             Wrong == {s \in SUBSET S : it[s] # Count(s)}
  <1>1. ASSUME NEW s \in SUBSET S, NEW x \in s PROVE Count(s) = f[x] + Count(s \ {x})
    <2>1. IsFiniteSet(s) /\ IsFiniteSet(s \ {x}) /\ \A r \in s : f[r] \in Nat
      BY FS_Subset
    <2>2. Count(s \ {x}) \in Nat
      BY <2>1, TokensFinite, FS_CardinalityType
    <2> QED
      BY <2>1, <2>2, TokensStep
  <1>2. Count({}) = 0
    BY FS_EmptySet DEF Tokens
  <1> HIDE DEF Count
  <1>3. ASSUME NEW s \in SUBSET S, s # {}
        PROVE  LET x == CHOOSE x \in s : TRUE IN x \in s /\ Count(s) = f[x] + Count(s \ {x})
    <2>1. (CHOOSE x \in s : TRUE) \in s
      BY <1>3
    <2> QED
      BY <1>1, <2>1
  <1>4. Recurs(f, S, it)
    <2>1. Recurs(f, S, w)
      BY <1>2, <1>3 DEF Recurs
    <2> QED
      BY <2>1
  <1>5. SumFunction(f) = it[S]
    BY DEF SumFunction, SumFunctionOnSet, FoldFunctionOnSet, MapThenFoldSet, Recurs
  <1> HIDE DEF it
  <1>6. Wrong = {}
    <2> SUFFICES ASSUME Wrong # {} PROVE FALSE
      OBVIOUS
    <2>1. IsWellFoundedOn(StrictSubsetOrdering(S), SUBSET S)
      BY FS_StrictSubsetOrderingWellFounded, FS_FiniteSubsetsOfFinite
    <2>2. PICK s \in Wrong : \A t \in Wrong : <<t, s>> \notin StrictSubsetOrdering(S)
      BY <2>1, WFMin
    <2>3. s # {}
      BY <1>2, <1>4 DEF Recurs
    <2> DEFINE x == CHOOSE x \in s : TRUE
    <2>4. x \in s /\ Count(s) = f[x] + Count(s \ {x})
      BY <1>3, <2>3
    <2>5. it[s] = f[x] + it[s \ {x}]
      BY <1>4, <2>3 DEF Recurs
    <2> HIDE DEF x
    <2>6. <<s \ {x}, s>> \in StrictSubsetOrdering(S)
      <3>1. s \in SUBSET S /\ s \ {x} \in SUBSET S /\ s \ {x} \subseteq s /\ s \ {x} # s
        BY <2>4
      <3> QED
        BY <3>1 DEF StrictSubsetOrdering
    <2>7. it[s \ {x}] = Count(s \ {x})
      BY <2>2, <2>6
    <2> QED
      BY <2>4, <2>5, <2>7
  <1> QED
    BY <1>5, <1>6 DEF Count

\* A sum of naturals is one.
LEMMA SumIsNatural ==
  ASSUME NEW S, IsFiniteSet(S), NEW f \in [S -> Nat]
  PROVE  SumFunction(f) \in Nat
  <1>1. IsFiniteSet(Tokens(f, S))
    BY TokensFinite
  <1> QED
    BY <1>1, SumIsCount, FS_CardinalityType

\* A sum of naturals that is 0 has no other summand.
LEMMA SumIsZero ==
  ASSUME NEW S, IsFiniteSet(S), NEW f \in [S -> Nat], SumFunction(f) <= 0, NEW x \in S
  PROVE  f[x] = 0
  <1>1. IsFiniteSet(Tokens(f, S)) /\ Cardinality(Tokens(f, S)) \in Nat
    BY TokensFinite, FS_CardinalityType
  <1>2. Cardinality(Tokens(f, S)) = 0
    BY <1>1, SumIsCount
  <1>3. Tokens(f, S) = {}
    BY <1>1, <1>2, FS_EmptySet
  <1>4. SUFFICES ASSUME f[x] # 0 PROVE FALSE
    OBVIOUS
  <1>5. <<x, 1>> \in {x} \X (1..f[x])
    BY <1>4
  <1> QED
    BY <1>3, <1>5 DEF Tokens

\* A mean that reaches the highest score has no other score.
LEMMA MeanIsFull ==
  ASSUME NEW S, IsFiniteSet(S), NEW top \in Nat \ {0}, NEW f \in [S -> 0..top],
         SumFunction(f) >= Cardinality(S) * top, NEW x \in S
  PROVE  f[x] = top
  <1> DEFINE All == S \X (1..top)
  <1>1. IsFiniteSet(All) /\ Cardinality(All) = Cardinality(S) * top /\ Cardinality(S) \in Nat
    <2>1. IsFiniteSet(1..top) /\ Cardinality(1..top) = top
      BY FS_Interval
    <2>2. IsFiniteSet(All) /\ Cardinality(All) = Cardinality(S) * Cardinality(1..top)
      BY <2>1, FS_Product
    <2>3. Cardinality(S) \in Nat
      BY FS_CardinalityType
    <2> QED
      BY <2>1, <2>2, <2>3
  <1>2. Tokens(f, S) \subseteq All
    BY DEF Tokens
  <1>3. SumFunction(f) = Cardinality(Tokens(f, S))
    BY SumIsCount
  <1> HIDE DEF All
  <1>4. /\ Cardinality(Tokens(f, S)) <= Cardinality(All)
        /\ Cardinality(Tokens(f, S)) \in Nat
        /\ Cardinality(All) = Cardinality(Tokens(f, S)) => All = Tokens(f, S)
    BY <1>1, <1>2, FS_Subset, FS_CardinalityType
  <1>5. Tokens(f, S) = All
    BY <1>1, <1>3, <1>4
  <1>6. <<x, top>> \in Tokens(f, S)
    BY <1>5 DEF All
  <1>7. PICK r \in S : <<x, top>> \in {r} \X (1..f[r])
    BY <1>6 DEF Tokens
  <1> QED
    BY <1>7

(***************************************************************************)
(* The specification of each metric, read out of the table.                *)
(***************************************************************************)
LEMMA Specs ==
  /\ "mutation_safety" \in Metrics /\ IsMean("mutation_safety")
  /\ DETERMINISTIC_SPECS["mutation_safety"].threshold = 100
  /\ "capability_leak" \in Metrics /\ ~IsMean("capability_leak")
  /\ DETERMINISTIC_SPECS["capability_leak"].threshold = 0
  /\ "pii_leakage" \in Metrics /\ ~IsMean("pii_leakage")
  /\ DETERMINISTIC_SPECS["pii_leakage"].threshold = 0
  BY DEF Metrics, IsMean, DETERMINISTIC_SPECS

(***************************************************************************)
(* Of a run that passed, no item errored: it would count as 0 in the mean  *)
(* of mutation_safety, which must be 100.  So every item counts for the    *)
(* leaks, and has none.                                                    *)
(***************************************************************************)
LEMMA CleanMeans ==
  ASSUME NEW r, IsFiniteSet(DOMAIN r), \A i \in DOMAIN r : r[i] \in Outcome,
         gate_deterministic(r) = {}, NEW i \in DOMAIN r
  PROVE  /\ ~r[i].error
         /\ r[i].deterministic.capability_leak = 0 /\ r[i].deterministic.pii_leakage = 0
         /\ r[i].deterministic.mutation_safety = 100
  <1> DEFINE Given(m) == [j \in Counted(r, m) |-> IF r[j].error THEN 0 ELSE r[j].deterministic[m]]
  <1>a. \A j \in DOMAIN r : /\ r[j].error \in BOOLEAN
                           /\ r[j].deterministic["mutation_safety"] \in {0, 100}
                           /\ r[j].deterministic["capability_leak"] \in Nat
                           /\ r[j].deterministic["pii_leakage"] \in Nat
    BY DEF Outcome, DeterministicScores
  <1>b. \A m : Counted(r, m) \subseteq DOMAIN r /\ IsFiniteSet(Counted(r, m))
    <2> SUFFICES ASSUME NEW m PROVE Counted(r, m) \subseteq DOMAIN r /\ IsFiniteSet(Counted(r, m))
      OBVIOUS
    <2>1. Counted(r, m) \subseteq DOMAIN r
      BY DEF Counted
    <2> QED
      BY <2>1, FS_Subset
  <1>c. \A m : Total(r, m) = SumFunction(Given(m))
    BY DEF Total
  <1>1. ~r[i].error /\ r[i].deterministic["mutation_safety"] = 100
    <2> DEFINE m == "mutation_safety"
               f == Given(m)
    <2>1. Counted(r, m) = DOMAIN r
      <3>1. \A j \in DOMAIN r : r[j].deterministic["mutation_safety"] # NoScore
        BY <1>a DEF NoScore
      <3>2. IsMean("mutation_safety")
        BY Specs
      <3> QED
        BY <3>1, <3>2 DEF Counted
    <2>2. /\ f \in [DOMAIN r -> 0..100] /\ f \in [DOMAIN r -> Nat]
          /\ f[i] = IF r[i].error THEN 0 ELSE r[i].deterministic["mutation_safety"]
      BY <1>a, <2>1
    <2>3. ~(Total(r, m) < 100 * Cardinality(Counted(r, m)))
      BY Specs DEF gate_deterministic
    <2>4. Total(r, m) = SumFunction(f)
      BY <1>c
    <2> HIDE DEF f, m
    <2>5. SumFunction(f) \in Nat /\ Cardinality(DOMAIN r) \in Nat
      <3>1. SumFunction(f) \in Nat
        BY <2>2, SumIsNatural
      <3> QED
        BY <3>1, FS_CardinalityType
    <2>6. SumFunction(f) >= Cardinality(DOMAIN r) * 100
      BY <2>1, <2>3, <2>4, <2>5
    <2>7. f[i] = 100
      BY <2>2, <2>6, MeanIsFull
    <2> QED
      BY <2>2, <2>7
  <1>2. ASSUME NEW m \in {"capability_leak", "pii_leakage"} PROVE r[i].deterministic[m] = 0
    <2> DEFINE f == Given(m)
    <2>1. i \in Counted(r, m)
      BY <1>a, <1>1 DEF Counted, NoScore
    <2>2. f \in [Counted(r, m) -> Nat] /\ f[i] = r[i].deterministic[m]
      BY <1>a, <1>b, <1>1, <2>1
    <2>3. ~(Total(r, m) > 0)
      BY Specs DEF gate_deterministic
    <2>4. Total(r, m) = SumFunction(f)
      BY <1>c
    <2>5. IsFiniteSet(Counted(r, m))
      BY <1>b
    <2> HIDE DEF f
    <2>6. SumFunction(f) \in Nat
      BY <2>2, <2>5, SumIsNatural
    <2>7. SumFunction(f) <= 0
      BY <2>3, <2>4, <2>6
    <2>8. f[i] = 0
      BY <2>1, <2>2, <2>5, <2>7, SumIsZero
    <2> QED
      BY <2>2, <2>8
  <1> QED
    BY <1>1, <1>2

(***************************************************************************)
(* Whichever run a gate picked up and whatever it raced with, a run that   *)
(* became the baseline has no errored item, no leak, no unsafe mutation    *)
(* and no judge metric below its floor.                                    *)
(***************************************************************************)
THEOREM BaselinesAreClean == Spec => []BaselineIsClean
  <1>1. GateInv => BaselineIsClean
    <2> SUFFICES ASSUME GateInv, NEW k \in DOMAIN changes
                 PROVE  LET r == results[changes[k].to] IN
                        /\ \A i \in DOMAIN r :
                            /\ ~r[i].error
                            /\ r[i].deterministic.capability_leak = 0 /\ r[i].deterministic.pii_leakage = 0
                            /\ r[i].deterministic.mutation_safety = 100
                        /\ \A n \in Judged : ~breaches_absolute_floor(r, n)
      BY DEF BaselineIsClean
    <2> DEFINE r == results[changes[k].to]
    <2>1. gate_deterministic(r) = {} /\ \A n \in Judged : ~breaches_absolute_floor(r, n)
      BY DEF GateInv, PromotionsJudged, Clean
    <2>2. changes[k].to \in Sessions
      BY DEF GateInv, RunsHaveRows
    <2>3. IsFiniteSet(DOMAIN r) /\ \A i \in DOMAIN r : r[i] \in Outcome
      BY <2>2, EvalConstants DEF GateInv, ScoresFinal
    <2> HIDE DEF r
    <2>4. \A i \in DOMAIN r :
            /\ ~r[i].error
            /\ r[i].deterministic.capability_leak = 0 /\ r[i].deterministic.pii_leakage = 0
            /\ r[i].deterministic.mutation_safety = 100
      BY <2>1, <2>3, CleanMeans
    <2> QED
      BY <2>1, <2>4 DEF r
  <1> QED
    BY <1>1, GateInvStart, GateInvStep, PTL DEF Spec
-----------------------------------------------------------------------------
(***************************************************************************)
(* The sampler.  Induction over the subsets of a finite set, as a fact     *)
(* about the set of the good ones: a set is good if it is without one      *)
(* element of its own.                                                     *)
(***************************************************************************)
LEMMA SubsetInduction ==
  ASSUME NEW S, IsFiniteSet(S), NEW Good, {} \in Good,
         \A s \in SUBSET S : s # {} => \E x \in s : s \ {x} \in Good => s \in Good
  PROVE  \A s \in SUBSET S : s \in Good
  <1> DEFINE Bad == {s \in SUBSET S : s \notin Good}
  <1>1. IsWellFoundedOn(StrictSubsetOrdering(S), SUBSET S)
    <2>1. FiniteSubsetsOf(S) = SUBSET S
      BY FS_FiniteSubsetsOfFinite
    <2>2. IsWellFoundedOn(StrictSubsetOrdering(S), FiniteSubsetsOf(S))
      BY FS_StrictSubsetOrderingWellFounded, Zenon
    <2> QED
      BY <2>1, <2>2
  <1> SUFFICES ASSUME Bad # {} PROVE FALSE
    OBVIOUS
  <1>2. PICK s \in Bad : \A t \in Bad : <<t, s>> \notin StrictSubsetOrdering(S)
    BY <1>1, WFMin
  <1>3. PICK x \in s : s \ {x} \in Good => s \in Good
    BY <1>2
  <1>4. s \ {x} \in Bad
    BY <1>2, <1>3
  <1>5. <<s \ {x}, s>> \in StrictSubsetOrdering(S)
    <2>1. s \in SUBSET S /\ s \ {x} \in SUBSET S /\ s \ {x} \subseteq s /\ s \ {x} # s
      BY <1>3
    <2> QED
      BY <2>1 DEF StrictSubsetOrdering
  <1> QED
    BY <1>2, <1>4, <1>5

\* A finite set of numbers has a greatest one.
LEMMA MaxIsGreatest ==
  ASSUME NEW S \in SUBSET Nat, IsFiniteSet(S)
  PROVE  \A s \in SUBSET S : s # {} => Max(s) \in s /\ \A y \in s : y <= Max(s)
  <1> DEFINE Good == {s \in SUBSET S : s = {} \/ \E m \in s : \A y \in s : m >= y}
  <1>1. ASSUME NEW s \in SUBSET S, NEW x \in s, s \ {x} \in Good PROVE s \in Good
    <2>1. CASE s \ {x} = {}
      <3>1. x \in Nat /\ \A y \in s : x >= y
        BY <2>1
      <3> QED
        BY <3>1
    <2>2. CASE s \ {x} # {}
      <3>1. PICK m \in s \ {x} : \A y \in s \ {x} : m >= y
        BY <1>1, <2>2
      <3>2. CASE m >= x
        BY <3>1, <3>2
      <3>3. CASE ~(m >= x)
        <4>1. \A y \in s : x >= y
          BY <3>1, <3>3
        <4> QED
          BY <4>1
      <3> QED
        BY <3>2, <3>3
    <2> QED
      BY <2>1, <2>2
  <1>2. {} \in Good
    OBVIOUS
  <1>3. \A s \in SUBSET S : s # {} => \E x \in s : s \ {x} \in Good => s \in Good
    BY <1>1
  <1>4. \A s \in SUBSET S : s \in Good
    <2> HIDE DEF Good
    <2> QED
      BY <1>2, <1>3, SubsetInduction
  <1> SUFFICES ASSUME NEW s \in SUBSET S, s # {}
               PROVE  Max(s) \in s /\ \A y \in s : y <= Max(s)
    OBVIOUS
  <1>5. \E m \in s : \A y \in s : m >= y
    BY <1>4
  <1>6. Max(s) \in s /\ \A y \in s : Max(s) >= y
    BY <1>5 DEF Max
  <1> QED
    BY <1>6

\* First takes n items, or all there are.
LEMMA FirstSize ==
  ASSUME NEW S \in SUBSET Nat, IsFiniteSet(S), NEW n \in Nat
  PROVE  /\ First(n, S) \subseteq S
         /\ Cardinality(First(n, S)) <= n
         /\ First(n, S) = S \/ Cardinality(First(n, S)) = n
  <1> DEFINE Good == {s \in SUBSET S : /\ Cardinality(First(n, s)) <= n
                                       /\ First(n, s) = s \/ Cardinality(First(n, s)) = n}
  <1>1. First(n, {}) = {} /\ Cardinality({}) = 0
    BY FS_EmptySet DEF First
  <1>2. ASSUME NEW s \in SUBSET S, s # {} PROVE \E x \in s : s \ {x} \in Good => s \in Good
    <2> DEFINE m == Max(s)
               rest == s \ {m}
               F == First(n, rest)
    <2>1. m \in s /\ \A y \in s : y <= m
      BY <1>2, MaxIsGreatest
    <2> HIDE DEF m
    <2> SUFFICES ASSUME rest \in Good PROVE s \in Good
      BY <2>1
    <2>2. IsFiniteSet(s) /\ IsFiniteSet(rest) /\ Cardinality(rest) \in Nat
          /\ Cardinality(s) = Cardinality(rest) + 1
      <3>1. IsFiniteSet(s) /\ IsFiniteSet(rest)
        BY FS_Subset
      <3>2. Cardinality(s) \in Nat /\ Cardinality(rest) \in Nat
        BY <3>1, FS_CardinalityType
      <3>3. Cardinality(rest) = Cardinality(s) - 1
        BY <2>1, <3>1, FS_RemoveElement
      <3> QED
        BY <3>1, <3>2, <3>3
    <2>3. F \subseteq rest /\ Cardinality(F) \in Nat /\ Cardinality(F) <= Cardinality(rest)
          /\ (Cardinality(F) = Cardinality(rest) => F = rest)
      <3>1. F \in SUBSET rest
        BY DEF First
      <3>2. IsFiniteSet(F)
        BY <3>1, <2>2, FS_Subset
      <3> QED
        BY <3>1, <3>2, <2>2, FS_Subset, FS_CardinalityType
    <2>4. {j \in s : j < m} = rest
      <3>1. s \subseteq Nat /\ m \in Nat
        BY <2>1
      <3>2. ASSUME NEW j \in s PROVE j < m <=> j \in rest
        BY <2>1, <3>1
      <3> QED
        BY <3>2
    <2>5. \A i \in rest : {j \in s : j < i} = {j \in rest : j < i}
      BY <2>1
    <2>6. First(n, s) = F \cup (IF Cardinality(rest) < n THEN {m} ELSE {})
      <3>1. ASSUME NEW i \in s
            PROVE  i \in First(n, s) <=> i \in F \cup (IF Cardinality(rest) < n THEN {m} ELSE {})
        <4>1. CASE i = m
          <5>1. i \in First(n, s) <=> Cardinality(rest) < n
            BY <4>1, <2>4 DEF First
          <5>2. i \notin F
            BY <4>1, <2>3
          <5> QED
            BY <4>1, <5>1, <5>2
        <4>2. CASE i # m
          <5>1. i \in rest
            BY <4>2
          <5>2. i \in First(n, s) <=> i \in F
            BY <5>1, <2>5 DEF First
          <5> QED
            BY <4>2, <5>2
        <4> QED
          BY <4>1, <4>2
      <3>2. First(n, s) \subseteq s
        BY DEF First
      <3> QED
        BY <3>1, <3>2, <2>1, <2>3
    <2>7. Cardinality(F) <= n /\ (F = rest \/ Cardinality(F) = n)
      OBVIOUS
    <2> HIDE DEF F, rest
    <2>8. CASE Cardinality(rest) < n
      <3>1. F = rest
        BY <2>3, <2>7, <2>8, <2>2
      <3>2. First(n, s) = s
        BY <2>1, <2>6, <2>8, <3>1 DEF rest
      <3> QED
        BY <2>2, <2>8, <3>2
    <2>9. CASE ~(Cardinality(rest) < n)
      <3>1. First(n, s) = F
        BY <2>6, <2>9
      <3> QED
        BY <2>2, <2>3, <2>7, <2>9, <3>1
    <2> QED
      BY <2>8, <2>9
  <1>3. {} \in Good
    BY <1>1
  <1>4. S \in Good
    <2> HIDE DEF Good
    <2> QED
      BY <1>2, <1>3, SubsetInduction
  <1> QED
    BY <1>4 DEF First

\* What the recursive function behind TagByTag satisfies on the subsets of S.
Takes(tags, quota, S, it) ==
  it = [s \in SUBSET S |-> IF s = {} THEN {}
                           ELSE Claim(it[s \ {Max(s)}], Bucket(tags, Max(s)), quota)]

(***************************************************************************)
(* There is such a function: one for the tags before the last is extended  *)
(* to the sets of tags that contain the last.                              *)
(***************************************************************************)
LEMMA TakesExists ==
  ASSUME NEW tags, NEW quota
  PROVE  \E it : Takes(tags, quota, Tags, it)
  <1> DEFINE Good == {s \in SUBSET Tags : \E it : Takes(tags, quota, s, it)}
             Step(it, s) == Claim(it[s \ {Max(s)}], Bucket(tags, Max(s)), quota)
  <1>1. {} \in Good
    <2> DEFINE it == [s \in SUBSET {} |-> {}]
    <2>1. \A s \in SUBSET {} : s = {}
      OBVIOUS
    <2>2. Takes(tags, quota, {}, it)
      BY <2>1 DEF Takes
    <2> QED
      BY <2>2
  <1>2. ASSUME NEW s \in SUBSET Tags, s # {} PROVE \E x \in s : s \ {x} \in Good => s \in Good
    <2> DEFINE m == Max(s)
               rest == s \ {m}
    <2>0. \A t \in SUBSET s : t # {} => Max(t) \in t /\ \A y \in t : y <= Max(t)
      BY EvalConstants, MaxIsGreatest
    <2>1. m \in s /\ \A y \in s : y <= m
      BY <1>2, <2>0
    <2> SUFFICES ASSUME rest \in Good PROVE s \in Good
      BY <2>1
    <2>2. PICK g : Takes(tags, quota, rest, g)
      OBVIOUS
    <2>3. \A t \in SUBSET rest : g[t] = IF t = {} THEN {} ELSE Step(g, t)
      BY <2>2 DEF Takes
    <2> DEFINE it == [t \in SUBSET s |-> IF m \in t THEN Claim(g[t \ {m}], Bucket(tags, m), quota)
                                                   ELSE g[t]]
    <2>4. ASSUME NEW t \in SUBSET s, t # {}, m \in t PROVE it[t] = Step(it, t)
      <3>1. Max(t) = m
        <4>1. Max(t) \in t /\ m <= Max(t)
          BY <2>4, <2>0
        <4>2. Max(t) \in Nat /\ m \in Nat /\ Max(t) <= m
          BY <2>1, <4>1, EvalConstants
        <4> QED
          BY <4>1, <4>2
      <3>2. t \ {m} \in SUBSET s /\ m \notin t \ {m}
        OBVIOUS
      <3> HIDE DEF m
      <3>3. it[t \ {m}] = g[t \ {m}]
        BY <3>2
      <3>4. it[t] = Claim(g[t \ {m}], Bucket(tags, m), quota)
        BY <2>4
      <3> HIDE DEF it
      <3> QED
        BY <3>1, <3>3, <3>4
    <2>5. ASSUME NEW t \in SUBSET s, m \notin t PROVE it[t] = IF t = {} THEN {} ELSE Step(it, t)
      <3>1. t \in SUBSET rest /\ t \ {Max(t)} \in SUBSET s /\ m \notin t \ {Max(t)}
        BY <2>5
      <3> HIDE DEF m, rest
      <3>2. it[t] = g[t] /\ it[t \ {Max(t)}] = g[t \ {Max(t)}]
        BY <2>5, <3>1
      <3> HIDE DEF it
      <3> QED
        BY <3>1, <3>2, <2>3
    <2>6. Takes(tags, quota, s, it)
      <3>1. \A t \in SUBSET s : it[t] = IF t = {} THEN {} ELSE Step(it, t)
        <4> HIDE DEF it, Step
        <4> QED
          BY <2>4, <2>5
      <3>2. it = [t \in SUBSET s |-> it[t]]
        OBVIOUS
      <3> HIDE DEF it, m, rest
      <3> QED
        BY <3>1, <3>2 DEF Takes
    <2> QED
      BY <2>6
  <1>3. Tags \in Good
    <2> HIDE DEF Good
    <2>1. \A s \in SUBSET Tags : s # {} => \E x \in s : s \ {x} \in Good => s \in Good
      BY <1>2
    <2>2. IsFiniteSet(Tags)
      BY EvalConstants
    <2>3. \A s \in SUBSET Tags : s \in Good
      BY <1>1, <2>1, <2>2, SubsetInduction
    <2> QED
      BY <2>3
  <1> QED
    BY <1>3

\* The tags take their quotas by this function.
LEMMA TagByTagTakes ==
  ASSUME NEW tags, NEW quota
  PROVE  \E it : Takes(tags, quota, Tags, it) /\ TagByTag(tags, quota) = it[Tags]
  <1> DEFINE it == CHOOSE it : Takes(tags, quota, Tags, it)
  <1>1. Takes(tags, quota, Tags, it)
    BY TakesExists
  <1>2. TagByTag(tags, quota) = it[Tags]
    BY DEF TagByTag, MapThenFoldSet, Takes
  <1> QED
    BY <1>1, <1>2

\* What the tags take are items of the golden set.
LEMMA TagByTagItems ==
  ASSUME NEW tags, NEW quota
  PROVE  TagByTag(tags, quota) \subseteq DOMAIN tags
  <1>1. PICK it : Takes(tags, quota, Tags, it) /\ TagByTag(tags, quota) = it[Tags]
    BY TagByTagTakes
  <1> DEFINE Good == {s \in SUBSET Tags : it[s] \subseteq DOMAIN tags}
  <1>2. {} \in Good
    BY <1>1 DEF Takes
  <1>3. ASSUME NEW s \in SUBSET Tags, s # {} PROVE \E x \in s : s \ {x} \in Good => s \in Good
    <2>1. Max(s) \in s
      BY <1>3, MaxIsGreatest, EvalConstants
    <2>2. it[s] = Claim(it[s \ {Max(s)}], Bucket(tags, Max(s)), quota)
      BY <1>1, <1>3 DEF Takes
    <2>3. ASSUME s \ {Max(s)} \in Good PROVE s \in Good
      BY <2>2, <2>3 DEF Claim, First, Bucket
    <2> QED
      BY <2>1, <2>3
  <1>4. Tags \in Good
    <2> HIDE DEF Good
    <2>1. \A s \in SUBSET Tags : s # {} => \E x \in s : s \ {x} \in Good => s \in Good
      BY <1>3
    <2>2. IsFiniteSet(Tags)
      BY EvalConstants
    <2>3. \A s \in SUBSET Tags : s \in Good
      BY <1>2, <2>1, <2>2, SubsetInduction
    <2> QED
      BY <2>3
  <1> QED
    BY <1>1, <1>4

\* A sample is one of the golden set.
LEMMA SampleItems ==
  ASSUME NEW tags, NEW quota, NEW size
  PROVE  stratified_sample(tags, quota, size) \subseteq DOMAIN tags
  BY TagByTagItems DEF stratified_sample, First

(***************************************************************************)
(* What one tag takes is new, at most its quota, and all of its quota      *)
(* unless its items run out.                                               *)
(***************************************************************************)
LEMMA ClaimSize ==
  ASSUME NEW selected \in SUBSET Nat, NEW tagged \in SUBSET Nat, NEW quota \in Nat,
         IsFiniteSet(selected), IsFiniteSet(tagged)
  PROVE  LET A == First(quota, tagged \ selected) IN
         /\ Claim(selected, tagged, quota) = selected \cup A
         /\ A \subseteq tagged /\ A \cap selected = {}
         /\ IsFiniteSet(A) /\ Cardinality(A) <= quota
         /\ tagged \subseteq selected \cup A \/ Cardinality(A) = quota
  <1> DEFINE A == First(quota, tagged \ selected)
  <1>1. tagged \ selected \in SUBSET Nat /\ IsFiniteSet(tagged \ selected)
    BY FS_Difference
  <1>2. /\ A \subseteq tagged \ selected /\ Cardinality(A) <= quota
        /\ A = tagged \ selected \/ Cardinality(A) = quota
    BY <1>1, FirstSize
  <1>3. IsFiniteSet(A)
    BY <1>1, <1>2, FS_Subset
  <1>4. Claim(selected, tagged, quota) = selected \cup A
    BY DEF Claim
  <1> QED
    BY <1>2, <1>3, <1>4

\* The items of a set of tags.
Buckets(tags, T) == UNION {Bucket(tags, t) : t \in T}

(***************************************************************************)
(* What holds after the tags of s have taken theirs: at most their quotas  *)
(* in all, and for any of them that still have items their quotas in items *)
(* of their own.                                                           *)
(***************************************************************************)
Kept(tags, quota, s, selected) ==
  /\ selected \subseteq DOMAIN tags
  /\ Cardinality(selected) <= quota * Cardinality(s)
  /\ \A T \in SUBSET s :
       (\A t \in T : ~(Bucket(tags, t) \subseteq selected))
         => Cardinality(selected \cap Buckets(tags, T)) >= quota * Cardinality(T)

\* One more tag is one more quota.
LEMMA OneMoreQuota ==
  ASSUME NEW S, IsFiniteSet(S), NEW x \in S, NEW quota \in Nat
  PROVE  /\ IsFiniteSet(S \ {x})
         /\ quota * Cardinality(S) = quota * Cardinality(S \ {x}) + quota
         /\ quota * Cardinality(S) \in Nat /\ quota * Cardinality(S \ {x}) \in Nat
  <1>1. IsFiniteSet(S \ {x}) /\ Cardinality(S \ {x}) = Cardinality(S) - 1
    BY FS_RemoveElement
  <1>2. Cardinality(S) \in Nat /\ Cardinality(S \ {x}) \in Nat
    BY <1>1, FS_CardinalityType
  <1> DEFINE c == Cardinality(S \ {x})
  <1>3. c \in Nat /\ Cardinality(S) = c + 1
    BY <1>1, <1>2
  <1> HIDE DEF c
  <1>4. quota * (c + 1) = quota * c + quota /\ quota * c \in Nat
    BY <1>3
  <1> QED
    BY <1>1, <1>3, <1>4 DEF c

\* Disjoint finite sets, one after the other.
LEMMA DisjointSize ==
  ASSUME NEW S, NEW T, IsFiniteSet(S), IsFiniteSet(T), S \cap T = {}
  PROVE  /\ IsFiniteSet(S \cup T) /\ Cardinality(S) \in Nat /\ Cardinality(T) \in Nat
         /\ Cardinality(S \cup T) = Cardinality(S) + Cardinality(T)
  <1>1. /\ IsFiniteSet(S \cup T)
        /\ Cardinality(S \cup T) = Cardinality(S) + Cardinality(T) - Cardinality({})
    BY FS_Union
  <1>2. Cardinality(S) \in Nat /\ Cardinality(T) \in Nat /\ Cardinality({}) = 0
    BY FS_CardinalityType, FS_EmptySet
  <1> QED
    BY <1>1, <1>2

\* The next tag takes its quota past what others took, which keeps theirs.
LEMMA KeptStep ==
  ASSUME NEW golden \in SUBSET Nat, IsFiniteSet(golden), NEW tags, DOMAIN tags = golden,
         NEW quota \in Nat, NEW s \in SUBSET Tags, NEW m \in s, NEW selected,
         Kept(tags, quota, s \ {m}, selected)
  PROVE  Kept(tags, quota, s, Claim(selected, Bucket(tags, m), quota))
  <1> DEFINE tagged == Bucket(tags, m)
  <1>1. /\ selected \in SUBSET golden /\ tagged \in SUBSET golden
        /\ IsFiniteSet(selected) /\ IsFiniteSet(tagged)
    <2>1. selected \in SUBSET golden /\ tagged \in SUBSET golden
      BY DEF Kept, Bucket
    <2> QED
      BY <2>1, FS_Subset
  <1> DEFINE A == First(quota, tagged \ selected)
  <1>2. /\ Claim(selected, tagged, quota) = selected \cup A
        /\ A \subseteq tagged /\ A \cap selected = {}
        /\ IsFiniteSet(A) /\ Cardinality(A) <= quota
        /\ tagged \subseteq selected \cup A \/ Cardinality(A) = quota
    <2>1. selected \in SUBSET Nat /\ tagged \in SUBSET Nat
      BY <1>1
    <2> HIDE DEF tagged
    <2> QED
      BY <1>1, <2>1, ClaimSize
  <1> HIDE DEF A
  <1> DEFINE more == selected \cup A
  <1>3. IsFiniteSet(s) /\ \A T \in SUBSET s : IsFiniteSet(T)
    BY EvalConstants, FS_Subset
  <1>4. more \subseteq DOMAIN tags
    BY <1>1, <1>2
  <1>5. Cardinality(more) <= quota * Cardinality(s)
    <2>1. /\ Cardinality(more) = Cardinality(selected) + Cardinality(A)
          /\ Cardinality(selected) \in Nat /\ Cardinality(A) \in Nat
      BY <1>1, <1>2, DisjointSize
    <2>2. Cardinality(selected) <= quota * Cardinality(s \ {m})
      BY DEF Kept
    <2>3. /\ quota * Cardinality(s) = quota * Cardinality(s \ {m}) + quota
          /\ quota * Cardinality(s \ {m}) \in Nat
      BY <1>3, OneMoreQuota
    <2>4. Cardinality(A) <= quota
      BY <1>2
    <2> HIDE DEF more
    <2> QED
      BY <2>1, <2>2, <2>3, <2>4
  <1>6. ASSUME NEW T \in SUBSET s, \A t \in T : ~(Bucket(tags, t) \subseteq more)
        PROVE  Cardinality(more \cap Buckets(tags, T)) >= quota * Cardinality(T)
    <2> DEFINE rest == T \ {m}
               old == selected \cap Buckets(tags, rest)
               new == more \cap Buckets(tags, T)
    <2>1. rest \in SUBSET (s \ {m}) /\ \A t \in rest : ~(Bucket(tags, t) \subseteq selected)
      BY <1>6
    <2>2. Cardinality(old) >= quota * Cardinality(rest)
      BY <2>1 DEF Kept
    <2>3. IsFiniteSet(old) /\ IsFiniteSet(new) /\ Cardinality(old) \in Nat /\ Cardinality(new) \in Nat
      <3>1. old \in SUBSET golden /\ new \in SUBSET golden
        BY <1>1, <1>2
      <3> QED
        BY <3>1, FS_Subset, FS_CardinalityType
    <2>4. old \subseteq new
      BY DEF Buckets
    <2>5. CASE m \notin T
      <3>1. rest = T
        BY <2>5
      <3>2. Cardinality(old) <= Cardinality(new)
        BY <2>3, <2>4, FS_Subset
      <3>3. Cardinality(T) \in Nat /\ quota * Cardinality(T) \in Nat
        BY <1>3, FS_CardinalityType
      <3>4. Cardinality(old) >= quota * Cardinality(T)
        BY <2>2, <3>1
      <3> HIDE DEF old, new
      <3>5. Cardinality(new) >= quota * Cardinality(T)
        BY <2>3, <3>2, <3>3, <3>4
      <3> QED
        BY <3>5 DEF new
    <2>6. CASE m \in T
      <3>1. Cardinality(A) = quota
        BY <1>2, <1>6, <2>6
      <3>2. A \subseteq new
        BY <1>2, <2>6 DEF Buckets
      <3>3. old \cap A = {}
        BY <1>2
      <3> HIDE DEF old, new, rest, more
      <3>4. /\ IsFiniteSet(old \cup A)
            /\ Cardinality(old \cup A) = Cardinality(old) + Cardinality(A)
        BY <1>2, <2>3, <3>3, DisjointSize
      <3>5. old \cup A \in SUBSET new
        BY <2>4, <3>2
      <3>6. Cardinality(old \cup A) <= Cardinality(new)
        BY <2>3, <3>5, FS_Subset
      <3>7. /\ quota * Cardinality(T) = quota * Cardinality(rest) + quota
            /\ quota * Cardinality(rest) \in Nat
        BY <1>3, <2>6, OneMoreQuota DEF rest
      <3>8. Cardinality(new) >= quota * Cardinality(T)
        BY <2>2, <2>3, <3>1, <3>4, <3>6, <3>7
      <3> QED
        BY <3>8 DEF new
    <2> QED
      BY <2>5, <2>6
  <1> HIDE DEF more
  <1>7. Kept(tags, quota, s, more)
    BY <1>4, <1>5, <1>6 DEF Kept
  <1> QED
    BY <1>2, <1>7 DEF more

\* The quotas are kept when all tags have taken theirs.
LEMMA TagByTagKeeps ==
  ASSUME NEW golden \in SUBSET Nat, IsFiniteSet(golden), NEW tags, DOMAIN tags = golden,
         NEW quota \in Nat
  PROVE  Kept(tags, quota, Tags, TagByTag(tags, quota))
  <1>1. PICK it : Takes(tags, quota, Tags, it) /\ TagByTag(tags, quota) = it[Tags]
    BY TagByTagTakes
  <1> DEFINE Good == {s \in SUBSET Tags : Kept(tags, quota, s, it[s])}
  <1>2. {} \in Good
    <2>1. it[{}] = {} /\ Cardinality({}) = 0 /\ quota * 0 = 0
      BY <1>1, FS_EmptySet DEF Takes
    <2>2. \A T \in SUBSET {} : T = {} /\ {} \cap Buckets(tags, T) = {}
      OBVIOUS
    <2>3. Kept(tags, quota, {}, {})
      BY <2>1, <2>2 DEF Kept
    <2> QED
      BY <2>1, <2>3
  <1>3. ASSUME NEW s \in SUBSET Tags, s # {} PROVE \E x \in s : s \ {x} \in Good => s \in Good
    <2>1. Max(s) \in s
      BY <1>3, MaxIsGreatest, EvalConstants
    <2>2. it[s] = Claim(it[s \ {Max(s)}], Bucket(tags, Max(s)), quota)
      BY <1>1, <1>3 DEF Takes
    <2>3. ASSUME s \ {Max(s)} \in Good PROVE s \in Good
      <3>1. Kept(tags, quota, s \ {Max(s)}, it[s \ {Max(s)}])
        BY <2>3
      <3>2. Kept(tags, quota, s, it[s])
        BY <2>1, <2>2, <3>1, KeptStep
      <3> QED
        BY <3>2
    <2> QED
      BY <2>1, <2>3
  <1>4. Tags \in Good
    <2> HIDE DEF Good
    <2>1. \A s \in SUBSET Tags : s # {} => \E x \in s : s \ {x} \in Good => s \in Good
      BY <1>3
    <2>2. IsFiniteSet(Tags)
      BY EvalConstants
    <2>3. \A s \in SUBSET Tags : s \in Good
      BY <1>2, <2>1, <2>2, SubsetInduction
    <2> QED
      BY <2>3
  <1> QED
    BY <1>1, <1>4

(***************************************************************************)
(* The docstring of stratified_sample, for every finite golden set, every  *)
(* tagging, quota and size: the quota is a floor for every set of tags     *)
(* that still have unchosen items, the sample has its size unless it is    *)
(* the golden set, and it is larger only by the quotas.                    *)
(***************************************************************************)
THEOREM SampleIsStratified ==
  ASSUME NEW golden \in SUBSET Nat, IsFiniteSet(golden), NEW tags, DOMAIN tags = golden,
         NEW quota \in Nat, NEW size \in Nat
  PROVE  LET chosen == stratified_sample(tags, quota, size) IN
         /\ \A T \in SUBSET Tags :
              (\A t \in T : ~(Bucket(tags, t) \subseteq chosen))
                => Cardinality(chosen \cap Buckets(tags, T)) >= quota * Cardinality(T)
         /\ chosen = golden \/ Cardinality(chosen) >= size
         /\ Cardinality(chosen) <= size \/ Cardinality(chosen) <= quota * Cardinality(Tags)
  <1> DEFINE selected == TagByTag(tags, quota)
             others == golden \ selected
             extra == First(size - Cardinality(selected), others)
             chosen == stratified_sample(tags, quota, size)
  <1>1. Kept(tags, quota, Tags, selected)
    BY TagByTagKeeps
  <1>2. /\ selected \in SUBSET golden /\ IsFiniteSet(selected) /\ Cardinality(selected) \in Nat
        /\ others \in SUBSET Nat /\ IsFiniteSet(others)
    <2>1. selected \in SUBSET golden /\ others \in SUBSET golden
      BY <1>1 DEF Kept
    <2> HIDE DEF selected, others
    <2> QED
      BY <2>1, FS_Subset, FS_CardinalityType
  <1>3. chosen = selected \cup extra
    BY DEF stratified_sample
  <1> HIDE DEF selected, chosen
  <1>4. extra \in SUBSET others /\ IsFiniteSet(extra) /\ Cardinality(extra) \in Nat
    <2>1. extra \in SUBSET others
      BY DEF First
    <2> QED
      BY <1>2, <2>1, FS_Subset, FS_CardinalityType
  <1>5. IsFiniteSet(chosen) /\ Cardinality(chosen) = Cardinality(selected) + Cardinality(extra)
    <2>1. selected \cap extra = {}
      BY <1>4
    <2> HIDE DEF extra
    <2> QED
      BY <1>2, <1>3, <1>4, <2>1, DisjointSize
  <1>6. ASSUME NEW T \in SUBSET Tags, \A t \in T : ~(Bucket(tags, t) \subseteq chosen)
        PROVE  Cardinality(chosen \cap Buckets(tags, T)) >= quota * Cardinality(T)
    <2> DEFINE old == selected \cap Buckets(tags, T)
               new == chosen \cap Buckets(tags, T)
    <2> HIDE DEF extra
    <2>1. Cardinality(old) >= quota * Cardinality(T)
      BY <1>1, <1>3, <1>6 DEF Kept
    <2>2. old \in SUBSET new /\ new \in SUBSET chosen
      BY <1>3
    <2>3. IsFiniteSet(T)
      BY EvalConstants, FS_Subset
    <2>4. Cardinality(T) \in Nat /\ quota * Cardinality(T) \in Nat
      BY <2>3, FS_CardinalityType
    <2> HIDE DEF old, new
    <2>5. /\ Cardinality(old) \in Nat /\ Cardinality(new) \in Nat
          /\ Cardinality(old) <= Cardinality(new)
      <3>1. IsFiniteSet(new)
        BY <1>5, <2>2, FS_Subset
      <3>2. IsFiniteSet(old)
        BY <3>1, <2>2, FS_Subset
      <3> QED
        BY <3>1, <3>2, <2>2, FS_Subset, FS_CardinalityType
    <2>6. Cardinality(new) >= quota * Cardinality(T)
      BY <2>1, <2>4, <2>5
    <2> QED
      BY <2>6 DEF new
  <1>7. Cardinality(selected) <= quota * Cardinality(Tags)
    BY <1>1 DEF Kept
  <1>8. quota * Cardinality(Tags) \in Nat
    <2>1. Cardinality(Tags) \in Nat
      BY EvalConstants, FS_CardinalityType
    <2> QED
      BY <2>1
  <1>9. /\ chosen = golden \/ Cardinality(chosen) >= size
        /\ Cardinality(chosen) <= size \/ Cardinality(chosen) <= quota * Cardinality(Tags)
    <2>1. CASE size >= Cardinality(selected)
      <3> DEFINE n == size - Cardinality(selected)
      <3>1. n \in Nat /\ n + Cardinality(selected) = size
        BY <2>1, <1>2
      <3>2. Cardinality(extra) <= n /\ (extra = others \/ Cardinality(extra) = n)
        <4> HIDE DEF n, others
        <4>1. /\ Cardinality(First(n, others)) <= n
              /\ First(n, others) = others \/ Cardinality(First(n, others)) = n
          BY <1>2, <3>1, FirstSize
        <4> QED
          BY <4>1 DEF n
      <3>3. extra = others => chosen = golden
        BY <1>2, <1>3
      <3> HIDE DEF n, extra, others
      <3> QED
        BY <1>2, <1>4, <1>5, <3>1, <3>2, <3>3
    <2>2. CASE ~(size >= Cardinality(selected))
      <3>1. \A S : IsFiniteSet(S) => Cardinality(S) \in Nat
        BY FS_CardinalityType
      <3>2. extra = {}
        <4> SUFFICES ASSUME NEW i \in extra PROVE FALSE
          OBVIOUS
        <4> DEFINE below == {j \in others : j < i}
        <4>1. below \in SUBSET others
          OBVIOUS
        <4>2. Cardinality(below) < size - Cardinality(selected)
          BY DEF First
        <4> HIDE DEF below, extra, others
        <4>3. Cardinality(below) \in Nat
          BY <1>2, <3>1, <4>1, FS_Subset
        <4> QED
          BY <1>2, <2>2, <4>2, <4>3
      <3>3. Cardinality(chosen) = Cardinality(selected)
        BY <1>3, <3>2
      <3> QED
        BY <1>2, <1>7, <1>8, <2>2, <3>3
    <2> QED
      BY <2>1, <2>2
  <1> QED
    BY <1>6, <1>9 DEF chosen

\* The sampler keeps the quotas on every golden set that TLC checks it on, and on all others.
THEOREM SamplesKeepQuota == Spec => []SampleKeepsQuota
  <1>1. SampleKeepsQuota
    <2> SUFFICES ASSUME NEW k \in 0..MaxGolden, NEW tags \in [1..k -> SUBSET Tags],
                        NEW quota \in 0..MaxGolden, NEW size \in 0..MaxGolden
                 PROVE  LET chosen == stratified_sample(tags, quota, size)
                            Unfinished == {t \in Tags : ~(Bucket(tags, t) \subseteq chosen)}
                            Quota(T) == quota * Cardinality(T)
                        IN  /\ \A T \in SUBSET Unfinished :
                                 Cardinality(chosen \cap UNION {Bucket(tags, t) : t \in T})
                                   >= Quota(T)
                            /\ chosen = 1..k \/ Cardinality(chosen) >= size
                            /\ Cardinality(chosen) <= size \/ Cardinality(chosen) <= Quota(Tags)
      BY DEF SampleKeepsQuota
    <2>1. /\ 1..k \in SUBSET Nat /\ IsFiniteSet(1..k) /\ DOMAIN tags = 1..k
          /\ quota \in Nat /\ size \in Nat
      BY EvalConstants, FS_Interval
    <2> DEFINE chosen == stratified_sample(tags, quota, size)
    <2>2. /\ \A T \in SUBSET Tags :
               (\A t \in T : ~(Bucket(tags, t) \subseteq chosen))
                 => Cardinality(chosen \cap Buckets(tags, T)) >= quota * Cardinality(T)
          /\ chosen = 1..k \/ Cardinality(chosen) >= size
          /\ Cardinality(chosen) <= size \/ Cardinality(chosen) <= quota * Cardinality(Tags)
      BY <2>1, SampleIsStratified
    <2> HIDE DEF chosen
    <2> QED
      BY <2>2 DEF chosen, Buckets
  <1> QED
    BY <1>1, PTL
-----------------------------------------------------------------------------
(***************************************************************************)
(* Types.  The parts of TypeOK that a growing eval.runs has to keep.       *)
(***************************************************************************)
RowsKnown(known) ==
  /\ last \in [Tiers -> known \cup {NoRun}]
  /\ target \in [Sessions -> known \cup {NoRun}] /\ seen \in [Sessions -> known \cup {NoRun}]
  /\ awaited \in [Sessions -> known \cup {NoRun}]
  /\ baseline \in known \cup {NoRun}
  /\ changes \in Seq([from : known \cup {NoRun}, to : known, by : Promotes])

\* A row that is known stays known when there are more.
LEMMA MoreRowsKnown ==
  ASSUME NEW known, NEW more, known \subseteq more, RowsKnown(known)
  PROVE  RowsKnown(more)
  <1> DEFINE R == [from : known \cup {NoRun}, to : known, by : Promotes]
             Q == [from : more \cup {NoRun}, to : more, by : Promotes]
  <1>1. R \subseteq Q
    OBVIOUS
  <1>2. changes \in Seq(R)
    BY DEF RowsKnown
  <1>3. changes \in Seq(Q)
    <2> HIDE DEF R, Q
    <2>1. Len(changes) \in Nat /\ DOMAIN changes = 1..Len(changes)
          /\ \A k \in 1..Len(changes) : changes[k] \in R
      BY <1>2
    <2>2. changes = [k \in 1..Len(changes) |-> changes[k]]
      BY <1>2, <2>1
    <2> QED
      BY <1>1, <2>1, <2>2
  <1> QED
    BY <1>3 DEF RowsKnown

Stages == {"start", "run", "persist", "write", "gate"} \cup Changing \cup Ended

\* The parts of TypeOK about the runs, and the ones about the gates.
RunsTyped ==
  /\ file \subseteq Items /\ table \subseteq Items /\ edits \in 0..MaxEdits
  /\ sample \in [Sessions -> SUBSET Items] /\ DOMAIN results = Sessions
  /\ \A s \in Sessions : DOMAIN results[s] \subseteq sample[s]
  /\ \A s \in Sessions : \A i \in DOMAIN results[s] : results[s][i] \in Outcomes
  /\ rows \subseteq Sessions /\ \A s \in rows : DOMAIN results[s] = sample[s]
HolderTyped ==
  /\ holder \in Sessions \cup {NoRun} /\ raced \subseteq Sessions
  /\ holder # NoRun => pc[holder] \in {"set", "record"}

\* SessionInv in these parts.
LEMMA SessionParts ==
  /\ SessionInv <=> pc \in [Sessions -> Stages] /\ RunsTyped /\ RowsKnown(rows)
                      /\ HolderTyped /\ SessionsProgress
  /\ SessionInv' <=> pc' \in [Sessions -> Stages] /\ RunsTyped' /\ RowsKnown(rows)'
                       /\ HolderTyped' /\ SessionsProgress'
  BY DEF SessionInv, TypeOK, Stages, RunsTyped, RowsKnown, HolderTyped, SessionsProgress

\* Every step of the golden set and of a run keeps SessionInv.
LEMMA RunKeepsSessions ==
  ASSUME SessionInv, RunStep
  PROVE  SessionInv'
  <1> USE EvalConstants
  <1>a. pc \in [Sessions -> Stages] /\ RunsTyped /\ RowsKnown(rows) /\ HolderTyped /\ SessionsProgress
    BY SessionParts
  <1> SUFFICES pc' \in [Sessions -> Stages] /\ RunsTyped' /\ RowsKnown(rows)'
               /\ HolderTyped' /\ SessionsProgress'
    BY SessionParts
  <1>1. ASSUME NEW i \in Items, EditGoldenSet(i)
        PROVE  pc' \in [Sessions -> Stages] /\ RunsTyped' /\ RowsKnown(rows)'
               /\ HolderTyped' /\ SessionsProgress'
    <2>1. RunsTyped'
      BY <1>1, <1>a DEF EditGoldenSet, RunsTyped
    <2> QED
      BY <1>1, <1>a, <2>1 DEF EditGoldenSet, RowsKnown, HolderTyped, SessionsProgress, gateVars
  <1>2. ASSUME NEW s \in Sessions, sync_golden_set(s)
        PROVE  pc' \in [Sessions -> Stages] /\ RunsTyped' /\ RowsKnown(rows)'
               /\ HolderTyped' /\ SessionsProgress'
    <2> DEFINE new == IF TierOf[s] = "smoke"
                      THEN stratified_sample([i \in table' |-> TagsOf[i]],
                                             smoke_per_tag_quota, smoke_sample_size)
                      ELSE table'
    <2>1. pc[s] = "start" /\ pc' = [pc EXCEPT ![s] = "run"] /\ sample' = [sample EXCEPT ![s] = new]
      BY <1>2 DEF sync_golden_set, Goto
    <2>2. table' \subseteq Items
      BY <1>2, <1>a DEF sync_golden_set, upsert_item, RunsTyped
    <2>3. new \subseteq Items
      <3>1. stratified_sample([i \in table' |-> TagsOf[i]], smoke_per_tag_quota, smoke_sample_size)
              \subseteq DOMAIN [i \in table' |-> TagsOf[i]]
        BY SampleItems
      <3>2. DOMAIN [i \in table' |-> TagsOf[i]] = table'
        OBVIOUS
      <3> QED
        BY <2>2, <3>1, <3>2
    <2>4. DOMAIN results[s] = {} /\ s \notin rows
      BY <1>a, <2>1 DEF SessionsProgress
    <2> HIDE DEF new
    <2>5. UNCHANGED <<file, edits, results, rows, last, gateVars>>
      BY <1>2 DEF sync_golden_set
    <2>6. RunsTyped'
      BY <1>a, <2>1, <2>2, <2>3, <2>4, <2>5 DEF RunsTyped
    <2>7. pc' \in [Sessions -> Stages] /\ RowsKnown(rows)'
      BY <1>a, <2>1, <2>5 DEF RowsKnown, gateVars, Stages
    <2>8. HolderTyped' /\ SessionsProgress'
      BY <1>a, <2>1, <2>5, <2>4 DEF HolderTyped, SessionsProgress, gateVars, Changing
    <2> QED
      BY <2>6, <2>7, <2>8
  <1>3. ASSUME NEW s \in Sessions, NEW i \in sample[s], NEW outcome \in Outcomes,
               run_item(s, i, outcome)
        PROVE  pc' \in [Sessions -> Stages] /\ RunsTyped' /\ RowsKnown(rows)'
               /\ HolderTyped' /\ SessionsProgress'
    <2> DEFINE new == [j \in DOMAIN results[s] \cup {i} |-> IF j = i THEN outcome ELSE results[s][j]]
    <2>1. pc[s] = "run" /\ results' = [results EXCEPT ![s] = new]
          /\ UNCHANGED <<pc, file, table, edits, sample, rows, last, gateVars>>
      BY <1>3 DEF run_item
    <2>2. DOMAIN new = DOMAIN results[s] \cup {i} /\ \A j \in DOMAIN new : new[j] \in Outcomes
      BY <1>a, <1>3 DEF RunsTyped
    <2>3. s \notin rows
      BY <1>a, <2>1 DEF SessionsProgress
    <2> HIDE DEF new
    <2>4. RunsTyped'
      BY <1>a, <2>1, <2>2, <2>3 DEF RunsTyped
    <2>5. SessionsProgress'
      BY <1>a, <2>1 DEF SessionsProgress, RunsTyped, gateVars
    <2> QED
      BY <1>a, <2>1, <2>4, <2>5 DEF RowsKnown, HolderTyped, gateVars
  <1>4. ASSUME NEW s \in Sessions, Gathered(s) \/ RunFails(s)
        PROVE  pc' \in [Sessions -> Stages] /\ RunsTyped' /\ RowsKnown(rows)'
               /\ HolderTyped' /\ SessionsProgress'
    <2>1. \E at \in {"persist", "failed"} :
            /\ pc' = [pc EXCEPT ![s] = at]
            /\ at = "persist" => pc[s] = "run" /\ DOMAIN results[s] = sample[s]
      BY <1>4 DEF Gathered, RunFails, Goto
    <2>2. pc[s] \in {"start", "run", "persist", "write"} /\ UNCHANGED <<runVars, gateVars>>
      BY <1>4 DEF Gathered, RunFails
    <2>3. pc' \in [Sessions -> Stages] /\ RunsTyped' /\ RowsKnown(rows)'
      BY <1>a, <2>1, <2>2 DEF Stages, Ended, RunsTyped, RowsKnown, runVars, gateVars
    <2>4. HolderTyped' /\ SessionsProgress'
      BY <1>a, <2>1, <2>2 DEF HolderTyped, SessionsProgress, Changing, runVars, gateVars
    <2> QED
      BY <2>3, <2>4
  <1>5. ASSUME NEW s \in Sessions, insert_run(s)
        PROVE  pc' \in [Sessions -> Stages] /\ RunsTyped' /\ RowsKnown(rows)'
               /\ HolderTyped' /\ SessionsProgress'
    <2>1. /\ pc[s] = "persist" /\ rows' = rows \cup {s} /\ pc' = [pc EXCEPT ![s] = "write"]
          /\ UNCHANGED <<file, table, edits, results, sample, last, gateVars>>
      BY <1>5 DEF insert_run, Goto
    <2>2. RunsTyped' /\ HolderTyped' /\ SessionsProgress'
      BY <1>a, <2>1 DEF RunsTyped, HolderTyped, SessionsProgress, Changing, gateVars
    <2>3. RowsKnown(rows \cup {s})
      BY <1>a, MoreRowsKnown
    <2>4. RowsKnown(rows)'
      BY <2>1, <2>3 DEF RowsKnown, gateVars
    <2> QED
      BY <1>a, <2>1, <2>2, <2>4 DEF Stages
  <1>6. ASSUME NEW s \in Sessions, WriteRunId(s)
        PROVE  pc' \in [Sessions -> Stages] /\ RunsTyped' /\ RowsKnown(rows)'
               /\ HolderTyped' /\ SessionsProgress'
    <2>1. /\ pc[s] = "write" /\ last' = [last EXCEPT ![TierOf[s]] = s]
          /\ pc' = [pc EXCEPT ![s] = "gate"]
          /\ UNCHANGED <<file, table, edits, results, sample, rows, gateVars>>
      BY <1>6 DEF WriteRunId, Goto
    <2>2. RunsTyped' /\ HolderTyped' /\ SessionsProgress'
      BY <1>a, <2>1 DEF RunsTyped, HolderTyped, SessionsProgress, Changing, gateVars
    <2>3. RowsKnown(rows)'
      BY <1>a, <2>1 DEF RowsKnown, SessionsProgress, gateVars
    <2> QED
      BY <1>a, <2>1, <2>2, <2>3 DEF Stages
  <1> QED
    BY <1>1, <1>2, <1>3, <1>4, <1>5, <1>6 DEF RunStep

\* Every step of a gate keeps SessionInv.
LEMMA GateKeepsSessions ==
  ASSUME SessionInv, NEW s \in Sessions, GateStep(s)
  PROVE  SessionInv'
  <1> USE EvalConstants
  <1> DEFINE Typed == pc' \in [Sessions -> Stages] /\ RowsKnown(rows)' /\ HolderTyped' /\ SessionsProgress'
  <1>a. pc \in [Sessions -> Stages] /\ RunsTyped /\ RowsKnown(rows) /\ HolderTyped /\ SessionsProgress
    BY SessionParts
  <1>b. UNCHANGED runVars
    BY DEF GateStep, compute_verdict, ClearBaseline, ClearWaits, ClearResumes, SetBaseline,
           RecordChange, GateDies
  <1>c. RunsTyped'
    BY <1>a, <1>b DEF RunsTyped, runVars
  <1> SUFFICES Typed
    BY <1>c, SessionParts
  <1>1. ASSUME NEW run \in rows, NEW regressed \in SUBSET Judged, compute_verdict(s, run, regressed)
        PROVE  Typed
    <2>1. /\ pc[s] = "gate" /\ target' = [target EXCEPT ![s] = run]
          /\ seen' = [seen EXCEPT ![s] = baseline]
          /\ UNCHANGED <<runVars, awaited, baseline, holder, changes, raced>>
      BY <1>1 DEF compute_verdict
    <2>2. \E at \in {"blocked", "passed", "clear"} :
            pc' = [pc EXCEPT ![s] = at] /\ (at = "clear" => s \in Promotes)
      <3>1. CASE ~Passed(results[run], regressed)
        BY <1>1, <3>1 DEF compute_verdict, Goto
      <3>2. CASE Passed(results[run], regressed) /\ s \in Promotes
        BY <1>1, <3>2 DEF compute_verdict, Goto
      <3>3. CASE Passed(results[run], regressed) /\ s \notin Promotes
        BY <1>1, <3>3 DEF compute_verdict, Goto
      <3> QED
        BY <3>1, <3>2, <3>3
    <2>3. pc' \in [Sessions -> Stages] /\ HolderTyped' /\ SessionsProgress'
      BY <1>a, <2>1, <2>2
      DEF Stages, Changing, Ended, HolderTyped, SessionsProgress, RowsKnown, runVars
    <2>4. RowsKnown(rows)'
      BY <1>a, <2>1 DEF RowsKnown, runVars
    <2> QED
      BY <2>3, <2>4
  <1>2. ASSUME UNCHANGED <<target, seen, baseline, changes, raced>>,
               awaited' \in [Sessions -> rows \cup {NoRun}], pc[s] \in Changing,
               NEW at \in {"waits", "set", "record", "failed"}, pc' = [pc EXCEPT ![s] = at],
               holder' \in {holder, s, NoRun}, holder' = s => at \in {"set", "record"}
        PROVE  Typed
    <2>1. pc' \in [Sessions -> Stages]
      BY <1>a, <1>2 DEF Stages, Changing, Ended
    <2>2. RowsKnown(rows)'
      BY <1>a, <1>b, <1>2 DEF RowsKnown, runVars
    <2>3. HolderTyped'
      BY <1>a, <1>2 DEF HolderTyped
    <2>4. SessionsProgress'
      BY <1>a, <1>b, <1>2 DEF SessionsProgress, Changing, runVars
    <2> QED
      BY <2>1, <2>2, <2>3, <2>4
  <1>3. awaited \in [Sessions -> rows \cup {NoRun}] /\ baseline \in rows \cup {NoRun}
        /\ (holder = s => pc[s] \in {"set", "record"})
    BY <1>a DEF RowsKnown, HolderTyped
  <1>4. CASE ClearBaseline(s)
    <2>1. /\ pc[s] \in Changing /\ pc' = [pc EXCEPT ![s] = "set"] /\ holder' \in {holder, s}
          /\ UNCHANGED <<target, seen, awaited, baseline, changes, raced>>
      BY <1>4 DEF ClearBaseline, Goto, Changing
    <2> HIDE DEF Typed
    <2> QED
      BY <1>2, <1>3, <2>1
  <1>5. CASE ClearWaits(s)
    <2>1. /\ pc[s] \in Changing /\ pc[s] = "clear" /\ pc' = [pc EXCEPT ![s] = "waits"]
          /\ holder' = holder /\ awaited' = [awaited EXCEPT ![s] = baseline]
          /\ UNCHANGED <<target, seen, baseline, changes, raced>>
      BY <1>5 DEF ClearWaits, Goto, Changing
    <2> HIDE DEF Typed
    <2> QED
      BY <1>2, <1>3, <2>1
  <1>6. CASE ClearResumes(s)
    <2>1. /\ pc[s] \in Changing /\ pc' = [pc EXCEPT ![s] = "set"] /\ holder' \in {s, NoRun}
          /\ UNCHANGED <<target, seen, awaited, baseline, changes, raced>>
      BY <1>6 DEF ClearResumes, Goto, Changing
    <2> HIDE DEF Typed
    <2> QED
      BY <1>2, <1>3, <2>1
  <1>7. CASE SetBaseline(s)
    <2>1. /\ pc[s] \in Changing /\ UNCHANGED <<target, seen, awaited, baseline, changes, raced>>
          /\ holder \in {s, NoRun}
      BY <1>7 DEF SetBaseline, Changing
    <2>2. CASE IndexAccepts(s)
      <3>1. pc' = [pc EXCEPT ![s] = "record"] /\ holder' = s
        BY <1>7, <2>2 DEF SetBaseline, Goto
      <3> HIDE DEF Typed
      <3> QED
        BY <1>2, <1>3, <2>1, <3>1
    <2>3. CASE ~IndexAccepts(s)
      <3>1. pc' = [pc EXCEPT ![s] = "failed"] /\ holder' = holder /\ holder # s
        BY <1>7, <2>3 DEF SetBaseline, Goto, IndexAccepts
      <3> HIDE DEF Typed
      <3> QED
        BY <1>2, <1>3, <2>1, <3>1
    <2> QED
      BY <2>2, <2>3
  <1>8. CASE GateDies(s)
    <2>1. /\ pc[s] \in Changing /\ pc' = [pc EXCEPT ![s] = "failed"]
          /\ holder' \in {holder, NoRun} /\ holder' # s
          /\ UNCHANGED <<target, seen, awaited, baseline, changes, raced>>
      BY <1>8 DEF GateDies, Goto
    <2> HIDE DEF Typed
    <2> QED
      BY <1>2, <1>3, <2>1
  <1>9. CASE RecordChange(s)
    <2>1. /\ pc[s] = "record" /\ pc' = [pc EXCEPT ![s] = "promoted"]
          /\ baseline' = target[s] /\ holder' = NoRun
          /\ changes' = Append(changes, [from |-> seen[s], to |-> target[s], by |-> s])
          /\ raced' \subseteq Sessions \cup raced
          /\ UNCHANGED <<target, seen, awaited>>
      BY <1>9 DEF RecordChange, Goto
    <2>2. s \in Promotes /\ target[s] \in rows /\ seen[s] \in rows \cup {NoRun}
      BY <1>a, <2>1 DEF SessionsProgress, Changing, RowsKnown
    <2>3. changes' \in Seq([from : rows \cup {NoRun}, to : rows, by : Promotes])
      <3> DEFINE R == [from : rows \cup {NoRun}, to : rows, by : Promotes]
                 r == [from |-> seen[s], to |-> target[s], by |-> s]
      <3>1. r \in R /\ changes \in Seq(R)
        BY <1>a, <2>2 DEF RowsKnown
      <3>2. changes' = Append(changes, r)
        BY <2>1
      <3> HIDE DEF R, r
      <3>3. changes' \in Seq(R)
        BY <3>1, <3>2
      <3> QED
        BY <3>3 DEF R
    <2>4. RowsKnown(rows)'
      BY <1>a, <1>b, <2>1, <2>2, <2>3 DEF RowsKnown, runVars
    <2>5. pc' \in [Sessions -> Stages] /\ HolderTyped'
      BY <1>a, <2>1 DEF HolderTyped, Stages, Ended
    <2>6. SessionsProgress'
      BY <1>a, <1>b, <2>1 DEF SessionsProgress, Changing, runVars
    <2> QED
      BY <2>4, <2>5, <2>6
  <1> QED
    BY <1>1, <1>4, <1>5, <1>6, <1>7, <1>8, <1>9 DEF GateStep

(***************************************************************************)
(* Every reachable state is typed: in particular what gates, report files  *)
(* and eval.baseline_changes name are runs with a row, whose results are   *)
(* those of every item they selected, and who has uncommitted changes of   *)
(* is_baseline is between its first UPDATE and its commit.                 *)
(***************************************************************************)
THEOREM EvalTyped == Spec => []TypeOK
  <1>1. Init => SessionInv
    BY EvalConstants DEF Init, SessionInv, TypeOK, SessionsProgress, Changing, Ended, Tiers
  <1>2. SessionInv /\ [Next]_vars => SessionInv'
    <2> SUFFICES ASSUME SessionInv, [Next]_vars PROVE SessionInv'
      OBVIOUS
    <2>1. CASE RunStep
      BY <2>1, RunKeepsSessions
    <2>2. ASSUME NEW s \in Sessions, GateStep(s) PROVE SessionInv'
      BY <2>2, GateKeepsSessions
    <2>3. CASE UNCHANGED vars
      BY <2>3 DEF vars, runVars, gateVars, SessionInv, TypeOK, SessionsProgress
    <2> QED
      BY <2>1, <2>2, <2>3, StepsSplit
  <1>3. SessionInv => TypeOK
    BY DEF SessionInv
  <1> QED
    BY <1>1, <1>2, <1>3, PTL DEF Spec
=============================================================================
