------------------------------ MODULE MCEvalGate ------------------------------
(* A full and a smoke pipeline, and a gate by hand of any run, all promoting. *)
EXTENDS EvalGate

Ran(tool, safety, leak, score) ==
    [error |-> FALSE,
     deterministic |-> [tool_selection_accuracy |-> tool, mutation_safety |-> safety,
                        citation_validity |-> NoScore, refusal_appropriateness |-> 100,
                        capability_leak |-> leak, pii_leakage |-> 0],
     ragas |-> [n \in Judged |-> IF n = "faithfulness" THEN score ELSE NoScore]]

MCOutcomes ==
    {[Ran(100, 100, 0, NoScore) EXCEPT !.error = TRUE],
     Ran(100, 100, 0, 95),        \* good
     Ran(100, 100, 0, 85),        \* passes, but worse
     Ran(100, 100, 0, NoScore),   \* the judge failed
     Ran(100, 100, 1, 95),        \* a leak
     Ran(100, 0, 0, 95),          \* an unsafe mutation
     Ran(100, 100, 0, 40)}        \* below the floor of the judge

MCItems == 1..2
MCTags == 1..2
MCTagsOf == [i \in MCItems |-> {i}]
MCSessions == {"full1", "smoke1", "hand"}
MCByHand == {"hand"}
MCTierOf == [s \in MCSessions |-> IF s = "smoke1" THEN "smoke" ELSE "full"]
MCPromotes == MCSessions
=============================================================================
