----------------------------- MODULE MCMutations -----------------------------
(* An instance of Mutations for TLC: "leave" is a long leave that needs         *)
(* approval, "note" a short one that is executed at once.  Decisions on the     *)
(* long leave come from an approver who approves and tries again, another who   *)
(* rejects, and the requester.                                                  *)
EXTENDS Mutations

TakesDays == [m \in {"leave", "note"} |-> IF m = "leave" THEN 3 ELSE 2]
People == {"siti", "siti_again", "rina", "budi"}
OnLeave == [d \in People |-> "leave"]
Votes == [d \in People |-> IF d = "rina" THEN "reject" ELSE "approve"]
=============================================================================
