------------------------------- MODULE MCAccess -------------------------------
(***************************************************************************)
(* Instance for TLC: two runs of one process and one agent, one of a       *)
(* mutation and one of a tool without scopes, so that they share the       *)
(* agent's cache entry; two flips.                                         *)
(***************************************************************************)
EXTENDS Access, TLC

MCUserOf == [r \in Runs |-> CHOOSE u \in Users : TRUE]
MCProcessOf == [r \in Runs |-> CHOOSE p \in Processes : TRUE]
MCAgentOf == [r \in Runs |-> CHOOSE k \in AgentKeys : TRUE]
MCToolOf == [r \in Runs |-> IF r = "r1" THEN "mutation" ELSE "query"]

Flip(k, d, p) == [key |-> k, disabled |-> d, permitted |-> p]
\* A tool is disabled and enabled again, at once or in turn; or an agent is disabled, and
\* somebody without the permission tries to disable a tool.
MCPlans == {[f \in Flips |-> Flip("mutation", f = "f1", TRUE)],
            [f \in Flips |-> IF f = "f1" THEN Flip("agent", TRUE, TRUE)
                                         ELSE Flip("query", TRUE, FALSE)]}
=============================================================================
