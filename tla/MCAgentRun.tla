----------------------------- MODULE MCAgentRun -----------------------------
(* A deployment with three of the tools of config/tools, and a model that also  *)
(* calls a tool that does not exist.  Three requests: an agent that may mutate  *)
(* and a text with personal data, a read-only request to an agent with all      *)
(* tools, and a user without employee id.                                       *)
EXTENDS AgentRun, TLC

Entry(kind, faq, permissions, cacheable, scope) ==
    [kind |-> kind, faq |-> faq, permissions |-> permissions, cacheable |-> cacheable,
     scope |-> scope]

DemoManifest ==
    "get_leave_balance" :> Entry("readonly", FALSE, {"leave.balance.read"}, FALSE, "self")
 @@ "submit_leave_request" :> Entry("mutation", FALSE, {"leave.request.create"}, FALSE, "self")
 @@ "search_public_faq" :> Entry("readonly", TRUE, {}, TRUE, "none")

Employee == {"leave.balance.read", "leave.request.create"}

Agent(tools, cacheable, described) ==
    [allowed_tools |-> tools, cacheable |-> cacheable, described |-> described]

Request(agent, mutate, text) ==
    [agent |-> agent, permissions |-> Employee, employee_id |-> "e1", team |-> {},
     allow_mutations |-> mutate, text |-> text]

DemoRequests ==
    {Request(Agent({"get_leave_balance", "submit_leave_request"}, TRUE, TRUE), TRUE,
             {"question", "own_pii"}),
     Request(Agent(Tools, TRUE, FALSE), FALSE, {"question"}),
     [Request(Agent({"get_leave_balance", "search_public_faq"}, FALSE, FALSE), TRUE, {"question"})
        EXCEPT !.employee_id = "nobody"]}
=============================================================================
