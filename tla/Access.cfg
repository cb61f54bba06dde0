\* Two runs, two flips, one edit of the seed file, one fault.
SPECIFICATION Spec
CONSTANTS
    Users = {"u"}
    EvalUsers = {"u"}
    ToolKeys = {"mutation", "query"}
    AgentKeys = {"agent"}
    Scoped = {"mutation"}
    Processes = {"p"}
    Runs = {"r1", "r2"}
    ByEval = {"r2"}
    UserOf <- MCUserOf
    ToolOf <- MCToolOf
    AgentOf <- MCAgentOf
    ProcessOf <- MCProcessOf
    Flips = {"f1", "f2"}
    Plans <- MCPlans
    CACHE_TTL = 2
    LOGIN_TTL = 2
    EXCHANGE_TTL = 1
    MaxClock = 2
    MaxMishaps = 1
INVARIANTS TypeOK LastCleanFlipWins
PROPERTIES KillTakesEffect TokensAreBrief
CHECK_DEADLOCK FALSE
