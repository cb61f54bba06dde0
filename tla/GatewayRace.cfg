SPECIFICATION FairSpec
CONSTANTS
    Requests <- FiveRequests
    Keys = {"k1"}
    KeyOf <- OneKey
    BodyOf <- Bodies
    Async = {"j1"}
    MaxDeaths = 2
INVARIANTS TypeOK OneWorkPerKey RepliesAgree
PROPERTIES KeyCompletes
CHECK_DEADLOCK FALSE
