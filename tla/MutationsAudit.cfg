SPECIFICATION Spec
CONSTANTS
    Mutations = {"leave", "note"}
    NeedsApproval = {"leave"}
    Days <- TakesDays
    Seed = 4
    Deciders <- People
    Target <- OnLeave
    Decision <- Votes
    Permitted = {"siti", "siti_again", "rina", "budi"}
    Actors = {"budi"}
    MaxDisruptions = 0
INVARIANT AuditComplete
CHECK_DEADLOCK FALSE
