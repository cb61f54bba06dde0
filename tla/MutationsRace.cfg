SPECIFICATION FairSpec
CONSTANTS
    Mutations = {"leave", "note"}
    NeedsApproval = {"leave"}
    Days <- TakesDays
    Seed = 4
    Deciders <- People
    Target <- OnLeave
    Decision <- Votes
    Permitted = {"siti", "siti_again", "rina", "budi"}
    Actors = {"budi"}
    MaxDisruptions = 1
INVARIANTS TypeOK ExecutedAtMostOnce EffectNeedsApproval RowTellsTruth OverdraftNeedsRace
PROPERTIES DecidedIsFinal DecisionAnswered
CHECK_DEADLOCK FALSE
