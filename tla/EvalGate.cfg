SPECIFICATION Spec
CONSTANTS
    Items <- MCItems
    Tags <- MCTags
    TagsOf <- MCTagsOf
    Sessions <- MCSessions
    ByHand <- MCByHand
    TierOf <- MCTierOf
    Promotes <- MCPromotes
    Outcomes <- MCOutcomes
    smoke_per_tag_quota = 0
    smoke_sample_size = 1
    MaxEdits = 1
    MaxGolden = 4
INVARIANTS TypeOK BaselineRatchets BaselineIsClean SampleKeepsQuota
CHECK_DEADLOCK FALSE
