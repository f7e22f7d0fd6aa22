SPECIFICATION Spec
CONSTANTS
    Commands <- MCCommands
    Replies <- MCReplies
    FirstReplies <- MCFirstReplies
    MoreReplies <- MCMoreReplies
    Drifts <- MCDrifts
    NoiseDeltas <- MCNoiseDeltas
    MaxContinuations = 4
    MaxBuilds = 2
    MaxShares = 15
CHECK_DEADLOCK FALSE
INVARIANTS
    TypeOK
    MetadataDescribesDisk
    LengthIsExplained
    AllocationIsProportional
    FailureIsEarned
PROPERTIES
    ImplementsSealedCorpus
    EveryBuildEnds
