\* A model whose first answer is two tokens short of the target.
SPECIFICATION Spec
CONSTANTS
    Commands <- MCOneCommand
    Replies <- MCOneReply
    FirstReplies <- MCAlmost
    MoreReplies <- MCMoreReplies
    Drifts <- MCNoDrift
    NoiseDeltas <- MCNoiseDeltas
    MaxContinuations = 4
    MaxBuilds = 1
    MaxShares = 0
CHECK_DEADLOCK FALSE
INVARIANT ExactTokenCount
