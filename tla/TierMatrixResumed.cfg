\* The session is interrupted and started again with another stage.
SPECIFICATION Spec
CONSTANTS
    Tiers <- MCOneTier
    Stages <- MCResumed
    MaxSessions = 2
    MaxFailures = 0
CHECK_DEADLOCK FALSE
INVARIANT ColdIsCold
