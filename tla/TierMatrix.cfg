SPECIFICATION Spec
CONSTANTS
    Tiers <- MCTiers
    Stages <- MCStages
    MaxSessions = 2
    MaxFailures = 1
CHECK_DEADLOCK FALSE
INVARIANTS
    TypeOK
    ColdPassIsCold
    FleetReusesThisRun
    MeasuresItsTier
    OneEngine
    FetchedIsThisRun
PROPERTIES
    RunnerReturns
