\* The shared Valkey tier, on one node and across two.  MaxEvents = 2: a second
\* start of the harness, or a restart of Valkey.
SPECIFICATION Spec
CONSTANTS
    NDocs = 2
    Chunks = 1
    Backends <- MCShared
    Fleets <- MCEither
    Capacity = 1
    MaxEvents = 2
CHECK_DEADLOCK FALSE
INVARIANTS
    TypeOK
    YesMeansFound
    DeltaIsExact
    QuestionMeansUnread
    FlushedColdIsCold
    FleetReuseCrossesNodes
PROPERTIES
    ImplementsReuseReport
    EveryRunEnds
