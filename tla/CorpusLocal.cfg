\* A node-local tier that holds one of the two documents, on one node and
\* across two.  MaxEvents = 2: the harness may be started a second time.
SPECIFICATION Spec
CONSTANTS
    NDocs = 2
    Chunks = 1
    Backends <- MCLocal
    Fleets <- MCEither
    Capacity = 1
    MaxEvents = 2
CHECK_DEADLOCK FALSE
INVARIANTS
    PassYesNeedsHit
    LocalTierStaysLocal
    ZeroMeansNone
PROPERTIES
    EveryRunEnds
