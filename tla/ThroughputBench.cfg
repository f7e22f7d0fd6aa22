SPECIFICATION Spec
CONSTANTS
    Tools <- MCTools
    NumKeys = 3
    NumWorkers = 2
    Loops = 2
    Reps = 3
    MaxFailures = 2
CHECK_DEADLOCK FALSE
INVARIANTS
    TypeOK
    QuietBetweenPasses
    PairedAndCounterbalanced
    NoFalseAlarm
PROPERTIES
    MissIsNotThroughput
    VerifiedIsFetched
    EveryBenchEnds
