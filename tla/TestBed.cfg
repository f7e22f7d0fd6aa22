SPECIFICATION Spec
CONSTANTS
    Attempts <- MCAttempts
    DefaultAZ = 1
    BenchStages <- MCBenchStages
    Stages <- MCStages
    MaxInst = 5
INVARIANTS
    TypeOK
    EnvIsOneBed
    OnlyKnownLosses
    FreshBedIsSetUp
PROPERTIES
    ScriptsReturn
