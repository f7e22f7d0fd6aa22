\* The total of the pass-level deltas.
SPECIFICATION Spec
CONSTANTS
    NDocs = 2
    Chunks = 1
    Backends <- MCLocal
    Fleets <- MCOff
    Capacity = 1
    MaxEvents = 1
CHECK_DEADLOCK FALSE
INVARIANT TotalIsMovement
