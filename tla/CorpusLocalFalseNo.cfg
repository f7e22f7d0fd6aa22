\* What the pass-level line says of a counter that cannot be read.
SPECIFICATION Spec
CONSTANTS
    NDocs = 2
    Chunks = 1
    Backends <- MCLocal
    Fleets <- MCOff
    Capacity = 1
    MaxEvents = 1
CHECK_DEADLOCK FALSE
INVARIANT NoFalseNo
