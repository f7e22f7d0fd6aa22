\* A node-local tier with room for one document of two: the pass-level verdict.
SPECIFICATION Spec
CONSTANTS
    NDocs = 2
    Chunks = 1
    Backends <- MCLocal
    Fleets <- MCOff
    Capacity = 1
    MaxEvents = 1
CHECK_DEADLOCK FALSE
INVARIANT YesIsTrue
