SPECIFICATION Spec
CONSTANTS
    Patterns = {p1, p2}
    Disabled = {}
    SegmentOf <- MCSegmentOf
    Sealed = 2
    Workers <- MCWorkers
    MaxLives = 2
    MaxFaults = 1
INVARIANT CheckpointDurable
PROPERTY BackfillHappens
CHECK_DEADLOCK FALSE
