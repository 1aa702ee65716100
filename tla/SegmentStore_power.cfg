CONSTANTS
    Records = {1, 2}
    Cutoffs = {2}
    Capacity = 2
    MaxBytes = 2
    StoreMaxBytes = 5
    PendingMax = 2
    MaxSeals = 2
    MaxStarts = 2
    Faults = {"power", "meta"}
    Disconnects = TRUE
SPECIFICATION Spec
INVARIANT ClosedSegmentsReadable
PROPERTIES
    AcceptedIsIndexed
    SealAnswered
CHECK_DEADLOCK FALSE
