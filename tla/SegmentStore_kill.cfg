CONSTANTS
    Records = {1, 2}
    Cutoffs = {2}
    Capacity = 2
    MaxBytes = 3
    StoreMaxBytes = 12
    PendingMax = 2
    MaxSeals = 2
    MaxStarts = 3
    Faults = {"kill", "meta"}
    Disconnects = FALSE
SPECIFICATION Spec
INVARIANTS
    ReplaySegmentsPresent
    SnapshotExact
    NoRowWithoutPayload
    ClosedSegmentsIndexed
CHECK_DEADLOCK FALSE
