CONSTANTS
    Scenarios <- MCScenarios
    MaxHeader = 5
    MaxBody = 5
    MaxDecode = 3
    ResyncSuffix = 1
    PendingLimit = 2
    MaxChunk = 5
    MaxGaps = 2
SPECIFICATION Spec
INVARIANTS
    RecordsTrue
    FramingExact
    GapRecovered
CHECK_DEADLOCK FALSE
