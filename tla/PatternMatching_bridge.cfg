SPECIFICATION Spec
CONSTANTS
    O1 = O1
    O2 = O2
    Ops <- MCOps
    StreamOf <- MCStreamOf
    Scenarios <- MeetingScenarios
    Ids <- MCIds
    Existing <- MCExisting
    QueueCap = 1
    OverlapLimit = 1
    MaxPerPattern = 1
    MaxPerRecord = 2
INVARIANT MessagesApart
CHECK_DEADLOCK FALSE
