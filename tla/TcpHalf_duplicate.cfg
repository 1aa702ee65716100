CONSTANTS
    SeqSpace = 32
    Isn = 61
    StreamLen = 3
    MaxSegment = 2
    Versions = {1}
    Duplicates = TRUE
    Fins = {}
    MaxOoo = 3
    MaxOooSegments = 2
    GapTimeout = 2
    MaxTs = 3
SPECIFICATION Spec
INVARIANTS
    StreamOffsetsExact
CHECK_DEADLOCK FALSE
