CONSTANTS
    SeqSpace = 32
    Isn = 61
    StreamLen = 5
    MaxSegment = 2
    Versions = {1, 2}
    Duplicates = FALSE
    Fins = {2, 4}
    MaxOoo = 3
    MaxOooSegments = 2
    GapTimeout = 2
    MaxTs = 3
SPECIFICATION Spec
INVARIANTS
    StreamOffsetsExact
    FirstSeenWins
    BytesConserved
    BufferSound
CHECK_DEADLOCK FALSE
