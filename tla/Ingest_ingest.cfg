CONSTANTS
    Workers = {"w"}
    Operators = {"o1", "o2"}
    Ports = {80, 81}
    Frames <- MCFrames
    Excluded <- MCExcluded
    Datagrams <- MCDatagrams
    Decap = TRUE
    MaxDepth = 1
    QueueCapacity = 1
    MaxSources = 1
    SourceTtl = 1
    InitPorts = {80}
    MaxRequests = 2
    MaxInputs = 3
    MaxDatagram = 3
    MaxBytes = 7
    MaxDatagrams = 1
    DatagramOverhead = 2
    PieceOverhead = 1
    FragmentTimeout = 1
    CleanupInterval = 1
SPECIFICATION Spec
INVARIANTS
    NoBlindSpot
    RegistryFollowsDatabase
    KeysSymmetric
    FragmentsSound
    TopologyConserved
PROPERTY ServicesGetSeen
CHECK_DEADLOCK FALSE
