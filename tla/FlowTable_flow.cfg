CONSTANTS
    Shards = {"s1", "s2"}
    Keys = {"t", "x", "u", "v"}
    ShardOf <- MCShardOf
    TcpKeys = {"t", "x"}
    SourcePrefixes = {"p", "q"}
    PrefixOf <- MCPrefixOf
    Traffic <- MCTraffic
    Gens = {1, 2}
    MaxFlows = 2
    MaxPerPrefix = 1
    TcpTimeout = 1
    UdpTimeout = 2
    TombstoneTtl = 2
    TombstoneMax = 1
    CompactMin = 1
    CompactSlack = 0
    MaxOrder = 3
SPECIFICATION Spec
INVARIANTS
    TablesConsistent
    OneTimerPerFlow
    TombstonesExpire
PROPERTIES
    TombstonesLast
    ImplementsContract
    IdleFlowsExpire
CHECK_DEADLOCK FALSE
