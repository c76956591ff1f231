CONSTANTS
    k1 = k1
    k2 = k2
    k3 = k3
    w1 = w1
    w2 = w2
    reactor = reactor
    KeySize <- MCKeySize
    EntrySize = 2
    Policy = "lru"
    FreqMax = 2
    IntMin <- MCIntMin
    IntMax = 1
    TicksPerMs = 1
    MsPerSecond = 1
    TimeHalf = 100
    Never = Never
    NotInteger = NotInteger
    Clients = {w1, w2, reactor}
    NoClient = NoClient
    ShardCount = 2
    ShardForKey <- MCShardForKey
    MaxMemory = 9
    Samples = 1
    Menu <- MCMenu
    MaxCalls = 3
    MaxNow = 2
SPECIFICATION FairSpec
INVARIANTS TransactionIsolation MSetAllOrNothing SnapshotIsConsistent TotalMemoryBounded
PROPERTIES LockIsReleased
