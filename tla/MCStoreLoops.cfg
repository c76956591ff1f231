\* An empty store is not scanned, and the writes are bounded.
CONSTANTS
    a = a
    b = b
    c = c
    d = d
    KeySize <- MCKeySize
    EntrySize = 1
    FreqMax = 2
    IntMin <- MCIntMin
    IntMax = 1
    TicksPerMs = 1
    MsPerSecond = 1
    TimeHalf = 100
    Never = Never
    NotInteger = NotInteger
    Stores <- MCStores
    Values <- MCWritten
    max_samples = 2
    MaxWrites = 1
SPECIFICATION FairLoopSpec
INVARIANTS LoopIsMakeRoom ScanIsActiveExpire
PROPERTIES ExpiredAreRemoved
CHECK_DEADLOCK FALSE
