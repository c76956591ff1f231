CONSTANTS
    a = a
    b = b
    c = c
    KeySize <- MCKeySize3
    EntrySize = 2
    FreqMax = 2
    IntMin <- MCIntMin
    IntMax = 1
    TicksPerMs = 2
    MsPerSecond = 1
    TimeHalf = 100
    Never = Never
    NotInteger = NotInteger
    Options <- MCOptions
    Texts <- MCTexts
    Ttls = {1}
    Conditions = {"kNone", "kIfAbsent", "kIfPresent"}
    Samples = 1
    MaxNow = 3
    MaxCalls = 3
SPECIFICATION Spec
INVARIANTS MemoryAccounting MemoryBounded
PROPERTIES RefusedWriteKeepsData ImplementsContract
SYMMETRY Symmetry
