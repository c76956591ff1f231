CONSTANTS
    a = a
    b = b
    c = c
    KeySize <- MCKeySize2
    EntrySize = 2
    FreqMax = 2
    IntMin <- MCIntMin
    IntMax = 1
    TicksPerMs = 1
    MsPerSecond = 1
    TimeHalf = 6
    Never = Never
    NotInteger = NotInteger
    Options <- MCExactOptions
    Texts <- MCTexts
    Ttls = {1, 4}
    Conditions = {"kNone", "kIfAbsent", "kIfPresent"}
    Samples = 1
    MaxNow = 3
    MaxCalls = 3
SPECIFICATION Spec
PROPERTIES AcceptedSetIsReadable
