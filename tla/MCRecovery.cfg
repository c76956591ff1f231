CONSTANTS
    k = k
    KeySize <- MCKeySize
    EntrySize = 2
    FreqMax = 9
    IntMin <- MCIntMin
    IntMax = 9
    TicksPerMs = 1
    MsPerSecond = 1
    TimeHalf = 100
    Never = Never
    NotInteger = NotInteger
    Workers = {w1, w2}
    Commands <- MCCommands
    MaxMemory = 20
    Policy = "noeviction"
    MaxNow = 3
    MaxCommands = 3
SPECIFICATION Spec
INVARIANTS OwnLogIsAccepted
