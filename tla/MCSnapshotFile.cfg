CONSTANTS
    Keys = {k1, k2}
    Values = {v1}
    Lives = {1, 3}
    MaxSaves = 2
    MaxFaults = 1
    MaxLosses = 1
SPECIFICATION SnapshotSpec
INVARIANTS AtomicReplacement
