CONSTANTS
    Workers = {w1, w2}
    Policies = {"always", "everysec", "no"}
    MaxMutations = 2
    MaxFaults = 1
    MaxRestarts = 2
SPECIFICATION FairSpec
INVARIANTS OnlyTailTorn AckedOrderKept StopLosesNothing AckedSurvives
PROPERTIES EveryAppendReturns WrittenIsSynced
