\* Two connections, at the same time on two descriptors or one after the
\* other on the same, so that an id is reused while its old session may still
\* be run; two workers; three commands per session.
\* No symmetry: some of the properties are temporal.
CONSTANTS
    SessionIds = {fd1, fd2}
    Sessions = {s1, s2}
    Workers = {w1, w2}
    MaxCommands = 3
    NoSession = NoSession
SPECIFICATION FairSpec
INVARIANTS
    SerialExecution
    NoStrandedCommand
    PipelineOrder
    StopDrains
PROPERTIES
    EveryCommandAnswered
    StopReturns
