\* Two connections are enough for one to get the descriptor of the other while a
\* worker still executes for the first; a limit of one turns clients away, a limit of
\* two has both at once.  Two workers and two tasks, so that one task is queued
\* while the other is run.
CONSTANTS
    Threads = {w1, w2}
    MaxTasks = 2
    Listen = 0
    Limits = {1, 2}
    MaxConnections = 2
SPECIFICATION FairSpecServer
INVARIANTS NoLostWakeup TasksInOrder TablesAgree EventsAreLive
PROPERTIES EveryTaskRuns ClosedIsDestroyed QuitEndsServer
