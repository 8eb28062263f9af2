CONSTANTS
    Tasks = {t1, t2, t3, t4}
    Workers = {w1, w2}
    QueueSizes = {0, 1, 2}
    NoTask = NoTask
SPECIFICATION PoolFairSpec
INVARIANTS OneHomePerTask StopLosesOnlyTheLast
PROPERTIES QueuedTasksRun StopCompletes
CHECK_DEADLOCK FALSE
