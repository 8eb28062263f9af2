CONSTANTS
    Requests = {q1, q2, q3}
    Cap = 1
SPECIFICATION FairSpec
INVARIANTS RecordNeverPanics CleanExitIsComplete
PROPERTIES ShutdownEnds AcceptedEntriesAreTried
CHECK_DEADLOCK FALSE
