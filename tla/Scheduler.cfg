CONSTANTS
    Jobs = {j1, j2, j3}
    MaxOverlap = 2
SPECIFICATION SchedulerFairSpec
INVARIANTS OneGoroutinePerJob CleanStopIsQuiet
PROPERTIES IntervalJobsRecur OneOffsEnd StopTerminates
CHECK_DEADLOCK FALSE
