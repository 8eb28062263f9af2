CONSTANTS
    Users = {u1}
    RefreshTTL = 3
    Retention = 1
    MaxSessions = 0
    MaxTime = 0
    Requests = {r1, r2}
    ResetTTL = 1
    Workload = {}
    Faults = FALSE
    MaxTokens = 1
    MaxResets = 2
SPECIFICATION Spec
INVARIANTS TokenIsSingleUse
CHECK_DEADLOCK FALSE
