CONSTANTS
    Users = {u1}
    RefreshTTL = 3
    Retention = 1
    MaxSessions = 1
    MaxTime = 2
    Requests = {r1, r2}
    ResetTTL = 1
    Workload = {"login", "update", "activate", "deactivate", "delete"}
    Faults = TRUE
    MaxTokens = 1
    MaxResets = 2
SPECIFICATION Spec
SYMMETRY Slots
INVARIANTS ResetSignsOut
PROPERTIES DeadTokensStayDead
CHECK_DEADLOCK FALSE
