CONSTANTS
    Users = {root, ann}
    Admins = {root}
    Requests = {r1, r2}
    Workload = {"login", "refresh", "activate", "deactivate", "update", "delete", "impersonate", "roles"}
    RefreshTTL = 2
    AccessTTL = 1
    Retention = 0
    Faults = TRUE
    MaxVersion = 0
    MaxSessions = 2
    MaxTime = 0
SPECIFICATION Spec
CONSTRAINT OneKindOfChange
SYMMETRY Slots
INVARIANTS GoneMeansSignedOut RolesTrackTokens
