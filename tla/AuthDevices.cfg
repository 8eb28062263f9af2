CONSTANTS
    Users = {root, ann}
    Admins = {root}
    Requests = {r1, r2}
    Workload = {"login", "refresh", "logout", "logout-all", "revoke-mine", "revoke-any", "force-logout"}
    RefreshTTL = 2
    AccessTTL = 1
    Retention = 1
    Faults = TRUE
    MaxVersion = 0
    MaxSessions = 2
    MaxTime = 3
SPECIFICATION FairSpec
INVARIANT TokensNameOwnSession
PROPERTIES SessionSpec SessionGuarantees DeadRowsArePurged
