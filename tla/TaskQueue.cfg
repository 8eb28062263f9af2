CONSTANTS
    Procs = {p1, p2}
    NoProc = NoProc
    Resets = {m1}
    Welcomes = {w1}
    MaxRetry = 2
    MaxEnds = 2
    MaxMails = 1
SPECIFICATION FairSpec
INVARIANTS TypeOK DuplicatesHaveACause
PROPERTIES AcceptedMailIsSettled
CHECK_DEADLOCK FALSE
