CONSTANTS
    Requests = {r1, r2, r3}
    Keys = {k1}
    Bodies = {b1, b2}
    TTL = 2
    Faults = TRUE
    MaxRuns = 3
    MaxTime = 3
SPECIFICATION Spec
SYMMETRY Slots
INVARIANTS ReplayedAnswerIsOwn RerunsHaveACause
PROPERTIES SavedAnswerStands SavedKeyIsNotRerun
