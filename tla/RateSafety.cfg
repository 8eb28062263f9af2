CONSTANTS
    Requests = {r1, r2}
    IPs = {ip1}
    Users = {}
    Anonymous = Anonymous
    Capacity <- MCCapacity
    RefillTokens <- MCRefillTokens
    RefillPeriod <- MCRefillPeriod
    TicksPerSecond = 2
    Paths = {"default", "auth", "outside"}
    MaxTime = 4
SPECIFICATION Spec
SYMMETRY Slots
INVARIANTS RateBound RetryAfterExact
