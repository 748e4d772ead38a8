CONSTANTS
    Null = Null
    Workers = {w1, w2}
    Callers = {c1}
    Address = ip
    Limit = 1
    AddressLimit = 2
    Window = 2
    MaxCalls = 3
    MaxTime = 3
    Roles = {"api_user", "viewer"}
    MaxOps = 3
    Attempts = 2
    AddressAttempts = 3
    MaxRequests = 3
SPECIFICATION Spec
INVARIANTS TypeOK DecisionsKept LockEarned NeverOvercounts LimitKept
PROPERTIES CallsByRight
SYMMETRY Symmetry
VIEW ButLog
CHECK_DEADLOCK FALSE
