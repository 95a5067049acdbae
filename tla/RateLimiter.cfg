SPECIFICATION LimiterSpec
CONSTANTS
    IP = {a, b, c}
    MaxVisitors = 2
    IdleTTL = 1
    Rate = 1
    Burst = 2
    QueryRate = 1
    QueryBurst = 1
    MaxRequests = 5
INVARIANTS
    LimiterTypeOK
    VisitorsBounded
PROPERTIES
    CleanupComplete
    CleanupForgetsNothing
CHECK_DEADLOCK FALSE
