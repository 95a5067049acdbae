SPECIFICATION BusySpec
CONSTANTS
    Query = {q1, q2}
    Long = {q2}
    Lifetime = 2
    CacheTTL = 1
    MaxKeyAge = 2
    MaxRotations = 1
    MaxFailures = 1
    MaxReplicas = 1
CHECK_DEADLOCK FALSE
INVARIANTS
    ExpiredNotKept
PROPERTIES
    FollowsRotation
    QueryReturns
