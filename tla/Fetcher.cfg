SPECIFICATION BusySpec
CONSTANTS
    Server = {s1}
    FailureThreshold = 2
    ResetTimeout = 1
    HalfOpenMax = 1
    ServerTTL = 3
    MaxTracked = 1
    Caller = {c1, c2}
    Slots = 1
    RetryAttempts = 2
    Fallbacks = 1
    Pinned = {1}
    MaxOutages = 2
    MaxCancels = 2
CHECK_DEADLOCK FALSE
INVARIANTS
    ProbesBounded
PROPERTIES
    TripsEarned
    FetchReturns
    Recovers
