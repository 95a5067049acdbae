SPECIFICATION ResolverFairSpec
CONSTANTS
    Goroutine = {c1, c2}
    Sites = {"address", "srv"}
    WellKnownTTL <- WellKnownTimes
    SRVTTL <- SRVTimes
    LookupTime = 1
    MaxMoves = 1
    MaxFailures = 1
CHECK_DEADLOCK FALSE
INVARIANTS
    ServedFresh
PROPERTIES
    FindsServer
