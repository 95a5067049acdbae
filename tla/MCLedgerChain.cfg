SPECIFICATION Spec
CONSTANTS
    s1 = s1
    s2 = s2
    s3 = s3
    s4 = s4
    s5 = s5
    Server <- MCServer
    Host <- MCHost
    DenyList <- MCDenyList
    AllowList <- MCAllowList
    Responses <- MCResponses
    BlockPrivateIPs = TRUE
    RequireWellKnown = FALSE
    RequireValidTLS = FALSE
    RequireNotarySignatures = 0
    MaxKeyAge = 8
    Day = 2
    Hour = 1
    Year = 8
    RapidRotations = 1
    RapidWindow = 3
    LogKeyChanges = TRUE
    LogAnomalies = TRUE
    Nanos = {0, 1}
    MaxQueries = 3
    MaxFaults = 0
    MaxRestarts = 0
    MaxCleanups = 0
INVARIANT ChainVerifies
SYMMETRY Symmetry
CHECK_DEADLOCK FALSE
