SPECIFICATION Spec
CONSTANTS
    s1 = s1
    s2 = s2
    s3 = s3
    s4 = s4
    s5 = s5
    Server <- MCServer
    Host <- MCHost
    DenyList <- MCDenyList
    AllowList <- MCAllowList
    Responses <- MCResponses
    BlockPrivateIPs = TRUE
    RequireWellKnown = FALSE
    RequireValidTLS = FALSE
    RequireNotarySignatures = 0
    MaxKeyAge = 8
    Day = 2
    Hour = 1
    Year = 8
    RapidRotations = 1
    RapidWindow = 3
    LogKeyChanges = TRUE
    LogAnomalies = TRUE
    Nanos = {1}
    MaxQueries = 3
    MaxFaults = 1
    MaxRestarts = 1
    MaxCleanups = 1
INVARIANTS
    BreaksAreLostAnswers
    TreeIsLog
    InclusionProvable
    HistoryIsLogged
    NoFalseAlarm
    MostActiveIsTop
SYMMETRY Symmetry
CHECK_DEADLOCK FALSE
