SPECIFICATION OvertakingSpec
CONSTANTS
    Node = {n1, n2, n3}
    Nobody = Nobody
    MaxTerm = 2
    MaxSubmits = 2
    MaxInFlight = 2
    MaxApplies = 0
    MaxAcks = 0
    MaxFailures = 0
    MaxCompactions = 0
    MaxRestarts = 0
CONSTRAINT FirstTermOvertakes
SYMMETRY Symmetry
CHECK_DEADLOCK FALSE
INVARIANTS
    ElectionSafety
    LogMatching
    CommittedAgree
    LeaderCompleteness
    MatchIndexSound
PROPERTIES
    CommitIndexMonotonic
    MatchIndexMonotonic
