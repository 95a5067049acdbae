SPECIFICATION OvertakingSpec
CONSTANTS
    Node = {n1, n2, n3}
    Nobody = Nobody
    MaxTerm = 1
    MaxSubmits = 2
    MaxInFlight = 2
    MaxApplies = 2
    MaxAcks = 1
    MaxFailures = 0
    MaxCompactions = 2
    MaxRestarts = 0
CONSTRAINT CompactionCases
SYMMETRY Symmetry
CHECK_DEADLOCK FALSE
INVARIANTS
    LogIndexInvariant
    MatchIndexSound
    AckedOnMajority
