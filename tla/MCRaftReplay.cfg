SPECIFICATION CrashSpec
CONSTANTS
    Node = {n1, n2, n3}
    Nobody = Nobody
    MaxTerm = 1
    MaxSubmits = 2
    MaxInFlight = 1
    MaxApplies = 0
    MaxAcks = 0
    MaxFailures = 0
    MaxCompactions = 0
    MaxRestarts = 1
SYMMETRY Symmetry
CHECK_DEADLOCK FALSE
INVARIANTS
    LogIndexInvariant
