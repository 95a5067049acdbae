SPECIFICATION CrashSpec
CONSTANTS
    Node = {n1, n2, n3}
    Nobody = Nobody
    MaxTerm = 1
    MaxSubmits = 1
    MaxInFlight = 1
    MaxApplies = 1
    MaxAcks = 1
    MaxFailures = 1
    MaxCompactions = 1
    MaxRestarts = 1
CONSTRAINT OneFault
SYMMETRY Symmetry
CHECK_DEADLOCK FALSE
INVARIANTS
    NoGapOnDisk
    MatchIndexBounded
