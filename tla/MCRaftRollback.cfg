SPECIFICATION Spec
CONSTANTS
    Node = {n1, n2, n3}
    Nobody = Nobody
    MaxTerm = 1
    MaxSubmits = 2
    MaxInFlight = 1
    MaxApplies = 3
    MaxAcks = 0
    MaxFailures = 0
    MaxCompactions = 1
    MaxRestarts = 0
SYMMETRY Symmetry
CHECK_DEADLOCK FALSE
INVARIANTS
    KeysComplete
