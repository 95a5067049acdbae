SPECIFICATION Spec
CONSTANTS
    Node = {n1, n2, n3}
    Nobody = Nobody
    MaxTerm = 2
    MaxSubmits = 2
    MaxInFlight = 1
    MaxApplies = 0
    MaxAcks = 0
    MaxFailures = 1
    MaxCompactions = 0
    MaxRestarts = 0
SYMMETRY Symmetry
CHECK_DEADLOCK FALSE
PROPERTIES
    FailedSubmitRemovesItsOwn
