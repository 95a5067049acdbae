\* Submit's comment against updateCommitIndex in the handler of a reply.
SPECIFICATION Spec
CONSTANTS
    Node = {n1, n2, n3}
    Nobody = Nobody
    MaxTerm = 1
    MaxSubmits = 2
    MaxInFlight = 1
    MaxApplies = 0
    MaxAcks = 0
    MaxFailures = 1
    MaxCompactions = 0
    MaxRestarts = 0
SYMMETRY Symmetry
CHECK_DEADLOCK FALSE
INVARIANTS CommittedIsPersisted
