SPECIFICATION FairSpec
CONSTANTS
    n1 = n1
    n2 = n2
    n3 = n3
    Node = {n1, n2}
    Seeds <- FullMesh2
    Key = {k1}
    MaxStamp = 2
    MaxUpdates = 2
    MaxStarts = 3
    MaxStops = 1
    MaxLosses = 1
CONSTRAINT NotExcused
CHECK_DEADLOCK FALSE
INVARIANTS
    NothingForgotten
PROPERTIES
    StampsNeverGoBack
    Convergence
