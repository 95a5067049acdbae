SPECIFICATION FairSpec
CONSTANTS
    n1 = n1
    n2 = n2
    n3 = n3
    Node = {n1, n2}
    Seeds <- FullMesh2
    Key = {k1}
    MaxStamp = 1
    MaxUpdates = 2
    MaxStarts = 2
    MaxStops = 0
    MaxLosses = 0
CHECK_DEADLOCK FALSE
PROPERTIES
    TiesResolved
