SPECIFICATION Spec
CONSTANTS
    Sender = {s1, s2}
    Index <- MCIndex
    TermOf <- MCTermOf
    File <- MCFile
    Chunk <- MCChunk
    MaxSize = 2
    MaxTerm = 1
    MaxRequests = 3
    MaxFailures = 1
    MaxRestarts = 1
SYMMETRY Symmetry
CHECK_DEADLOCK FALSE
INVARIANTS
    TypeOK
    SnapshotWhole
    MatchedIsInstalled
    SpillIsOpen
