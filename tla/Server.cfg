SPECIFICATION FairSpec
CONSTANTS
    Proc = {p1, p2}
    Migrations = 2
    ProbeEvery = 1
    Predrain = 2
    DrainTimeout = 1
    MaxSignals = 1
    MaxCrashes = 1
    MaxFailures = 1
    MaxReconfigs = 1
INVARIANTS
    SchemaInOrder
    IdentityKept
    NoRequestRefused
    NoRequestAborted
PROPERTIES
    ShutdownCompletes
    AllServe
