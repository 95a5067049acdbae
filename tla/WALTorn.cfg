SPECIFICATION Spec
CONSTANTS
    Entry = {1, 2}
    BatchBufferSize = 1
    MaxFailures = 0
    MaxTruncations = 0
    MaxCrashes = 1
CHECK_DEADLOCK FALSE
INVARIANTS
    AckedReadable
