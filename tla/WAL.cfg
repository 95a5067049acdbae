SPECIFICATION FairSpec
CONSTANTS
    Entry = {1, 2, 3}
    BatchBufferSize = 1
    MaxFailures = 1
    MaxTruncations = 1
    MaxCrashes = 1
CHECK_DEADLOCK FALSE
PROPERTIES
    DurableBeforeReturn
    AppendReturns
