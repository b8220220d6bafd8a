CONSTANTS
    N = 3
    MaxTs = 3
    MaxChunks = 2
    InOrder = TRUE
    Failing = TRUE
SPECIFICATION FairSpec
INVARIANT RowsWhole
PROPERTIES
    EverythingGiven
    Implements
CHECK_DEADLOCK FALSE
