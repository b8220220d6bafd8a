CONSTANTS
    BufferSize = 1
    Aggregates <- MCAggregates
    MaxLines = 2
    Options <- MCOptions
SPECIFICATION FairSpec
INVARIANTS
    QuietKeepsAll
    SecondsWhole
    StoredAsGiven
PROPERTIES
    NothingAfterClose
    SessionEnds
CHECK_DEADLOCK FALSE
