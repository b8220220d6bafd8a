CONSTANTS
    Options <- MCOptions
    Chunk = 3
SPECIFICATION FairSpec
INVARIANTS
    InfoAddsUp
    ReadsThisWhole
    StatsOnce
    FailureIsTold
PROPERTIES
    TestEnds
CHECK_DEADLOCK FALSE
