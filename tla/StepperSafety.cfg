CONSTANTS
    Runs <- MCRuns
    Attempts = 1
    MostMissiles = 30
    Options <- MCOptions
    Keys <- MCKeys
    Texts <- MCTexts
    ChunkSize = 2
    Sizes <- MCSizes
SPECIFICATION FairStepper
INVARIANTS
    ReadyIsWhole
    FreshAmmo
    PlanGivesLoad
    StreamIsFile
PROPERTIES
    PrepareEnds
CHECK_DEADLOCK FALSE
