CONSTANTS
    Threads <- MCThreads
    Options <- MCOptions
    Targets <- MCTargets
    NetworkAttempts = 2
    ApiAttempts = 1
    MaintenanceAttempts = 1
SPECIFICATION FairSpec
INVARIANTS
    PushedInOrder
    QuietRunUploadsAll
    CleanedUp
PROPERTIES
    NothingAfterClose
    TankEnds
CHECK_DEADLOCK FALSE
