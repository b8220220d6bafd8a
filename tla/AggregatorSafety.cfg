CONSTANTS
    MaxTs = 3
    MaxRaises = 2
SPECIFICATION FairSpec
INVARIANTS
    SecondsOnce
    SecondsTogether
PROPERTY
    EndReturns
CHECK_DEADLOCK FALSE
