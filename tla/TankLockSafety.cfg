SPECIFICATION FairSpec
CONSTANTS
    t1 = t1
    t2 = t2
    Absent = Absent
    Empty = Empty
    Tanks <- Pair
    Ignore <- OnlyT1
    Wait <- Pair
    MaxRuns = 3
    MaxLost = 2
INVARIANT LockSafe
PROPERTY WaiterServed
CHECK_DEADLOCK FALSE
