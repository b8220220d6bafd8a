CONSTANTS
    w1 = w1
    w2 = w2
    Workers <- MCWorkers
    QueueSize = 1
    ResultsSize = 1
    Attempts = 2
    Options <- MCOptions
    Greenlets = 1
SPECIFICATION FairSpec
INVARIANT AccountsAddUp
PROPERTY PoolEnds
CHECK_DEADLOCK FALSE
