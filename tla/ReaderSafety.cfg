CONSTANTS
    a = a
    b = b
    Readers <- MCReaders
    Newlines = {1, 3}
    Size = 4
    CacheSize = 3
    MaxIdle = 1
    Waits = TRUE
SPECIFICATION FairPhoutSpec
INVARIANT ReadsWhole
PROPERTY ReadersEnd
CHECK_DEADLOCK FALSE
