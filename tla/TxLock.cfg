CONSTANTS
    t1 = t1
    t2 = t2
    t3 = t3
    a1 = a1
    a2 = a2
    a3 = a3
    a4 = a4
    Threads <- MCThreads3
    Arenas <- MCArenas3
    MaxOpen = 1
    WriterPreferring = TRUE
    NONE = NONE

SPECIFICATION FairSpec
INVARIANTS TypeOK ArenaAccounting
PROPERTY WriterEventuallyLocks
