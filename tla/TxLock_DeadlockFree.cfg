CONSTANTS
    t1 = t1
    t2 = t2
    t3 = t3
    a1 = a1
    a2 = a2
    a3 = a3
    a4 = a4
    Threads <- MCThreads2
    Arenas <- MCArenas4
    MaxOpen = 2
    WriterPreferring = TRUE
    NONE = NONE
SYMMETRY MCSymmetry2
SPECIFICATION Spec
INVARIANT DeadlockFree
