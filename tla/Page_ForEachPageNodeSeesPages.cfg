CONSTANTS
    MaxPgId = 9
    NONE = NONE
INIT Init
NEXT Next
INVARIANT
    ForEachPageNodeSeesPages
CHECK_DEADLOCK FALSE
