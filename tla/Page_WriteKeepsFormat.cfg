CONSTANTS
    MaxPgId = 9
    NONE = NONE
INIT Init
NEXT Next
INVARIANT
    WriteKeepsFormat
CHECK_DEADLOCK FALSE
