CONSTANTS
    MaxPgId = 9
    NONE = NONE
INIT Init
NEXT Next
INVARIANTS
    TypeOK
    PageInfoAgrees
    ParentLinks
CHECK_DEADLOCK FALSE
