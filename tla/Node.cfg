CONSTANTS
    Keys <- MCKeys
    ValLens <- MCValLens
    PageSize <- MCPageSize
    Pages <- MCPages
    NONE = NONE
SPECIFICATION Spec
INVARIANTS TypeOK Sorted SizeLessThanAgrees SplitIndexCorrect
PROPERTY ImplementsLeafMap
