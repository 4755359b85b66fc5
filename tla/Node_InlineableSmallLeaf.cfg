CONSTANTS
    Keys <- MCKeys
    ValLens <- MCValLens
    PageSize <- MCPageSize
    Pages <- MCPages
    NONE = NONE
SPECIFICATION Spec
INVARIANT InlineableSmallLeaf
