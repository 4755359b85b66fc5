CONSTANTS
    Keys <- MCKeys
    Vals = {v1, v2}
    HdrVals = {h1}
    InlineVals = {i1}
    HdrKeys = {2}
    BigKey = BigKey
    BigVal = BigVal
    MaxSeq = 2
    NONE = NONE
    ABSENT = ABSENT
SPECIFICATION Spec
PROPERTIES
    BucketOpensInlineChild
