SPECIFICATION SliceSpec
CONSTANTS
    Byte = {0, 1}
    MaxPattern = 3
    MaxFed = 4
    PatternLists <- MCNonEmptyLists
INVARIANT
    SplitInvariance
