SPECIFICATION Spec
CONSTANTS
    Byte = {0, 1}
    MaxPattern = 3
    MaxFed = 5
    PatternLists <- MCPatternLists
INVARIANTS
    AutomatonIsCorrect
    StateIsLongestSuffix
    NothingLostOrRepeated
    BatchIsSortedOccurrences
PROPERTY
    FirstSliceIsBatch
