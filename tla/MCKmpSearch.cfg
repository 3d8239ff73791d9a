SPECIFICATION FairSpec
CONSTANTS
    Byte = {a, b}
    MaxPattern = 5
    MaxFed = 7
    Patterns <- MCPatterns
INVARIANTS
    TypeOK
    FailureIsLongestBorder
    StateIsLongestPrefix
    LinearWork
    BatchFindsStreamed
PROPERTIES
    ImplementsOccurrences
    FeedReturns
