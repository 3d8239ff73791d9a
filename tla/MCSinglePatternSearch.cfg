SPECIFICATION BothSpec
CONSTANTS
    Byte = {0, 1, 2}
    Base = 4
    Modulus = 7
    MaxPattern = 3
    MaxFed = 6
    Patterns <- MCPatterns
INVARIANTS
    RkWindowIsLastBytes
    AlgorithmsAgree
PROPERTY
    RkImplementsOccurrences
