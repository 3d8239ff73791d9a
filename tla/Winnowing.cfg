SPECIFICATION SelectSpec
CONSTANTS
    HashValues = {0, 1, 2}
    MaxHashes = 7
    Windows = {1, 2, 3, 4}
INVARIANTS
    DequeIsSuffixMinima
    SelectsRightmostMinima
CHECK_DEADLOCK FALSE
