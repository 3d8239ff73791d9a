CONSTANTS
    Text <- Cube
    Distance <- Hamming
    Corpora <- SomeCorpora
    Items <- SomeItems
    Queries <- SomeQueries
    Radii = {0, 1, 2}
    Ks = {0, 1, 2}
    MaxStored = 5
    Modulus = 8
SPECIFICATION BothSpec
INVARIANTS
    BulkIsBalanced
PROPERTIES
    VpImplementsIndex
    BkImplementsIndex
    CallsReturn
