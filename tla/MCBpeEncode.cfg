SPECIFICATION FairSpec
CONSTANTS
    MaxRank = 2
    MaxWord = 4
    Keys <- MCKeys
    Texts <- MCTexts
    Tables <- MCTables
    Vocabularies <- MCVocabularies
INVARIANTS
    PairsAreTracked
    EncodingIsWhole
PROPERTIES
    ImplementsMerge
    EncodeReturns
CHECK_DEADLOCK FALSE
