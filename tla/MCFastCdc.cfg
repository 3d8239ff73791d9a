SPECIFICATION Spec
CONSTANTS
    Byte = {0, 1}
    Width = 3
    MaxTotal = 6
    GEAR_TABLE <- MCGearTable
    Configs <- MCConfigs
INVARIANTS
    HashIsOfChunk
    ChunksTile
    CutsAreFirst
    IterFollowsStream
