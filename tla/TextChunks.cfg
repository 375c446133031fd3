\* Every file of a few bytes, and every line of a few words, through every step.
SPECIFICATION TextSpec
CONSTANTS
    Files <- MCFiles
    MaxLength = 6
    MaxTyped = 3
    MaxWords = 5
    WordSizes = {1, 2, 3}
    TextSniffBytes = 2
    TargetTokens = {0, 3, 4}
    OverlapTokens = {0, 1, 9}
CHECK_DEADLOCK FALSE
INVARIANTS
    EveryWordChunked
    NeighboursTogether
    WindowsMoveOn
    ChunksInOrder
    OffsetsLocateText
    EveryByteChunked
    ChunksFitTarget
