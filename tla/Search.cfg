\* Every ranking of three chunks of two files, pages of every size.
SPECIFICATION Spec
CONSTANTS
    a = a
    b = b
    Chunks <- MCChunks
    Scores = {1, 2, 4, 9}
    Epsilon = 1
    One = 2
    Limits = {0, 1, 2, 3}
    SnippetDepth = 2
    MaxOffset = 3
INVARIANTS
    PagesTile
    DisplayKeepsOrder
    LineIsOfItsMatch
