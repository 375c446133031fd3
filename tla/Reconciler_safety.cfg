\* Three runs over two files, one of which may die; paths are interchangeable.
SPECIFICATION Spec
CONSTANTS
    Paths = {a, b}
    NoPath = NoPath
    Links = {}
    MaxVersion = 2
    Opaque = {}
    RunHistory = 1
    MaxRuns = 3
    MaxAborts = 1
SYMMETRY Symmetry
INVARIANTS
    IndexedIsFresh
    OneVersionSearchable
    HitsHaveRows
    SettledIsExact
    ReconciledRunOnRecord
PROPERTIES
    IndexedAfterChunks
    DryRunWritesNothing
