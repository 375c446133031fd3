\* The refinement, and the invariants its proof rests on; b is a symbolic link,
\* which two runs over a still tree tell from a file.
SPECIFICATION ViewSpec
CONSTANTS
    Paths = {a, b}
    NoPath = NoPath
    Links = {b}
    MaxVersion = 2
    Opaque = {2}
    RunHistory = 1
    MaxRuns = 2
    MaxAborts = 1
INVARIANTS
    RerunIsIdle
    ProofInv
PROPERTIES
    ImplementsSearchView
