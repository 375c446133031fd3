\* One file that vanishes while it is in hand.
SPECIFICATION Spec
CONSTANTS
    Paths = {a}
    NoPath = NoPath
    Links = {}
    MaxVersion = 2
    Opaque = {}
    RunHistory = 1
    MaxRuns = 3
    MaxAborts = 1
INVARIANTS
    DeletedIsNotSearchable
