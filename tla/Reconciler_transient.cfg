\* One file that can be unreadable once.
SPECIFICATION Spec
CONSTANTS
    Paths = {a}
    NoPath = NoPath
    Links = {}
    MaxVersion = 2
    Opaque = {}
    RunHistory = 1
    MaxRuns = 3
    MaxAborts = 1
INVARIANTS
    TransientIsRetried
