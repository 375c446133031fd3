\* The shortest instance in which a run dies before its commit.
SPECIFICATION Spec
CONSTANTS
    Paths = {a}
    NoPath = NoPath
    Links = {}
    MaxVersion = 2
    Opaque = {}
    RunHistory = 1
    MaxRuns = 3
    MaxAborts = 1
INVARIANTS
    ProgressMeansCompleted
