\* Two runs over two files, of which the second version fails to extract.
SPECIFICATION FairSpec
CONSTANTS
    Paths = {a, b}
    NoPath = NoPath
    Links = {}
    MaxVersion = 2
    Opaque = {2}
    RunHistory = 1
    MaxRuns = 2
    MaxAborts = 1
PROPERTIES
    RunEnds
