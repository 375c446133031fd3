\* Two files of two versions, three runs, one power loss and one killed process at
\* any moment, one change of the tree.
SPECIFICATION Spec
CONSTANTS
    Paths = {a, b}
    Threshold = 1
    Warn = 2
    MaxVersion = 2
    MaxChanges = 1
    MaxRuns = 3
    MaxLosses = 1
    MaxKills = 1
    MaxNow = 1
SYMMETRY PathSymmetry
CHECK_DEADLOCK FALSE
INVARIANTS
    RunIsExact
    StrangersAreContained
    FreshMeansRecentRun
