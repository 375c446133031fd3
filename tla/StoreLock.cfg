\* Three commands of any kind; one may be killed, and the directory removed once.
SPECIFICATION FairSpec
CONSTANTS
    Procs = {p1, p2, p3}
    NoProc = NoProc
    MaxCrashes = 1
    MaxRemovals = 1
INVARIANTS
    OneStoreOpen
    BusyOnlyAfterRemoval
    TornOnlyByAccident
    OpenStoreHasIdentity
    LockInv
PROPERTIES
    EveryCommandEnds
