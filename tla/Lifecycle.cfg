SPECIFICATION MCSpec
CONSTANTS
    p1 = p1
    p2 = p2
    sys = sys
    r1 = r1
    r2 = r2
    i1 = i1
    Procs = {p1, p2}
    Repos = {sys, r1, r2}
    System = sys
    NameOf <- OneName
    Items = {i1}
    Calls = {"create", "write", "delete", "update", "complete", "mark", "remove"}
    MaxVersion = 3
    MaxEpoch = 3
    MaxFaults = 1
SYMMETRY ProcSymmetry
INVARIANTS
    FenceExclusive PendingCovers NoOrphanRepository NoOrphanItem IndexCovers Reachable
CHECK_DEADLOCK FALSE
