SPECIFICATION Spec
CONSTANTS
    Replicas = {r1, r2}
    Changes = 1
    BatchSize = 1
    MaxToken = 3
    MaxWater = 1
SYMMETRY Symmetry
INVARIANT NoGaps
\* the fencing token and the high water are bounded
CHECK_DEADLOCK FALSE
