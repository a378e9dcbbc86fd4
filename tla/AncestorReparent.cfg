SPECIFICATION Spec
CONSTANTS
    Uids = {1, 2, 3}
    NameOf <- MCNameOf
    Skus = {"s1", "s2"}
    Refs = {"p"}
    Paths <- MCPaths
    Writers = {w1, w2}
    Loads <- ReparentLoads
SYMMETRY WriterSymmetry
INVARIANT OldRowsRemoved
\* the calls are bounded
CHECK_DEADLOCK FALSE
