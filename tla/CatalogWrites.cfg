SPECIFICATION Spec
CONSTANTS
    Uids = {1, 2, 3}
    NameOf <- MCNameOf
    Skus = {"s1", "s2"}
    Refs = {"p"}
    Paths <- MCPaths
    Writers = {w1, w2}
    Loads <- MCLoads
SYMMETRY WriterSymmetry
INVARIANTS Indexed AncestorsConverged
PROPERTIES OwnReservations
\* the calls are bounded
CHECK_DEADLOCK FALSE
