SPECIFICATION Spec
CONSTANTS
    Gens = 2
    Batches <- MCBatches
    Ends <- MCEnds
    Tables <- MCTables
    Private <- MCPrivate
    Window = 1
    MaxPending = 9
    MaxFaults = 1
INVARIANTS
    NothingPassed
    HaltsOnlyForAReader
PROPERTIES
    OrderKept
    EverythingPublished
CHECK_DEADLOCK FALSE
