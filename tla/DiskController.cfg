SPECIFICATION FairController
CONSTANTS
    Keys = {1, 2}
    Owners = {1}
    Versions = {1, 2, 3}
    Requests = {}
    MaxGeneration = 2
    MaxSequence = 12
    MaxCursor = 3
    MaxNow = 1
    Kinds <- MCKinds
    WorkerCount = 1
    MaxFaults = 1
INVARIANTS ProjectionCurrent NoLostWork RelistDrained
PROPERTY Reconciled
\* the API's log and the faults are bounded, and a quiet controller may stop
CHECK_DEADLOCK FALSE
