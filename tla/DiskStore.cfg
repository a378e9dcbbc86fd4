SPECIFICATION AllSpec
\* the counters are bounded
CHECK_DEADLOCK FALSE
CONSTANTS
    Keys = {1, 2}
    Owners = {1, 2}
    Versions = {1}
    Requests = {0, 1}
    MaxGeneration = 2
    MaxSequence = 5
    MaxWorkSequence = 3
    MaxCursor = 2
    MaxNow = 1
INVARIANTS TypeOK WorkIndexExact RelationIndexExact NoLeakedGeneration FanoutCovers RelatedDelivered
PROPERTY PublishExact
