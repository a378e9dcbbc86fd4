SPECIFICATION Spec
CONSTANTS
    c1 = c1
    c2 = c2
    o1 = o1
    Clients = {c1, c2}
    Objs = {o1}
    Buffer = 1
    MaxTailers = 2
    Scopes <- MCScopes
INVARIANTS
    NobodyForgotten
    FilteredView
PROPERTIES
    FeedImplemented
    Converges
CHECK_DEADLOCK FALSE
