SPECIFICATION Spec
CONSTANTS
    Services = {1, 2}
    Contents = {1, 2}
    HistoryLimit = 2
    MaxRequests = 1
    MaxTrouble = 2
    Loads <- LoadsValue
INVARIANTS PublishedOnce OnlyTheRequested Evident
PROPERTIES Settles
\* nobody has to request the deletion
CHECK_DEADLOCK FALSE
