SPECIFICATION Spec
CONSTANTS
    Repositories <- MCCollections
    Attempts = 2
    FileAttempts = 2
    DenialAttempts = 2
    MaxFaults = 0
INVARIANTS
    OnlySurvivors
CHECK_DEADLOCK FALSE
