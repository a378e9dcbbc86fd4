SPECIFICATION Spec
CONSTANTS
    Repositories <- MCRepositories
    Attempts = 2
    FileAttempts = 2
    DenialAttempts = 2
    MaxFaults = 1
INVARIANTS
    Converged
PROPERTIES
    InOrder
    CreateOnly
CHECK_DEADLOCK FALSE
