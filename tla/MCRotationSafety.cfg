SPECIFICATION Spec
CONSTANTS
    Clients = {c1, c2}
    MaxKey = 3
    MaxCrashes = 2
    MaxFaults = 2
    OperatorWhilePending = TRUE
INVARIANT TypeOK
INVARIANT OneGenerationAtRest
INVARIANT RollbackKept
INVARIANT VerifiedIsPublished
PROPERTY AtomicRotation
