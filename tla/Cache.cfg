SPECIFICATION Spec
CONSTANTS
    Word = 65536
    TotalBlocks = 3
    Limits = {1, 2}
    MaxBreaks = 1
    MaxCrashes = 2
    MaxRestarts = 2
    MaxFailures = 1
INVARIANTS
    TypeOK
    CheckpointIsSound
    CachedIsVerified
    CachedWasHandedOut
PROPERTIES
    ConfirmedIsNotResent
    FileIsConfirmed
