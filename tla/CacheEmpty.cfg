SPECIFICATION Spec
CONSTANTS
    Word = 65536
    TotalBlocks = 0
    Limits = {2}
    MaxBreaks = 0
    MaxCrashes = 0
    MaxRestarts = 0
    MaxFailures = 0
PROPERTIES
    EveryFileIsConfirmed
