SPECIFICATION Spec
CONSTANTS
    Receivers = {r1, r2}
    Modes = {"direct", "central"}
    Survivors = {r1}
    FileSections <- TwoFiles
    MaxRepairRounds = 1
    BackfillAfter = 0
    MaxRetries = 1
    MaxFaults = 1
    MaxCentrals = 2
INVARIANTS
    TypeOK
    ConfirmedIsStored
    NoClashFresh
PROPERTIES
    CompletedStays
    SessionEnds
