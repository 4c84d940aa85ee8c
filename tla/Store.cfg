SPECIFICATION Spec
CONSTANTS
    Word = 65536
    TotalBlocks = 3
    Limits = {1, 2}
INVARIANTS
    TypeOK
    BitmapSound
    StateSound
    OutputVerified
    ReportedIsDurable
