SPECIFICATION Spec
CONSTANTS
    Word = 65536
    TotalBlocks = 2
    Limits = {2}
INVARIANTS
    NeverSkipped
