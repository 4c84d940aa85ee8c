SPECIFICATION Spec
CONSTANTS
    Word = 65536
    NumReceivers = 2
    MulticastThreshold = 2
    MinPeerBlocks = 1
    MaxTargetsPerSource = 2
    MaxTaskBlocks = 64
    TotalBlocks = 2
    SectionLimit = 1
    MaxRepairRounds = 1
    BackfillAfter = 1
    BackfillThreads = 4
    PeerMode = TRUE
    InitialHave <- FreshPart
    MaxLosses = 3
    MaxTimeouts = 0
INVARIANTS
    BackfillSuffices
