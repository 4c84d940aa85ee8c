SPECIFICATION Spec
CONSTANTS
    Word = 65536
    NumReceivers = 2
    MulticastThreshold = 2
    MinPeerBlocks = 1
    MaxTargetsPerSource = 2
    MaxTaskBlocks = 64
    TotalBlocks = 3
    SectionLimit = 2
    MaxRepairRounds = 1
    BackfillAfter = 1
    BackfillThreads = 4
    PeerMode = TRUE
    InitialHave <- FreshPart
    MaxLosses = 1
    MaxTimeouts = 1
INVARIANTS
    TypeOK
    SourcesHoldTheirBlocks
    BarrierLeavesNothing
PROPERTIES
    ImplementsDelivery
