SPECIFICATION Spec
CONSTANTS
    Word = 65536
    NumReceivers = 2
    MulticastThreshold = 2
    MinPeerBlocks = 1
    MaxTargetsPerSource = 2
    MaxTaskBlocks = 64
    TotalBlocks = 2
    SectionLimit = 2
    MaxRepairRounds = 1
    BackfillAfter = 1
    BackfillThreads = 1
    PeerMode = FALSE
    InitialHave <- StalePart
    MaxLosses = 2
    MaxTimeouts = 1
INVARIANTS
    ConfirmedIsStored
    BackfillSuffices
    FinalisedIsAnswered
    MismatchMeansWrongBytes
PROPERTIES
    AttemptTerminates
    EveryReceiverServed
