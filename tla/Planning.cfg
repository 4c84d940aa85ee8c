SPECIFICATION Spec
CONSTANTS
    NumReceivers = 3
    MulticastThreshold = 2
    MinPeerBlocks = 2
    MaxTargetsPerSource = 1
    MaxTaskBlocks = 2
    SectionBlocks = {0, 1, 2, 3}
INVARIANTS
    MissingIsServedOnce
    LoadIsBounded
