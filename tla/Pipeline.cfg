SPECIFICATION Spec
CONSTANTS
    SectionCount = 8
    ResumeSection = 5
    FullBytes = 2
    LastBytes = 1
    Receivers = {r1, r2}
INVARIANTS
    TypeOK
    InOrderOnce
    PendingIsExact
    BacklogIsBounded
    WorkerIsJoined
    ReturnedMeansDistributed
    MismatchIsRemembered
PROPERTIES
    PipelineEnds
