SPECIFICATION Spec
CONSTANTS
    Workers = {w1, w2, w3}
    TaskCount = 4
INVARIANTS
    TypeOK
    EachTaskOnce
    GoneMeansDone
PROPERTIES
    PoolEnds
