SPECIFICATION FairArtifactSpec
CONSTANTS
    None = None
    c1 = c1
    c2 = c2
    j1 = j1
    Jobs = {j1}
    Captures = {c1, c2}
    JobOf <- OneJob
    MaxContexts = 1
    Downloads = {c1}
    Exports = {x1}
    Retention = 1
    Batch = 1
    MaxTime = 1
    MaxFailures = 1
INVARIANTS
    CapacityIsBounded
    OneCapturePerJob
    UnexpiredHasBytes
PROPERTIES
    EveryCaptureEnds
    ExpiredIsRemoved
CHECK_DEADLOCK FALSE
