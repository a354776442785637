SPECIFICATION Spec
CONSTANTS
    None = None
    Workers = {w1, w2}
    Clients = {c1}
    Pages = {src}
    Rank <- PageOrder
    SourcePage = src
    SitemapPage = None
    Items = {1}
    Formats = {csv, json}
    Blobs = {b1, b2, b3}
    MaxPages = 1
    MaxDepth = 1
    MaxRecords = 1
    MaxAttempts = 1
    PlannerRetries = 2
    ExtractionRetries = 2
    ValidationRetries = 2
    ExportRetries = 2
    Retryable = {"run_export"}
    Faults <- DuplicateExport
    MaxFaults = 1
    StaleLeases = TRUE
    RacingCancel = FALSE
INVARIANTS
    NeverStranded
    OneFilePerFormat
    CompletedMeansDelivered
    RecoveryFindsWork
    EveryBlobIsOwned
PROPERTIES
    FollowsLifecycle
CHECK_DEADLOCK FALSE
