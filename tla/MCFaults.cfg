SPECIFICATION Spec
CONSTANTS
    None = None
    Workers = {w1, w2}
    Clients = {c1}
    Pages = {src}
    Rank <- PageOrder
    SourcePage = src
    SitemapPage = None
    Items = {1}
    Formats = {csv}
    Blobs = {b1, b2, b3}
    MaxPages = 1
    MaxDepth = 1
    MaxRecords = 1
    MaxAttempts = 2
    PlannerRetries = 2
    ExtractionRetries = 2
    ValidationRetries = 2
    ExportRetries = 2
    Retryable = {"run_planning", "run_discovery", "run_extraction", "run_validation", "run_export"}
    Faults <- AnyFault
    MaxFaults = 2
    StaleLeases = FALSE
    RacingCancel = TRUE
INVARIANTS
    TypeOK
    ExportedDataIsValidated
    WorkIsClaimedOnce
PROPERTIES
    EndedJobIsQuiet
    NoResurrection
CHECK_DEADLOCK FALSE
