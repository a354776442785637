SPECIFICATION Spec
CONSTANTS
    None = None
    Workers = {w1, w2}
    Clients = {}
    Pages = {src, p1}
    Rank <- PageOrder
    SourcePage = src
    SitemapPage = None
    Items = {1}
    Formats = {csv}
    Blobs = {b1, b2}
    MaxPages = 2
    MaxDepth = 1
    MaxRecords = 1
    MaxAttempts = 3
    PlannerRetries = 2
    ExtractionRetries = 2
    ValidationRetries = 2
    ExportRetries = 2
    Retryable = {"run_planning", "run_discovery", "run_extraction", "run_validation", "run_export"}
    Faults <- NoFaults
    MaxFaults = 0
    StaleLeases = FALSE
    RacingCancel = FALSE
INVARIANTS
    EveryVisitedPageIsRead
CHECK_DEADLOCK FALSE
