SPECIFICATION FairSpec
CONSTANTS
    None = None
    Workers = {w1, w2}
    Clients = {}
    Pages = {src}
    Rank <- PageOrder
    SourcePage = src
    SitemapPage = None
    Items = {1}
    Formats = {csv}
    Blobs = {b1, b2}
    MaxPages = 1
    MaxDepth = 1
    MaxRecords = 1
    MaxAttempts = 3
    PlannerRetries = 2
    ExtractionRetries = 2
    ValidationRetries = 2
    ExportRetries = 2
    Retryable = {"run_planning", "run_discovery", "run_validation", "run_export"}
    Faults <- InterruptedStart
    MaxFaults = 1
    StaleLeases = FALSE
    RacingCancel = FALSE
PROPERTIES
    ExpiredLeaseIsRecovered
CHECK_DEADLOCK FALSE
