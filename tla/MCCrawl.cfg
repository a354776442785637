SPECIFICATION FairSpec
CONSTANTS
    None = None
    Workers = {w1, w2}
    Clients = {}
    Pages = {src, p1, p2, map}
    Rank <- PageOrder
    SourcePage = src
    SitemapPage = map
    Items = {1}
    Formats = {csv}
    Blobs = {b1, b2, b3}
    MaxPages = 3
    MaxDepth = 1
    MaxRecords = 1
    MaxAttempts = 3
    PlannerRetries = 2
    ExtractionRetries = 2
    ValidationRetries = 2
    ExportRetries = 2
    Retryable = {"run_planning", "run_discovery", "run_validation", "run_export"}
    Faults <- SurvivableInterruptions
    MaxFaults = 1
    StaleLeases = FALSE
    RacingCancel = FALSE
INVARIANTS
    PageLimit
    RecordLimit
    InventoryComplete
    EveryVisitedPageIsRead
PROPERTIES
    EventuallyEnds
CHECK_DEADLOCK FALSE
