SPECIFICATION FlowSpec
CONSTANTS
    None = None
    Fields = {"name", "price", "link", "mail", "day", "time"}
    FieldType <- Types
    Required = {"name"}
    Pages = {p1, p2}
    Documents <- PageKinds
    MaxRecords = 3
    MaxReads = 2
    Formats = {"csv", "json", "xlsx"}
    Policies = {"ALL_RECORDS", "VALID_ONLY", "VALID_AND_WARNINGS"}
    ExportRecords = 3
INVARIANTS
    RecordsTypeOK
    FailuresAreExplained
    FilteredRowsAreSound
    FormatsAgree
PROPERTIES
    ReadingAgainAddsNothing
CHECK_DEADLOCK FALSE
