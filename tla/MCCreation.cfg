SPECIFICATION FairCreationSpec
CONSTANTS
    None = None
    Requests = {r1, r2, r3}
    Keys = {k1}
    Bodies = {"first", "second", "rejected", "foreign"}
    Foreign = {"foreign"}
    Posts <- SomePosts
    Urls = {"url"}
    UrlOf <- TwoBodiesOneUrl
    MaxSubmissions = 2
    MaxFaults = 1
INVARIANTS
    OneJobPerKey
    JobsAreComplete
    OnlyForeignCollisions
PROPERTIES
    KeepsItsPromise
    EveryRequestIsAnswered
    EveryJobIsDispatched
CHECK_DEADLOCK FALSE
