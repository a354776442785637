SPECIFICATION FairAccessSpec
CONSTANTS
    None = None
    h1 = h1
    k1 = k1
    k2 = k2
    r1 = r1
    r2 = r2
    Hosts = {h1}
    Requests = {r1, r2}
    HostOf <- OneHost
    Kids = {k1, k2}
    Limit = 2
    Window = 3
    CacheTime = 2
    FetchTime = 1
    MaxTime = 3
    MaxRotations = 2
    MaxFailures = 1
INVARIANTS
    WindowIsBounded
    PublishedKeyIsKnown
PROPERTIES
    WithdrawnKeyExpires
    EveryCheckEnds
CHECK_DEADLOCK FALSE
