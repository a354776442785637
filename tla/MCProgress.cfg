SPECIFICATION FairProgressSpec
CONSTANTS
    w1 = w1
    k1 = k1
    c1 = c1
    web = web
    r1 = r1
    r2 = r2
    None = None
    Writers = {w1}
    Cancels = {k1}
    Clients = {c1}
    Web = web
    Refreshes = {r1, r2}
    MaxEvents = 4
    MaxIncidents = 1
INVARIANTS
    LogIsGapless
    NothingIsMissed
PROPERTIES
    EveryEventArrives
    EndIsShown
CHECK_DEADLOCK FALSE
