SPECIFICATION FairProgressSpec
CONSTANTS
    w1 = w1
    c1 = c1
    web = web
    r1 = r1
    None = None
    Writers = {w1}
    Cancels = {}
    Clients = {c1}
    Web = web
    Refreshes = {r1}
    MaxEvents = 2
    MaxIncidents = 0
PROPERTIES
    WorkspaceFollowsJob
CHECK_DEADLOCK FALSE
