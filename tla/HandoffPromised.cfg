SPECIFICATION HandoffSpec
CONSTANTS
    Sessions = {1, 2}
    Platforms = {tg, dc}
    Clients = {c1, c2}
    Gateways = {g1}
    MaxAsks = 3
    MaxCrashes = 0
    StoreFaults = FALSE
    ClientsQuit = FALSE
INVARIANT DispatchedWhereAsked
PROPERTIES CompletedFromRunning CompletedStands
CHECK_DEADLOCK FALSE
