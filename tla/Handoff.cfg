SPECIFICATION HandoffFairSpec
CONSTANTS
    Sessions = {1, 2}
    Platforms = {tg}
    Clients = {c1, c2}
    Gateways = {g1, g2}
    MaxAsks = 2
    MaxCrashes = 1
    StoreFaults = TRUE
    ClientsQuit = TRUE
INVARIANTS DispatchedOnce ToldTheTruth
PROPERTY BecomesRetryable
CHECK_DEADLOCK FALSE
