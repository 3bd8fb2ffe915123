SPECIFICATION PollingFairSpec
CONSTANTS
    N = 2
    Taps = {2}
    MaxConflicts = 1
    HeldMax = 1
    MaxFaults = 3
INVARIANT NoneLost
PROPERTY EveryUpdateSettles
\* Users send N updates, and then there may be nothing left to do.
CHECK_DEADLOCK FALSE
