SPECIFICATION PollingSpec
CONSTANTS
    N = 3
    Taps = {2}
    MaxConflicts = 1
    HeldMax = 2
    MaxFaults = 3
INVARIANTS NeverTwice NoTapIsATurn
\* Users send N updates, and then there may be nothing left to do.
CHECK_DEADLOCK FALSE
