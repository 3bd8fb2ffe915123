SPECIFICATION FairSpec
CONSTANTS
    Platforms = {p1, p2}
    Passes = {1, 2}
    MaxFresh = 2
    Initial = 1
    Interval = 2
    Base = 1
    Cap = 3
INVARIANT OneConsumer
PROPERTY Recovers
\* A gateway that has stopped does nothing more.
CHECK_DEADLOCK FALSE
