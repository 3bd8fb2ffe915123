SPECIFICATION Spec
CONSTANTS
    Jobs = {1, 2}
    Procs = {p1, p2}
    Period = 3
    Grace = 1
    MaxGrace = 1
    Ttl = 2
    RunAts = {0, 2}
    Worlds <- Edges
INVARIANTS NotBeforeDue NoGhost AbortedHasWinner
CHECK_DEADLOCK FALSE
