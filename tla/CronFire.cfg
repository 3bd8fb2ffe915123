SPECIFICATION FairSpec
CONSTANTS
    Jobs = {1, 2}
    Procs = {p1, p2}
    Period = 2
    Grace = 1
    MaxGrace = 1
    Ttl = 2
    RunAts = {0, 2}
    Worlds <- AllWorlds
INVARIANTS OncePerSlot NeverStolen
PROPERTIES RunsAreRecorded OneShotsEnd
CHECK_DEADLOCK FALSE
