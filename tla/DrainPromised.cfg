SPECIFICATION Spec
CONSTANTS
    Messages = {m1, m2}
    Unbound = {m2}
    MaxBoots = 3
    MaxFaults = 2
INVARIANTS ReceiptNeverMasks ReplayedOnce OverIsOver
\* After MaxBoots processes no other one is started.
CHECK_DEADLOCK FALSE
