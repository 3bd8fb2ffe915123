CONSTANTS
    p1 = p1
    p2 = p2
    r1 = r1
    Ghost = ghost
    Procs <- MCProcs
    Replacers <- MCReplacers
    MaxFaults = 1
SPECIFICATION Spec
INVARIANTS Named SomebodyStays
PROPERTY ConnectsAsHolder
