SPECIFICATION FairSpec
CONSTANTS
    t2 = t2
    t3 = t3
    p1 = p1
    p2 = p2
    s1 = s1
    s2 = s2
    Nobody = Nobody
    Turns = {t2, t3}
    Procs = {p1, p2}
    Sessions = {s1, s2}
    ProcOf <- MCProcOf
    Structured <- MCStructured
    TTL = 2
    WaitBudget = 1
INVARIANT Fenced
PROPERTIES NoLiveSteal ImplementsPromise EveryWaitReturns OrphansReclaimed
