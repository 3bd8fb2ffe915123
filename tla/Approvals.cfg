CONSTANTS
    a1 = a1
    a2 = a2
    a3 = a3
    rm = rm
    dd = dd
    Asks <- MCAsks
    Commands <- MCCommands
    Wants <- MCWants
SPECIFICATION ApprovalsSpec
INVARIANT Answerable
PROPERTIES ImplementsConsent EveryAskReturns
CHECK_DEADLOCK FALSE
