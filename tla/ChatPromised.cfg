SPECIFICATION ChatSpec
CONSTANTS
    text = text
    session = session
    path = path
    Turns <- MCTurns
    Kinds <- MCKinds
    MaxDialogs = 2
    MaxChildren = 3
INVARIANTS OneChild OneDriver
