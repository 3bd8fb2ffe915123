SPECIFICATION FairSpec
CONSTANTS
    N = 4
    Senders = {"a", "b", "c"}
    Anonymous = "anon"
    Traffics <- SomeTraffic
INVARIANTS OneTurn LockCoherent HandledOnce OneSpeaker NoneLost
PROPERTIES EveryMessageHandled ImplementsSerialTurns
\* At most N messages arrive: the session stops once they are answered.
CHECK_DEADLOCK FALSE
