SPECIFICATION Spec
CONSTANTS
    N = 4
    Senders = {"a", "b", "c"}
    Anonymous = "anon"
    Traffics <- CrowdedTraffic
INVARIANTS NotStranded Kept
\* At most N messages arrive: the session stops once they are answered.
CHECK_DEADLOCK FALSE
