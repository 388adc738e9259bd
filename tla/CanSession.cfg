\* One request at a time on the bus; a reply channel of 2 instead of 32.
CONSTANTS
    c1 = c1
    c2 = c2
    Callers <- Pair
    Uses <- PairUses
    Tries = 2
    Responders = 2
    BusRoom = 1
    ReplyRoom = 2
SPECIFICATION Spec
INVARIANTS TypeOK OneInFlight RepliesMatch KeepaliveRuns
PROPERTY ReturnsUnlessJoinHangs
CHECK_DEADLOCK FALSE
