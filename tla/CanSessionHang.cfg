CONSTANTS
    c1 = c1
    c2 = c2
    Callers <- Single
    Uses <- SingleUses
    Tries = 1
    Responders = 1
    BusRoom = 1
    ReplyRoom = 1
SPECIFICATION Spec
PROPERTY AwaitsBounded
CHECK_DEADLOCK FALSE
