\* Frames of 2, 1 and 2 bytes and 2 sequence numbers, for 7, 6, 7 and 16.
CONSTANTS
    Peers = {p1, p2}
    Lengths = {0, 2, 3, 6}
    MaxLen = 6
    SfMax = 2
    FfData = 1
    CfData = 2
    SeqMod = 2
    MaxMsgs = 3
SPECIFICATION Spec
INVARIANTS TypeOK WholeUnlessBurst CleanIsReturned
CHECK_DEADLOCK FALSE
