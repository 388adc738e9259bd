\* Ticks of 0.2 s, with the sleeps of the reconnect path cut to what exceeds the stale limit.
CONSTANTS
    snapshot = snapshot
    none = none
    Kinds <- MCKinds
    FragTot <- MCFragTot
    SeqMod = 3
    MaxPending = 2
    StaleT = 1
    ReadT = 1
    OpenT = 2
    RetryT = 2
    LogT = 1
    NoSeq = none
SPECIFICATION LoopSpec
INVARIANTS LoopTypeOK StaleWhenQuiet
PROPERTY GoodLinkIsLogged
CHECK_DEADLOCK FALSE
