SPECIFICATION Spec
CONSTANTS
    Wrap = 12
    SilentMs = 3
    StatusMs = 2
    PulseMs = 1
    FlushMs = 1
    FifoDepth = 2
    MaxLosses = 1
    MaxRestarts = 1
INVARIANTS TypeOK HostHears NoFalseAlarm
