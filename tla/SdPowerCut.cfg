CONSTANTS
    MaxRecords = 2
    RingCapacity = 2
    FileRows = 3
    Indices = 2
    SyncTicks = 2
    IoErrors = FALSE
SPECIFICATION Spec
PROPERTY SyncedRowsSurvive
CHECK_DEADLOCK FALSE
