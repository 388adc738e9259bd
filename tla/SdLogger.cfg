CONSTANTS
    MaxRecords = 5
    RingCapacity = 2
    FileRows = 2
    Indices = 2
    SyncTicks = 3
    IoErrors = TRUE
SPECIFICATION Spec
INVARIANTS TypeOK RowsOnceInOrder UnsyncedIsYoung
PROPERTIES ImplementsCardLog RowsLostByCreateOnly SettledCardIsLogged
CHECK_DEADLOCK FALSE
