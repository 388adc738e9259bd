CONSTANTS
    MaxSessions = 3
    MaxNotes = 1
SPECIFICATION Spec
INVARIANTS TypeOK OneReceiver OwnOpenLog RunningIsStoppable
PROPERTIES StopReenablesStart KeptStopEndsAll
CHECK_DEADLOCK FALSE
