SPECIFICATION Spec
CONSTANTS
    File = {1, 2}
    Size <- MCSize
    NoCrc = {2}
    BlockSize = 2
    Thread = {1, 2, 3}
    MaxLosses = 1
CHECK_DEADLOCK FALSE
INVARIANTS TypeOK AloneSavesItsFile
PROPERTY ExtractionEnds
