SPECIFICATION FairSpec
CONSTANTS
    SndBuf = 2
    MaxSend = 4
    MaxBytes = 7
INVARIANTS TypeOK StreamIntact WritingIffWaiting FinIsLast
PROPERTY ShutdownCompletes
CHECK_DEADLOCK FALSE
