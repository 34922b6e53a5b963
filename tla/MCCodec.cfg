SPECIFICATION Spec
CONSTANTS
    kCheapPrepend = 2
    kInitialSize = 3
    ExtraBuf = 3
    Fill = fill
    kHeaderLen = 2
    MaxLen = 4
    Lengths <- MCLengths
    NumMessages = 4
INVARIANTS TypeOK BufferHoldsTheRest DeliveredAsSent NothingLeftBehind ShutdownOnIllegal
CHECK_DEADLOCK FALSE
