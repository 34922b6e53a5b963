SPECIFICATION FairSpec
CONSTANTS
    MaxThreads = 2
    MaxFds = 3
    MaxBacklog = 2
    MaxConns = 5
INVARIANTS TypeOK FunctorsFindTheirState PolledIsOwned LoadIsBalanced
PROPERTIES LifecycleOK ClosedIsReleased BacklogDrains
CHECK_DEADLOCK FALSE
