SPECIFICATION FairSpec
CONSTANTS
    Timers = {t1, t2}
    MaxTime = 3
PROPERTY AddedTimerRuns
CHECK_DEADLOCK FALSE
