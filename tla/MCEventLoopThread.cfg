SPECIFICATION ThreadFairSpec
CONSTANTS
    Threads = {t1, t2}
    Owner = t1
    Channels = {io}
    WakeupChannel = wakeupChannel
    None = none
    EventfdMax = 2
    MaxTasks = 4
INVARIANTS TypeOK NoLostWakeup
PROPERTIES RunsInOrder EveryTaskRuns StartReturns JoinReturns
CHECK_DEADLOCK FALSE
