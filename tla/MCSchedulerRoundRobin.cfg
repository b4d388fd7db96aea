SPECIFICATION FairSpec
CONSTANTS
    t1 = t1
    t2 = t2
    t3 = t3
    Idle = idle
    Thread = {t1, t2, idle}
    NoThread = NoThread
    MaxNest = 1
    PriorityMax = 3
    InitPriority <- Priorities
    Dynamic = {t1}
    Cleanup = {}
    Apps <- Spinning
PROPERTIES RoundRobin
