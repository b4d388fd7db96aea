SPECIFICATION Spec
CONSTANTS
    t1 = t1
    t2 = t2
    t3 = t3
    Idle = idle
    Thread = {t1, t2, t3, idle}
    NoThread = NoThread
    MaxNest = 2
    PriorityMax = 3
    InitPriority <- Priorities
    Dynamic = {t1, t3}
    Cleanup = {t3}
    Apps <- DeletesSleeping
INVARIANTS ClosedIsUnlisted
