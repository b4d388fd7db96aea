SPECIFICATION Spec
CONSTANTS
    t1 = t1 t2 = t2 t3 = t3 m1 = m1 m2 = m2
    Thread = {t1, t2, t3}
    Isr = {isr}
    Null = Null
    Priority <- MCPriority
    Flag = "PRIO"
    Mutexes = {m1, m2}
    Mail = {a, b}
    NoMail = NoMail
    Apps <- SafeApps
    ValueMod = 3
    MaxPermits = 3
    MaxHold = 2
    Bit = {1, 2}
    Size = 2
    Slot = {s1, s2}
    Block = {b1, b2}
SYMMETRY Symmetry
INVARIANTS WaitersConsistent PermitsConserved MutualExclusion Inheritance EventsDelivered
    SlotsConserved NoLostWakeup BlocksConserved
PROPERTIES EventsTaken  
CHECK_DEADLOCK FALSE
