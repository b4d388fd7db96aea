SPECIFICATION Spec
CONSTANTS
    TimerSet = {t1, t2, t3}
    Worker = {w1, w2}
    NoTimer = NoTimer
    TickMod = 10
    MaxInit = 2
    MaxLate = 1
    Callback <- Callbacks
SYMMETRY Perms
INVARIANTS Sorted  FiresOnTime
PROPERTIES NoOvertaking CheckTerminates
