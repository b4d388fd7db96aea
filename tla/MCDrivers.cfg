SPECIFICATION FairSpec
CONSTANTS
    t1 = t1 t2 = t2 t3 = t3
    Thread = {t1, t2, t3}
    Isr = {}
    Null = Null
    Priority <- MCPriority
    Flag = "FIFO"
    Mutexes = {}
    Mail = {a, b, c}
    NoMail = NoMail
    Apps <- SafeApps
    DqSize = 2
    Lwm = 1
    IndexMod = 8
    MaxIndex = 7
    Bufsz = 4
    Char = {x, y}
    MaxEnds = 1
    Work = {w1, w2}
    Byte = {x, y}
    NoByte = NoByte
    BufferSize = 3
    MaxWrite = 2
    Pages = 2
INVARIANTS NoLostWakeup   BusReady
PROPERTIES  PipeIsStream RxIsStream ServicesEnd
CHECK_DEADLOCK FALSE
