SPECIFICATION Spec
CONSTANTS
    Thread = {t1, t2}
    MemSize = 18
    Header = 3
    MinSize = 3
    Request = {0, 1, 4, 9}
SYMMETRY Symmetry
INVARIANTS HeapSound MemoryAccounted
