SPECIFICATION Spec
CONSTANTS
    Thread = {t1, t2}
    Admin = {m1}
    FdMax = 2
    SlotMax = 2
    VolMax = 2
    Device = {d1, d2}
    BigSector = {}
    Component = {"sd", "a", ".", ".."}
    Given <- MCGiven
    MountNames <- MCMountNames
    MaxDepth = 1
    Careful = TRUE
    Null = Null
SYMMETRY Perms
INVARIANTS DescriptorsCounted  
