CONSTANTS
    PAGE = 2
    NR_PTE = 4
    KMEM = 2
    PHY_MEM = 7
    KOFFSET = 13
    Segments <- TwoSegments
    VIDEO = 1
    STACK_PAGES = 1
    TLB_SIZE = 2
    MaxBreak = 3
    MaxStores = 1
    Touched = {1, 4}
    Lens = {2}
    LINE = 2
    GROUPS = 2
    WAYS = 2
    NR_LINES = 5
    AccessLens = {1, 2}
    MaxWrites = 2
    W = 4
    BYTE = 2
    Sizes = {2, 3, 4}
    EXP = 3
    FRAC = 4
    WIDE = 14
    NR_REGS = 2
    Loadable <- SomeFloats
    MaxLoads = 1
SPECIFICATION Spec
INVARIANTS
    MachineInv
    RunsInItsImage
    LoadsAreCurrent
    ArithmeticIsExact
    ConditionsTell
    FloatsRound
PROPERTIES
    ImplementsMemory
