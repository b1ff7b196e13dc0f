CONSTANTS
    NR_BP = 3
    Length = 3
    OwnBreaks = {1}
    Traps = {}
    Writers = {0}
    Breakable = {0, 2, 3}
    Same = FALSE
    MaxWatch = 2
    StepCounts = {1, 2}
    Interrupts = TRUE
SPECIFICATION Spec
INVARIANTS
    PoolPartition
    MemoryIsProgram
