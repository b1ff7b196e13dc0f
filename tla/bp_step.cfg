CONSTANTS
    NR_BP = 2
    Length = 3
    OwnBreaks = {1}
    Traps = {}
    Writers = {}
    Breakable = {0, 2}
    Same = FALSE
    MaxWatch = 0
    StepCounts = {1, 2}
    Interrupts = FALSE
SPECIFICATION Spec
INVARIANTS
    EnabledIsArmed
