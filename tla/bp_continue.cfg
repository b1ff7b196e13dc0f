CONSTANTS
    NR_BP = 3
    Length = 4
    OwnBreaks = {1}
    Traps = {2}
    Writers = {0}
    Breakable = {0, 2, 3, 4}
    Same = FALSE
    MaxWatch = 1
    StepCounts = {}
    Interrupts = TRUE
SPECIFICATION FairSpec
PROPERTIES
    NoBreakpointRunThrough
    StopIsFinal
    GetsPast
