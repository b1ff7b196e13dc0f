CONSTANTS
    SECTORS = 2
    WORDS = 2
    NR_SEC_CACHE = 1
    WRITEBACK = 2
    NewData = {d1}
    HasWriter = TRUE
    Timers = {TRUE, FALSE}
SPECIFICATION Spec
INVARIANTS
    WriterInv
PROPERTIES
    FillsOverSentOnly
