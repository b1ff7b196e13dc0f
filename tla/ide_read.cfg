CONSTANTS
    SECTORS = 4
    WORDS = 2
    NR_SEC_CACHE = 2
    WRITEBACK = 2
    NewData = {d1}
    HasWriter = FALSE
    Timers = {TRUE}
SPECIFICATION FairSpec
INVARIANTS
    ReadInv
PROPERTIES
    ImplementsStore
    RequestsEnd
