CONSTANTS
    NR_KEYS = 2
    NR_DIRS = 2
    MaxKeyEvents = 4
    MaxPoll = 2
SPECIFICATION PalSpec
PROPERTIES
    ReportsJustPressed
