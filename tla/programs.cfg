CONSTANTS
    PIECES = 2
    FileChunks = 4
    NR_KEYS = 3
    NR_DIRS = 2
    MaxKeyEvents = 4
    MaxPoll = 2
    NR_FILES = 2
    FileSize <- Sizes
    DiskOffset <- Places
    MOD = 16
    Streams = {s1, s2}
    ReadLens = {0, 1, 3}
    SeekOffsets <- Offsets
    Before = {0, 2}
SPECIFICATION Spec
INVARIANTS
    AuInv
    FillsWhatItLocked
    ReadsUndisturbed
    PalInv
    FsInv
    ReadsOwnBytes
    StreamsKeepPlace
PROPERTIES
    HeardInOrder
    WritesEnd
    ReleasesArrive
    
