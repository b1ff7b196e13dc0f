CONSTANTS
    PIECES = 2
    FileChunks = 4
SPECIFICATION AuSpec
PROPERTY
    EventsAreAnswered
