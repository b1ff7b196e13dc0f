CONSTANTS
    Letters = {a, b}
    POOL = 4
    PERIOD = 2
    LOW = 3
    RISE = 2
    MaxLag = 2
    MaxPresses = 3
    MaxEvents = 2
SPECIFICATION TySpec
INVARIANTS
    GameGoesOn
    ListIsSound
    OneStrokeOneHit
    KeysInv
PROPERTIES
    StrokesAreAnswered
