CONSTANTS
    TIMER_IRQ = 0
    KEYBOARD_IRQ = 1
    AUDIO_IRQ = 2
    IDE_IRQ = 14
    HasAudio = TRUE
    ExecMax = 2
SPECIFICATION FairSpec
INVARIANTS
    IndInv
    SignalHasVector
PROPERTIES
    DiskIrqKept
    ImplementsLatch
    HaltWakes
    DiskIrqDelivered
