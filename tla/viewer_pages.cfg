SPECIFICATION Spec
CONSTANTS
    MaxPages = 4
    CacheSize = 2
    Setups <- LongWideAndShort
CHECK_DEADLOCK FALSE
INVARIANTS TypeOK CanvasesBuffered NoLostWakeup NoCleanupWhilePrinting
PROPERTY EventuallyDrawn
