SPECIFICATION ScreenSpec
CONSTANTS
    Windows = {"a", "b"}
    Popups = {"m"}
    Anchor <- MCAnchor
    Buffers = {b1}
    None = None
    Timers = {TRUE}
    MaxQueue = 1
    MaxRefs = 2
    MaxStarts = 1
INVARIANTS
    HeldBuffersReferenced
    ScreenIsScene
CHECK_DEADLOCK FALSE
