SPECIFICATION ScreenSpec
CONSTANTS
    Windows = {"a"}
    Popups = {}
    Anchor <- MCAnchor
    Buffers = {b1}
    None = None
    Timers = {TRUE, FALSE}
    MaxQueue = 1
    MaxRefs = 1
    MaxStarts = 2
PROPERTIES
    TickServes
    QueuedIsDrained
CHECK_DEADLOCK FALSE
