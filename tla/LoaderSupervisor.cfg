SPECIFICATION Spec
CONSTANTS
    Tids = {l, a}
    Leader = l
    None = None
    WatchdogSec = 2
    NoProgressSec = 1
    MaxImages = 2
    MaxStops = 1
INVARIANT MemFdFresh
PROPERTIES
    ParkedIsReleased
    LaunchReturns
CHECK_DEADLOCK FALSE
