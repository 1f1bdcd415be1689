SPECIFICATION ServerSpec
CONSTANTS
    Clients = {c1}
    RingFrames = 2
    TLength = 1
    MinReq = 1
    SockCap = 2
    CloseWaits = TRUE
    MaxTags = 2
    MaxBlocks = 3
INVARIANTS
    MixerFollowsClients
    RingHoldsNewest
    AnswersInOrder
PROPERTIES
    RequestServed
    StopReturns
CHECK_DEADLOCK FALSE
