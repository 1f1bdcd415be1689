SPECIFICATION Spec
CONSTANTS
  ReqCap = 2
  RepCap = 2
  Oversized = TRUE
  MaxCalls = 4
INVARIANTS
  CleanReplyIsOurs
  AckMeansServiced
PROPERTIES
  WaitsEnd
CHECK_DEADLOCK FALSE
