SPECIFICATION Spec
CONSTANTS
  Threads = {t1, t2}
  NoThread = none
  RingBytes = 4
  OpSizes = {1, 2}
  MaxBytes = 5
  MaxFlushes = 2
INVARIANTS
  DecodesWholeOps
  AnsweredFramesComplete
PROPERTIES
  FlushedIsPresented
  WaitsEnd
CHECK_DEADLOCK FALSE
