SPECIFICATION Spec
CONSTANTS
  Tids = {l, a, b}
  Leader = l
  NoTid = none
  TidReuse = FALSE
  MaxSignals = 1
  MaxTracees = 3
  RunawayCap = 1
INVARIANTS
  EveryStopResumedProperly
  RegistryCoversTracees
  NoTraceeLeftHanging
  ReturnsLeaderStatus
PROPERTIES
  GuestDeadLeadsToReturn
CHECK_DEADLOCK FALSE
