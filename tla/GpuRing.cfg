SPECIFICATION Spec
CONSTANTS
  RingBytes = 8
  MaxBytes = 18
INVARIANTS
  InFlightIntact
PROPERTIES
  IsPipe
  PublishedIsDrained
CHECK_DEADLOCK FALSE
