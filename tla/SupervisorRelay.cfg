SPECIFICATION Spec
CONSTANTS
  Tids = {l, a, b}
  Leader = l
  NoTid = none
  TidReuse = FALSE
  MaxSignals = 1
  MaxTracees = 3
  RunawayCap = 1
PROPERTY RelayForwardedPromptly
CHECK_DEADLOCK FALSE
