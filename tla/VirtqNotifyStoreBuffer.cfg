CONSTANTS
  IdxMod = 8
  QueueSize = 3
SPECIFICATION Spec
PROPERTY WaitReturns
CHECK_DEADLOCK FALSE
