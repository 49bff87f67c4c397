CONSTANTS
  Ids = {1, 2}
  File <- SameFile
  Private = {2}
  Secret = {1}
  Live = {2}
  MaxRunning = 1
  SmallAtOnce = 1
  MaxUnsaved = 1
  Smalls = {}
  Budgets <- Night
  None = None
SPECIFICATION Spec

PROPERTY YoursStayPaused
CHECK_DEADLOCK FALSE
