CONSTANTS
  Ids = {1, 2}
  File <- SameFile
  Private = {2}
  Secret = {1}
  Live = {2}
  MaxRunning = 2
  SmallAtOnce = 1
  MaxUnsaved = 1
  Smalls = {1}
  Budgets <- Weeks
  None = None
  s1 = s1
  s2 = s2
  s3 = s3
  Junk = Junk
  m1 = m1
  m2 = m2
  Bad = Bad
  Hole = Hole
SPECIFICATION MCSpec
INVARIANTS OneEngineEach SavedIsLatest  
PROPERTIES DoneIsSaid 
CHECK_DEADLOCK FALSE
