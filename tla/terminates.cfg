CONSTANTS
  Size = 2
  BaseChunk = 2
  MinSteal = 1
  MaxRetries = 0
  Workers = {w1, w2}
  WriteBatch = 1
  Prefetch = 0
  Versions = 1
  NoByte = NoByte
  None = None
  Budgets <- Endings
SPECIFICATION FairSpec
PROPERTY Terminates
