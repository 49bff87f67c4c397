CONSTANTS
  Size = 2
  BaseChunk = 1
  MinSteal = 1
  MaxRetries = 1
  Workers = {w1, w2}
  WriteBatch = 1
  Prefetch = 0
  Versions = 1
  NoByte = NoByte
  None = None
  Budgets <- Silences
SPECIFICATION FairSpec
PROPERTY GivesUp
