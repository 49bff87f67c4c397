CONSTANTS
  Size = 3
  BaseChunk = 3
  MinSteal = 1
  MaxRetries = 2
  Workers = {w1, w2}
  WriteBatch = 2
  Prefetch = 0
  Versions = 2
  NoByte = NoByte
  None = None
  Budgets <- Rollbacks
SYMMETRY Symmetry
SPECIFICATION Spec
INVARIANT FinalIsWhole
