CONSTANTS
  Size = 3
  BaseChunk = 2
  MinSteal = 1
  MaxRetries = 1
  Workers = {w1, w2}
  WriteBatch = 2
  Prefetch = 1
  Versions = 2
  NoByte = NoByte
  None = None
  Budgets <- Troubles
SYMMETRY Symmetry
SPECIFICATION Spec
INVARIANTS TypeOK Tiles CountsAreTrue EveryByteOnce ResumeIsSafe FinalIsWhole
PROPERTY KeepsPromise
