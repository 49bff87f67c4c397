CONSTANTS
  Tasks = {k1, k2}
  k1 = k1
  k2 = k2
  Plans <- SortedAndRemoved
  Paths = {"a", "b"}
  MaxEntries = 2
  MaxTroubles = 0
  Corrupt = Corrupt
  None = None
SPECIFICATION Spec
INVARIANT NeverBroughtBack
CHECK_DEADLOCK FALSE
