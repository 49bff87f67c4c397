CONSTANTS
  Requests = {r1, r2, r3}
  Limits = {0, 1, 2}
  DefaultCap = 0
  PoolMaxIdle = 1
  None = None
  NoByte = NoByte
SYMMETRY Symmetry
SPECIFICATION MCSpec
INVARIANTS SlotsCounted WithinLimits OneProbe KeptAgrees SomeoneWillCall EveryByteOnce
PROPERTIES CallsWhenRoom HeldBack
CHECK_DEADLOCK FALSE
