CONSTANTS
  Requests = {r1, r2}
  Limits = {1, 2}
  DefaultCap = 0
  PoolMaxIdle = 1
SPECIFICATION FairSpec
PROPERTY StrictServed
