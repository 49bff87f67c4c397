CONSTANTS
  Count = 4
  Connections = 3
  Window = 3
  None = None
  Hole = Hole
  Workers = {w1, w2}
  Claimers = {c1, c2}
  LockFiles = {f1, f2, f3}
  Writers = {t1}
  Stream = s1
  Requests = {r1, r2, r3}
  Site = m1
SPECIFICATION MCFairSpec
INVARIANT RequestsCounted
PROPERTIES DeliversInOrder LoopsEnd Completes SomebodyGetsIt FollowsToTheEnd NamedOnceHandedOver NothingHangs EveryWaiterWoken
CHECK_DEADLOCK FALSE
