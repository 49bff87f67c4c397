CONSTANTS
  Claimers = {c1, c2, c3}
  Files = {f1, f2, f3, f4}
  NoFile = NoFile
  Tries = 2
  Windows = TRUE
  MaxCrashes = 2
  d1 = d1
  d2 = d2
  t1 = t1
  u1 = u1
  u2 = u2
  Mine = Mine
  Hole = Hole
  Writers = {w1, w2}
  Values = {v1, v2}
  k1 = k1
  k2 = k2
  k3 = k3
  Corrupt = Corrupt
  m1 = m1
  m2 = m2
  x1 = x1
  x2 = x2
  g = g
  c = c
  Torn = Torn
SYMMETRY Symmetry
SPECIFICATION MCSpec
INVARIANTS MutualExclusion PartsAreOwned DigestsAreOfTheFile ShownIsLatest MirrorsAreJudgedRight 
PROPERTIES ImplementsOwner NeverReplaced BuildsOnTheFile
CHECK_DEADLOCK FALSE
