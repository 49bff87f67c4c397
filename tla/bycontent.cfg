CONSTANTS
  d1 = d1
  d2 = d2
  u1 = u1
  u2 = u2
  Downloads = {d1, d2}
  Tools = {}
  Urls = {u1, u2}
  Url <- TheirUrls
  Bases = {"a", "a.zip"}
  Base <- TwoBases
  Shown <- ByContent
  Replaces = {}
  Mine = Mine
  None = None
  MaxN = 1
  Budgets <- Peace
SPECIFICATION Spec
PROPERTY NeverReplaced
