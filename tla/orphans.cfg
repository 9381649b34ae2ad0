SPECIFICATION OrphanSpec
CONSTANTS
  x = x
  y = y
  p = p
  q = q
  h1 = h1
  h2 = h2
  gw = gw
  s1 = s1
  s2 = s2
  ABSENT = ABSENT
  SpiHalf = 4
  ULongMod = 64
  SadNames = {x, y}
  SpdNames = {}
  SadCfgsOf <- PlainSas
  SpdCfgsOf <- NoPolicies
  Addrs = {h1, h2, gw}
  Spis = {1, 2, 3}
  Selectors = {s1, s2}
  ForeignIds = {}
  Edits = {"create", "delete"}
  MayHappen = {"stop", "late"}
  MaxOps = 1
  MaxCommits = 4
  MaxStarts = 2
  MaxNodes = 3
  QueueMax = 2
INVARIANTS
  DiesOverOrphans
PROPERTIES
  DeletesTheExpired
CHECK_DEADLOCK FALSE
