SPECIFICATION Spec
CONSTANTS
  f1 = f1
  f2 = f2
  p1 = p1
  p2 = p2
  d1 = d1
  d2 = d2
  Frames = {f1, f2}
  Inputs = {i1, i2}
  Params = {p1, p2}
  StraightOnly = {p1}
  Dirs = {d1, d2}
  Requests <- MCRequests
  OomQualities = {"full_2048"}
  ModelStatus = {missing, ready}
  MaxEntries = 2
  MaxServed = 4
INVARIANTS
  IndexesAgree
  KeepsRecentlyUsed
PROPERTY
  CacheIsTransparent
SYMMETRY Alike
CHECK_DEADLOCK FALSE
