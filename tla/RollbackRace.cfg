SPECIFICATION Spec
CONSTANTS
  g = g
  h = h
  b = b
  k = k
  n = n
  i = i
  d1 = d1
  fb = fb
  s1 = s1
  Watchers = {w}
  Loaders = {}
  Setters = {}
  Primary = primary
  Dirs = {d1, fb}
  Fallback = fb
  Texts <- MCTexts
  Empty = Empty
  Torn = Torn
  None = None
  Valid <- MCValid
  Healthy <- MCHealthy
  Flaky = {}
  Rollback <- MCRollback
  HotReload <- MCHotReload
  DataDir <- MCOneDir
  Edit <- MCEdit
  UserTexts = {g, h, b}
  MaxEdits = 3
  Quiet = {}
  MayFail = {}
  Crashing = {}
PROPERTY RollbackKeepsText
CHECK_DEADLOCK FALSE
