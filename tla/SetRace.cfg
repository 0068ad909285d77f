SPECIFICATION Spec
CONSTANTS
  g = g
  h = h
  b = b
  k = k
  n = n
  i = i
  d1 = d1
  fb = fb
  s1 = s1
  Watchers = {}
  Loaders = {l}
  Setters = {s1}
  Primary = primary
  Dirs = {d1, fb}
  Fallback = fb
  Texts <- MCTexts
  Empty = Empty
  Torn = Torn
  None = None
  Valid <- MCValid
  Healthy <- MCHealthy
  Flaky = {}
  Rollback <- MCRollback
  HotReload <- MCHotReload
  DataDir <- MCOneDir
  Edit <- MCEdit
  UserTexts = {g}
  MaxEdits = 1
  Quiet = {}
  MayFail = {}
  Crashing = {}
INVARIANT PrimaryWhole
CHECK_DEADLOCK FALSE
