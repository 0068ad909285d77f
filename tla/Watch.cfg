SPECIFICATION FairSpec
CONSTANTS
  g = g
  h = h
  b = b
  k = k
  n = n
  i = i
  d1 = d1
  fb = fb
  s1 = s1
  Watchers = {w}
  Loaders = {}
  Setters = {}
  Primary = primary
  Dirs = {d1, fb}
  Fallback = fb
  Texts <- MCTexts
  Empty = Empty
  Torn = Torn
  None = None
  Valid <- MCValid
  Healthy <- MCHealthy
  Flaky = {b}
  Rollback <- MCRollback
  HotReload <- MCHotReload
  DataDir <- MCOneDir
  Edit <- MCEdit
  UserTexts = {g, b, i}
  MaxEdits = 2
  Quiet = {}
  MayFail = {w}
  Crashing = {w}
INVARIANTS TypeOK SnapshotsVetted ActiveVetted
PROPERTY Converges
CHECK_DEADLOCK FALSE

