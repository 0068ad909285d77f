SPECIFICATION Spec
CONSTANTS
  Procs = {p1, p2}
  Paths = {f1, f2}
  Texts = {a, b}
  Empty = Empty
  Torn = Torn
  None = None
  Shared = {f2}
  MayFail = {p1, p2}
INVARIANT NeverTorn
PROPERTY ImplementsRegister
