SPECIFICATION Spec
CONSTANTS
  a = a
  b = b
  c = c
  d = d
  f = f
  e1 = e1
  e2 = e2
  Root = Root
  None = None
  Device = {a, b, c}
  Folder = {}
  Entry = {}
  Home <- HomeRoot
  Members = {}
  Stored = {}
  MaxCommands = 2
  MaxWrites = 1
  Failures = TRUE
  Crashes = TRUE
  Overlap = TRUE
  ManualResolve = TRUE
PROPERTY RevokedForGood
CHECK_DEADLOCK FALSE
SYMMETRY Alike
