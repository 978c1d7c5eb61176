SPECIFICATION Spec
CONSTANTS
  a = a
  b = b
  c = c
  d = d
  f = f
  e1 = e1
  e2 = e2
  Root = Root
  None = None
  Device = {a, b, c}
  Folder = {}
  Entry = {e1}
  Home <- HomeRoot
  Members = {a, b, c}
  Stored = {e1}
  MaxCommands = 2
  MaxWrites = 1
  Failures = FALSE
  Crashes = FALSE
  Overlap = FALSE
  ManualResolve = TRUE
INVARIANT RevokedStaysOut
CHECK_DEADLOCK FALSE
SYMMETRY Alike
