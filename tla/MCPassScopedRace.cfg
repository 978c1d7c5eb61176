SPECIFICATION Spec
CONSTANTS
  a = a
  b = b
  c = c
  d = d
  f = f
  e1 = e1
  e2 = e2
  Root = Root
  None = None
  Device = {a, b, c, d}
  Folder = {f}
  Entry = {e1}
  Home <- HomeRoot
  Members = {a, b, c}
  Stored = {}
  MaxCommands = 2
  MaxWrites = 0
  Failures = FALSE
  Crashes = FALSE
  Overlap = FALSE
  ManualResolve = FALSE
INVARIANT RevokedStaysOut
CHECK_DEADLOCK FALSE
SYMMETRY Twins
