SPECIFICATION Spec
CONSTANTS
  own = own
  x = x
  y = y
  None = None
  Broken = Broken
  Key = {own, x, y}
  Own = own
  Faults = {"torn"}
  MaxCommits = 2
  MaxCrashes = 1
INVARIANTS
  NoSilentDevice
