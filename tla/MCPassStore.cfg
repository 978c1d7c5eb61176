SPECIFICATION Spec
CONSTANTS
  a = a
  b = b
  c = c
  d = d
  f = f
  e1 = e1
  e2 = e2
  Root = Root
  None = None
  Device = {a, b, c}
  Folder = {f}
  Entry = {e1, e2}
  Home <- HomeSplit
  Members = {a, b}
  Stored = {e2}
  MaxCommands = 3
  MaxWrites = 1
  Failures = FALSE
  Crashes = FALSE
  Overlap = FALSE
  ManualResolve = FALSE
INVARIANTS
  TypeOK
  AccessByConsent
  RevokedStaysOut
  RevokedIsTracked
  EncryptedToList
PROPERTIES
  NeverReopened
SYMMETRY Twins
CHECK_DEADLOCK FALSE
