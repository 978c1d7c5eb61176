SPECIFICATION Spec
CONSTANTS
  own = own
  x = x
  y = y
  None = None
  Broken = Broken
  Key = {own, x, y}
  Own = own
  Faults = {"none", "crash", "race"}
  MaxCommits = 2
  MaxCrashes = 1
INVARIANTS
  NoSilentDevice
  NoSilentRequest
  AnnouncedOnce
  FailureTold
PROPERTIES
  OwnApprovalsSilentInTurn
SYMMETRY Others
