SPECIFICATION Spec
CONSTANTS
  own = own
  x = x
  y = y
  None = None
  Broken = Broken
  Key = {own, x}
  Own = own
  Faults = {"none", "crash", "torn"}
  MaxCommits = 2
  MaxCrashes = 1
PROPERTIES
  DeviceNoticed
  RequestNoticed
  ApprovalLands
  HeadAudited
