SPECIFICATION Spec
CONSTANTS
  NSettings = 2
  UserValues = {"v"}
  MaxEdits = 1
  MaxCommands = 3
  MaxDrives = 3
  MaxEvents = 2
  RcFile = {"zshrc", "voxtype"}
  Templated = {"voxtype"}
  Own = {"voxtype"}
  Line = {"line"}
  MaxReleases = 2
  MaxApplies = 3
  MaxVersion = 3
  MaxUpdates = 2
  MaxMoves = 2
  MaxOrders = 4
  Image = {"f44", "f45"}
  MaxBuilds = 3
  MaxChanges = 2
INVARIANTS
  TypeOK Recoverable OnlyChosen CapInForce NothingLost Matched LeastPrivilege Converged
  VerifiedOnly Bootable
PROPERTIES
  ImplementsSnapshot NeverOlder
CHECK_DEADLOCK FALSE
