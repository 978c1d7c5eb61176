SPECIFICATION Spec
CONSTANTS
  Machines <- AtHome
  Recipe <- AllRecipes
  Plans <- Dictation
  Shipped <- Shipment
  UserFacts <- UserSupplies
  Gaps <- NoGaps
  Fragile <- Nothing
  Unresumed <- Nothing
  MaxRuns = 2
  MaxMishaps = 1
  LongPlan = 30
INVARIANTS Resumable
CHECK_DEADLOCK FALSE
