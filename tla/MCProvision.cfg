SPECIFICATION Spec
CONSTANTS
  Machines <- Everywhere
  Recipe <- AllRecipes
  Plans <- AllPlans
  Shipped <- Shipment
  UserFacts <- UserSupplies
  Gaps <- KnownGaps
  Fragile <- KnownFragile
  Unresumed <- KnownUnresumed
  MaxRuns = 3
  MaxMishaps = 1
  LongPlan = 30
INVARIANTS TypeOK Complete Converges WellOrdered Resumes SshStaysOpen
PROPERTIES GoodPlan
CHECK_DEADLOCK FALSE
