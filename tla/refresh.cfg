SPECIFICATION Spec
CONSTANTS
  None = None
  FamiliesOf <- FamiliesOfHost
  Shipped <- ShippedBy
  Catalogue <- Packages
  Scenarios <- AllScenarios
CHECK_DEADLOCK FALSE
INVARIANTS UsersWorkKept NeverStuck NothingLeftBehind Converged
PROPERTIES AdoptedIsInstalled
