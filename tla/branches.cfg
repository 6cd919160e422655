SPECIFICATION Spec
CONSTANTS
  a = a
  b = b
  Checkouts = {a, b}
  Scenarios <- AllScenarios
SYMMETRY Symmetry
CHECK_DEADLOCK FALSE
INVARIANTS TrunkIsSound OnlyARaceCollides CollisionsAreRepairable RenamesAreNoCollisions
