SPECIFICATION Spec
CONSTANTS
  agent = agent
  Human = human
  Agents = {agent}
  MaxEpics = 2
  MaxMilestones = 3
  MaxLedgers = 1
  MaxLog = 4
  Creates = {"gap"}
  Renumbering = TRUE
INVARIANTS ClosedMeansEnded ScopesFollowRenumbering
PROPERTIES OnlyThePickedMove AuditAgreesWithGate
CHECK_DEADLOCK FALSE
