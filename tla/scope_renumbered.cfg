SPECIFICATION Spec
CONSTANTS
  agent = agent
  Human = human
  Agents = {agent}
  MaxEpics = 3
  MaxMilestones = 1
  MaxLedgers = 1
  MaxLog = 4
  Creates = {"gap"}
  Renumbering = TRUE
INVARIANTS ClosureEndsEveryScope
CHECK_DEADLOCK FALSE
