SPECIFICATION Spec
CONSTANTS
  e1 = e1
  e2 = e2
  m1 = m1
  m2 = m2
  Human = human
  agent = agent
  Agents = {agent}
  Epics = {e1, e2}
  Milestones = {m1, m2}
  MaxACs = 0
  Policies = {"none"}
  HandEdits = FALSE
  RawCommits = FALSE
  Forcing = TRUE
SYMMETRY Symmetry
INVARIANTS NoOrphans
PROPERTIES SovereignByHuman
