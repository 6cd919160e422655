SPECIFICATION Spec
CONSTANTS
  e1 = e1
  m1 = m1
  Human = human
  Agents = {}
  Epics = {e1}
  Milestones = {m1}
  MaxACs = 1
  Policies = {"required", "none"}
  HandEdits = TRUE
  RawCommits = FALSE
  Forcing = TRUE
SYMMETRY Symmetry
VIEW View
INVARIANTS TypeOK ArchivedTerminal ClosedContracts MetMeansDone
