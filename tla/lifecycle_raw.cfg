SPECIFICATION Spec
CONSTANTS
  e1 = e1
  m1 = m1
  Human = human
  Agents = {}
  Epics = {e1}
  Milestones = {m1}
  MaxACs = 1
  Policies = {"required", "none"}
  HandEdits = TRUE
  RawCommits = TRUE
  Forcing = TRUE
SYMMETRY Symmetry
VIEW View
INVARIANTS OffersAreTaken
PROPERTIES AnswerIsTrue UnforcedStepsAreLegal VerbsKeepToTheTable
