SPECIFICATION Spec
CONSTANTS
  p1 = p1
  d1 = d1
  d2 = d2
  n1 = n1
  b1 = b1
  b2 = b2
  plain = plain
  stray = stray
  Reserialized <- Pipeline
  Procs = {p1}
  Dirs = {d1, d2}
  Names = {n1}
  Fields = {plain, stray}
  Bodies = {b1, b2}
  MaxWrites = 1
  MaxCommits = 3
  MaxDirty = 1
  Operating = "elsewhere"
  Faults = FALSE
  IndexFaults = FALSE
  Crashes = FALSE
SYMMETRY Symmetry
INVARIANTS OperatorsWorkIsSafe
PROPERTIES GitCommitsOwnWork Atomic NoFieldRidesIn
