SPECIFICATION Spec
CONSTANTS
  p1 = p1
  d1 = d1
  d2 = d2
  n1 = n1
  n2 = n2
  b1 = b1
  b2 = b2
  plain = plain
  stray = stray
  Reserialized <- Pipeline
  Procs = {p1}
  Dirs = {d1, d2}
  Names = {n1, n2}
  Fields = {plain}
  Bodies = {b1, b2}
  MaxWrites = 1
  MaxCommits = 3
  MaxDirty = 1
  Operating = "between"
  Faults = FALSE
  IndexFaults = TRUE
  Crashes = FALSE
SYMMETRY Symmetry
PROPERTIES GitCommitsOwnWork
