SPECIFICATION FairSpec
CONSTANTS
  p1 = p1
  p2 = p2
  d1 = d1
  d2 = d2
  n1 = n1
  b1 = b1
  b2 = b2
  plain = plain
  stray = stray
  Reserialized <- Pipeline
  Procs = {p1, p2}
  Dirs = {d1, d2}
  Names = {n1}
  Fields = {plain}
  Bodies = {b1, b2}
  MaxWrites = 2
  MaxCommits = 2
  MaxDirty = 1
  Operating = "never"
  Faults = TRUE
  IndexFaults = TRUE
  Crashes = TRUE
INVARIANTS OperatorsWorkIsSafe
PROPERTIES LockFreed Atomic
