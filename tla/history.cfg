SPECIFICATION Spec
CONSTANTS
  Branches <- AllBranches
  Entities <- AllEntities
  Born <- BornEntities
  Plays <- AllPlays
  StepsOf <- StepTable
  MaxCommits <- Commits
  NamesOf <- Cast
  Rung <- Rungs
  Order <- Names
  Parent <- Parents
  DirName <- Directories
INVARIANTS
  VerbsPassTheAudit
  AuditIsExact
  OriginIsAnswered
  BranchModelIsPoliced
CHECK_DEADLOCK FALSE
