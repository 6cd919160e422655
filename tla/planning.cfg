SPECIFICATION Spec
CONSTANTS
  Scenarios <- AllScenarios
  MaxNum = 3
  Levels = {"high"}
VIEW View
CHECK_DEADLOCK FALSE
INVARIANTS RefsKeepTheirReferent DependenciesSound ResolutionsAreTwoSided ConfigurationAgrees
PROPERTIES PriorIDsStayRetired VerbsKeepToTheTable
