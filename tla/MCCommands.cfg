SPECIFICATION Spec
CHECK_DEADLOCK FALSE
CONSTANTS
  Root = "/"
  CleanName <- MCCleanName
  Paths = {"one", "two"}
  Packages <- MCPackages
  Tars <- MCTars
  Settings <- MCSettings
  AllowLists <- MCAllowLists
  NoList <- MCNoList
  Indexes <- MCIndexes
  MaxRuns = 2
INVARIANTS
  SuccessReadsBack
  FailureKeepsOld
  InjectChangesOne
PROPERTIES
  CommandsEnd
