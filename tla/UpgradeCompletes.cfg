CONSTANTS
  Latest = 3
  SpecSteps = {2}
  DeleteSteps = {}
  ChownSteps = {}
  OpenShift = FALSE
  StartVersions <- MCNumbered
  Downgrades = TRUE
  NoObj = NoObj
  RVs = 3
  MaxChanges = 1
  MaxFaults = 1
  MaxListFaults = 0
  MaxRestarts = 1
CHECK_DEADLOCK FALSE
SPECIFICATION FairSpec
PROPERTIES UpgradeCompletes RevertsOnlyOnError
