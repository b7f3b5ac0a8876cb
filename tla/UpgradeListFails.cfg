CONSTANTS
  Latest = 3
  SpecSteps = {2}
  DeleteSteps = {}
  ChownSteps = {3}
  OpenShift = FALSE
  StartVersions <- MCMade
  Downgrades = FALSE
  NoObj = NoObj
  RVs = 6
  MaxChanges = 0
  MaxFaults = 1
  MaxListFaults = 1
  MaxRestarts = 0
CHECK_DEADLOCK FALSE
SPECIFICATION Spec
INVARIANT VersionHonest
