CONSTANTS
  Latest = 3
  SpecSteps = {}
  DeleteSteps = {2}
  ChownSteps = {3}
  OpenShift = FALSE
  StartVersions <- MCNew
  Downgrades = FALSE
  NoObj = NoObj
  RVs = 6
  MaxChanges = 0
  MaxFaults = 0
  MaxListFaults = 0
  MaxRestarts = 1
CHECK_DEADLOCK FALSE
SPECIFICATION Spec
INVARIANT VolumesOwned
