CONSTANTS
  Latest = 4
  SpecSteps = {2}
  DeleteSteps = {3}
  ChownSteps = {4}
  OpenShift = FALSE
  StartVersions <- MCRecorded
  Downgrades = FALSE
  NoObj = NoObj
  RVs = 2
  MaxChanges = 0
  MaxFaults = 1
  MaxListFaults = 0
  MaxRestarts = 1
CHECK_DEADLOCK FALSE
SPECIFICATION Spec
INVARIANTS TypeOK VersionHonest VolumesOwned
