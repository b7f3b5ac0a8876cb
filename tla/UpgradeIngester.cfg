CONSTANTS
  Latest = 3
  SpecSteps = {}
  DeleteSteps = {2}
  ChownSteps = {3}
  OpenShift = FALSE
  StartVersions <- MCFirst
  Downgrades = FALSE
  NoObj = NoObj
  RVs = 6
  MaxChanges = 0
  MaxFaults = 1
  MaxListFaults = 0
  MaxRestarts = 0
CHECK_DEADLOCK FALSE
SPECIFICATION FairSpec
PROPERTY IngesterRecreated
