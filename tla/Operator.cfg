SPECIFICATION Spec
CONSTANTS
  Gates <- MCGates
  Endpoints <- MCEndpoints
  Pods0 = {d0}
  Reused = {}
  Nodes = {"n1", "n2"}
  LabelKeys = {"zone"}
  InitialLabels <- MCInitialLabels
  NewLabels <- MCNewLabels
  NoPod = NoPod
  NoObj = NoObj
  NoZone = NoZone
  MaxRestarts = 2
  MaxFaults = 1
  MaxMoves = 1
  MaxDeletions = 1
  MaxRelabels = 1
INVARIANTS AccessKept MonitoringFollows ZoneOfNode
PROPERTIES WebhookServed PodsStart
CHECK_DEADLOCK FALSE
