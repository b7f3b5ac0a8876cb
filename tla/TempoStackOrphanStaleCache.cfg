SPECIFICATION Spec
CONSTANTS
  deployment = deployment
  statefulset = statefulset
  ingress = ingress
  configmap = configmap
  clusterrole = clusterrole
  off = off
  on = on
  large = large
  v0 = v0
  v1 = v1
  v2 = v2
  missing = missing
  valid = valid
  NoVal = NoVal
  NoCR = NoCR
  NoObj = NoObj
  Objects = {clusterrole}
  ClusterScoped = {clusterrole}
  Listed = {clusterrole}
  Owns = {clusterrole}
  Workloads = {}
  Versioned = {}
  Deletable = {}
  Editable = {}
  Specs = {off, on}
  Secrets = {valid}
  ValidSecrets = {valid}
  Values = {v0, v1}
  FixedPart <- MCFixedPart
  Want <- MCWant
  BuildOrder <- MCBuildOrder
  RVs = 3
  MaxUIDs = 3
  MaxChanges = 2
  MaxFaults = 0
  MaxRelists = 0
PROPERTIES OrphanFree
CHECK_DEADLOCK FALSE
