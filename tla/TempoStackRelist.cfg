SPECIFICATION FreshFairSpec
CONSTANTS
  deployment = deployment
  statefulset = statefulset
  ingress = ingress
  configmap = configmap
  clusterrole = clusterrole
  off = off
  on = on
  large = large
  v0 = v0
  v1 = v1
  v2 = v2
  missing = missing
  valid = valid
  NoVal = NoVal
  NoCR = NoCR
  NoObj = NoObj
  Objects = {statefulset}
  ClusterScoped = {}
  Listed = {}
  Owns = {statefulset}
  Workloads = {statefulset}
  Versioned = {statefulset}
  Deletable = {}
  Editable = {}
  Specs = {off, large}
  Secrets = {valid}
  ValidSecrets = {valid}
  Values = {v0, v2}
  FixedPart <- MCFixedPart
  Want <- MCWant
  BuildOrder <- MCBuildOrder
  RVs = 3
  MaxUIDs = 3
  MaxChanges = 1
  MaxFaults = 0
  MaxRelists = 1
PROPERTIES Converges
CHECK_DEADLOCK FALSE
