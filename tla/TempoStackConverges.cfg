SPECIFICATION FreshFairSpec
CONSTANTS
  deployment = deployment
  statefulset = statefulset
  ingress = ingress
  configmap = configmap
  clusterrole = clusterrole
  off = off
  on = on
  large = large
  v0 = v0
  v1 = v1
  v2 = v2
  missing = missing
  valid = valid
  NoVal = NoVal
  NoCR = NoCR
  NoObj = NoObj
  Objects = {statefulset, clusterrole}
  ClusterScoped = {clusterrole}
  Listed = {clusterrole}
  Owns = {statefulset, clusterrole}
  Workloads = {statefulset}
  Versioned = {statefulset}
  Deletable = {statefulset}
  Editable = {statefulset}
  Specs = {off, large}
  Secrets = {missing, valid}
  ValidSecrets = {valid}
  Values = {v0, v1, v2}
  FixedPart <- MCFixedPart
  Want <- MCWant
  BuildOrder <- MCBuildOrder
  RVs = 3
  MaxUIDs = 3
  MaxChanges = 2
  MaxFaults = 1
  MaxRelists = 0
PROPERTIES Converges StatusSettles Lifecycle OrphanFree
CHECK_DEADLOCK FALSE
