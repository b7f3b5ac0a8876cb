SPECIFICATION FreshFairSpec
CONSTANTS
  deployment = deployment
  statefulset = statefulset
  ingress = ingress
  configmap = configmap
  clusterrole = clusterrole
  off = off
  on = on
  large = large
  v0 = v0
  v1 = v1
  v2 = v2
  missing = missing
  valid = valid
  NoVal = NoVal
  NoCR = NoCR
  NoObj = NoObj
  Objects = {deployment, configmap}
  ClusterScoped = {}
  Listed = {deployment}
  Owns = {deployment, configmap}
  Workloads = {deployment}
  Versioned = {deployment}
  Deletable = {}
  Editable = {}
  Specs = {off, on}
  Secrets = {valid}
  ValidSecrets = {valid}
  Values = {v0, v1}
  FixedPart <- MCFixedPart
  Want <- MCWant
  BuildOrder <- MCBuildOrder
  RVs = 3
  MaxUIDs = 3
  MaxChanges = 1
  MaxFaults = 0
  MaxRelists = 0
PROPERTIES NoLeftovers
CHECK_DEADLOCK FALSE
