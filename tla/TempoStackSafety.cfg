SPECIFICATION Spec
CONSTANTS
  deployment = deployment
  statefulset = statefulset
  ingress = ingress
  configmap = configmap
  clusterrole = clusterrole
  off = off
  on = on
  large = large
  v0 = v0
  v1 = v1
  v2 = v2
  missing = missing
  valid = valid
  NoVal = NoVal
  NoCR = NoCR
  NoObj = NoObj
  Objects = {deployment, clusterrole}
  ClusterScoped = {clusterrole}
  Listed = {deployment, clusterrole}
  Owns = {deployment, clusterrole}
  Workloads = {deployment}
  Versioned = {deployment}
  Deletable = {deployment, clusterrole}
  Editable = {deployment}
  Specs = {off, on}
  Secrets = {missing, valid}
  ValidSecrets = {valid}
  Values = {v0, v1}
  FixedPart <- MCFixedPart
  Want <- MCWant
  BuildOrder <- MCBuildOrder
  RVs = 3
  MaxUIDs = 3
  MaxChanges = 2
  MaxFaults = 1
  MaxRelists = 1
INVARIANTS TypeOK WriterHasFinalizer FinalizerFirst
PROPERTIES PrunesOnlyUnmanaged
CHECK_DEADLOCK FALSE
