SPECIFICATION FreshFairSpec
CONSTANTS
  distributor = distributor
  ingester = ingester
  ca1 = ca1
  ca2 = ca2
  ca3 = ca3
  ca4 = ca4
  ca5 = ca5
  ca6 = ca6
  ca7 = ca7
  NoObj = NoObj
  Targets = {distributor}
  CANames = {ca1, ca2, ca3, ca4, ca5, ca6, ca7}
  CACertValidity = 4
  CACertRefresh = 3
  TargetCertValidity = 3
  TargetCertRefresh = 2
  CheckExpiryAfter = 1
  Disturbed = {"signer", "bundle", distributor}
  MaxTime = 5
  MaxChanges = 1
  MaxFaults = 1
INVARIANTS TypeOK NeverOutlivesSigner
PROPERTIES PassTrusts Repaired
CHECK_DEADLOCK FALSE
