SPECIFICATION Spec
CONSTANTS
  distributor = distributor
  ingester = ingester
  ca1 = ca1
  ca2 = ca2
  ca3 = ca3
  ca4 = ca4
  ca5 = ca5
  ca6 = ca6
  ca7 = ca7
  NoObj = NoObj
  Targets = {distributor}
  CANames = {ca1, ca2, ca3, ca4, ca5, ca6, ca7}
  CACertValidity = 6
  CACertRefresh = 5
  TargetCertValidity = 3
  TargetCertRefresh = 2
  CheckExpiryAfter = 1
  Disturbed = {"signer"}
  MaxTime = 3
  MaxChanges = 1
  MaxFaults = 0
PROPERTIES FollowsSigner
CHECK_DEADLOCK FALSE
