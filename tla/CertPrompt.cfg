SPECIFICATION PromptSpec
CONSTANTS
  distributor = distributor
  ingester = ingester
  ca1 = ca1
  ca2 = ca2
  ca3 = ca3
  ca4 = ca4
  ca5 = ca5
  ca6 = ca6
  ca7 = ca7
  NoObj = NoObj
  Targets = {distributor, ingester}
  CANames = {ca1, ca2, ca3, ca4, ca5, ca6, ca7}
  CACertValidity = 30
  CACertRefresh = 24
  TargetCertValidity = 5
  TargetCertRefresh = 4
  CheckExpiryAfter = 1
  Disturbed = {"signer", distributor}
  MaxTime = 62
  MaxChanges = 1
  MaxFaults = 0
INVARIANTS NeverExpired BundleCovers
CHECK_DEADLOCK FALSE
